---------------------------- MODULE RestartSafety ----------------------------
(***************************************************************************)
(* What a restart promises of the records that ever became durable, proved *)
(* for every number of pages, records, transactions, reclamations, faults  *)
(* and crashes: the inductive invariant of RestartInvariant and the        *)
(* properties of RestartProperties that follow from it.                    *)
(*                                                                         *)
(* The argument: a baseline is a function of the prefix of the history it  *)
(* covers, and no record is ever added to that prefix.  A log, reclaimed   *)
(* or not, is an end of the history that starts no later than the anchored *)
(* frontier, so the table derived from a baseline and the records after it *)
(* knows every commit of a transaction that the log names.  Hence the last *)
(* installable image among those records is the last committed one, or     *)
(* the page has shown that one since before the log was cut.               *)
(***************************************************************************)
EXTENDS RestartInvariant, ExtremaProofs, FiniteSetTheorems

----------------------------------------------------------------------------
(* Records.                                                                 *)
LEMMA RecordFacts ==
    ASSUME NEW r \in Records
    PROVE  /\ r.at \in Nat \ {0}
           /\ r.kind \in {"Page", "TransactionPage", "Commit"}
           /\ r.kind = "Page" => r.page \in Pages /\ r.by = NoOwner
           /\ r.kind = "TransactionPage" => r.page \in Pages /\ r.by \in Owners
           /\ r.kind = "Commit" => r.page = 0 /\ r.by \in Owners
  BY DEF Records

LEMMA OwnerFacts ==
    /\ NoOwner \notin Owners /\ NoOwner[1] = 0
    /\ \A t \in Owners : t[1] \in Nat \ {0} /\ t[2] \in Nat \ {0}
  BY DEF NoOwner, Owners

\* The positions of a set of records are bounded, as those of a log are.
Within(S, n) == S \subseteq Records /\ n \in Nat /\ \A r \in S : r.at <= n

LEMMA PositionsBounded ==
    ASSUME NEW S, NEW n, Within(S, n)
    PROVE  PositionsIn(S) \in SUBSET (0 .. n) /\ PositionsIn(S) \in SUBSET Nat
  BY RecordFacts DEF Within, PositionsIn

LEMMA WithinParts ==
    ASSUME NEW S, NEW n, Within(S, n), NEW T \in SUBSET S
    PROVE  Within(T, n)
  BY DEF Within

\* CommittedAt is the position of the last record of a page that is shown.
LEMMA LastOf ==
    ASSUME NEW S, NEW n, Within(S, n)
    PROVE  /\ S = {} => Latest(PositionsIn(S)) = 0
           /\ S # {} => \E r \in S : r.at = Latest(PositionsIn(S))
           /\ \A r \in S : r.at <= Latest(PositionsIn(S))
<1>1. PositionsIn(S) \in SUBSET (0 .. n) /\ n \in Nat
  BY PositionsBounded DEF Within
<1>2. S = {} <=> PositionsIn(S) = {}
  BY DEF PositionsIn
<1>3. /\ PositionsIn(S) = {} => Latest(PositionsIn(S)) = 0
      /\ PositionsIn(S) # {} => IsLatest(Latest(PositionsIn(S)), PositionsIn(S))
  BY <1>1, LatestIsLast
<1>4. \A r \in S : r.at \in PositionsIn(S)
  BY DEF PositionsIn
<1>5. \A q \in PositionsIn(S) : \E r \in S : r.at = q
  BY DEF PositionsIn
<1> QED
  BY <1>2, <1>3, <1>4, <1>5 DEF IsLatest

LEMMA FirstOf ==
    ASSUME NEW S, NEW n, Within(S, n)
    PROVE  /\ S = {} => Earliest(PositionsIn(S)) = 0
           /\ S # {} => \E r \in S : r.at = Earliest(PositionsIn(S))
           /\ \A r \in S : Earliest(PositionsIn(S)) <= r.at
<1>1. PositionsIn(S) \in SUBSET Nat
  BY PositionsBounded
<1>2. S = {} <=> PositionsIn(S) = {}
  BY DEF PositionsIn
<1>3. /\ PositionsIn(S) = {} => Earliest(PositionsIn(S)) = 0
      /\ PositionsIn(S) # {} => IsEarliest(Earliest(PositionsIn(S)), PositionsIn(S))
  BY <1>1, EarliestIsFirst
<1>4. \A r \in S : r.at \in PositionsIn(S)
  BY DEF PositionsIn
<1>5. \A q \in PositionsIn(S) : \E r \in S : r.at = q
  BY DEF PositionsIn
<1> QED
  BY <1>2, <1>3, <1>4, <1>5 DEF IsEarliest

----------------------------------------------------------------------------
(* The transaction table of a set of records.                               *)
LEMMA TableFacts ==
    ASSUME NEW S, NEW n, Within(S, n), NEW t
    PROVE  /\ DOMAIN Transactions(S) = OwnersIn(S)
           /\ t \in OwnersIn(S) => Transactions(S)[t] = Entry(S, t)
           /\ t \in OwnersIn(S) <=> \E r \in S : r.by = t /\ r.kind # "Page"
           /\ OwnersIn(S) \subseteq Owners
<1>1. \A r \in S : r.kind # "Page" <=> r.by # NoOwner
  BY RecordFacts, OwnerFacts DEF Within
<1>2. \A r \in S : r.by # NoOwner => r.by \in Owners
  BY RecordFacts, <1>1 DEF Within
<1> QED
  BY <1>1, <1>2 DEF Transactions, OwnersIn

LEMMA EntryFacts ==
    ASSUME NEW S, NEW n, Within(S, n), NEW t
    PROVE  /\ Entry(S, t).commit = 0 <=> ~\E c \in S : c.kind = "Commit" /\ c.by = t
           /\ Entry(S, t).commit # 0 =>
                \E c \in S : c.kind = "Commit" /\ c.by = t /\ c.at = Entry(S, t).commit
           /\ \A r \in S : r.kind = "TransactionPage" /\ r.by = t =>
                /\ Entry(S, t).first <= r.at /\ Entry(S, t).first # 0
                /\ \E x \in S : x.kind = "TransactionPage" /\ x.by = t
                                /\ x.at = Entry(S, t).first
<1> DEFINE C == {c \in S : c.kind = "Commit" /\ c.by = t}
           O == {r \in S : r.kind = "TransactionPage" /\ r.by = t}
<1>1. Within(C, n) /\ Within(O, n)
  BY WithinParts
<1>2. Entry(S, t).commit = Earliest(PositionsIn(C)) /\ Entry(S, t).first = Earliest(PositionsIn(O))
  BY DEF Entry, Commits, OwnedPages, PositionsIn
<1>3. /\ C = {} => Earliest(PositionsIn(C)) = 0
      /\ C # {} => \E r \in C : r.at = Earliest(PositionsIn(C))
  BY <1>1, FirstOf
<1>4. /\ O # {} => \E r \in O : r.at = Earliest(PositionsIn(O))
      /\ \A r \in O : Earliest(PositionsIn(O)) <= r.at
  BY <1>1, FirstOf
<1>5. \A r \in S : r.at # 0
  BY RecordFacts DEF Within
<1> HIDE DEF C, O
<1>6. C \subseteq S /\ \A c \in S : c \in C <=> c.kind = "Commit" /\ c.by = t
  BY DEF C
<1>7. O \subseteq S /\ \A c \in S : c \in O <=> c.kind = "TransactionPage" /\ c.by = t
  BY DEF O
<1> QED
  BY <1>2, <1>3, <1>4, <1>5, <1>6, <1>7

----------------------------------------------------------------------------
(* The history.                                                             *)
LEMMA HistoryWithin ==
    ASSUME TypeInv, HistoryInv
    PROVE  Within(history, highWater) /\ Within(log, highWater)
  BY DEF TypeInv, HistoryInv, Within

\* What the complete history says of a transaction.
LEMMA EverFacts ==
    ASSUME TypeInv, HistoryInv
    PROVE  /\ DOMAIN Ever = OwnersIn(history)
           /\ \A t \in OwnersIn(history) :
                Ever[t] = Entry(history, t) /\ (Ever[t].commit = 0 <=> ~DurablyCommitted(t))
           /\ \A t : t \in Unresolved(Ever) <=>
                        t \in OwnersIn(history) /\ ~DurablyCommitted(t)
           /\ \A t : t \in OwnersIn(history) <=> \E r \in history : r.by = t /\ r.kind # "Page"
<1>1. Within(history, highWater)
  BY HistoryWithin
<1>2. /\ DOMAIN Ever = OwnersIn(history)
      /\ \A t \in OwnersIn(history) : Ever[t] = Entry(history, t)
      /\ \A t : t \in OwnersIn(history) <=> \E r \in history : r.by = t /\ r.kind # "Page"
  BY <1>1, TableFacts DEF Ever
<1>3. \A t : Entry(history, t).commit = 0 <=> ~DurablyCommitted(t)
  BY <1>1, EntryFacts DEF DurablyCommitted
<1> QED
  BY <1>2, <1>3 DEF Unresolved

\* The last committed image of a page.
LEMMA CommittedAtFacts ==
    ASSUME TypeInv, HistoryInv, NEW p
    PROVE  /\ CommittedAt(p) \in Nat
           /\ \A r \in history : r.page = p /\ Shown(r) =>
                r.at <= CommittedAt(p) /\ CommittedAt(p) # 0
           /\ CommittedAt(p) # 0 =>
                \E r \in history : r.at = CommittedAt(p) /\ r.page = p /\ Shown(r)
<1> DEFINE S == {x \in history : x.page = p /\ Shown(x)}
<1>1. Within(S, highWater)
  BY HistoryWithin, WithinParts
<1>2. CommittedAt(p) = Latest(PositionsIn(S))
  BY DEF CommittedAt, PositionsIn
<1>3. \A r \in S : r.at \in Nat \ {0}
  BY <1>1, RecordFacts DEF Within
<1> HIDE DEF S
<1>4. /\ S = {} => CommittedAt(p) = 0
      /\ S # {} => \E r \in S : r.at = CommittedAt(p)
      /\ \A r \in S : r.at <= CommittedAt(p)
  BY <1>1, <1>2, LastOf
<1>5. CommittedAt(p) \in Nat /\ \A r \in S : r.at <= CommittedAt(p) /\ CommittedAt(p) # 0
  BY <1>3, <1>4
<1> QED
  BY <1>4, <1>5 DEF S

\* The image that a table requires of a set of records: the last installable.
LEMMA RequiredFacts ==
    ASSUME NEW S, NEW n, Within(S, n), NEW entries, NEW p
    PROVE  /\ \A r \in S : r.page = p /\ Installable(entries, r) =>
                /\ RequiredImage(entries, S, p) # NoImage
                /\ r.at <= RequiredImage(entries, S, p).at
           /\ RequiredImage(entries, S, p) # NoImage =>
                \E r \in S : /\ r.page = p /\ Installable(entries, r)
                             /\ RequiredImage(entries, S, p).at = r.at
<1> DEFINE images == {r \in S : r.page = p /\ Installable(entries, r)}
           latest == CHOOSE r \in images : IsLatest(r.at, PositionsIn(images))
<1>1. CASE images = {}
  BY <1>1 DEF RequiredImage
<1>2. CASE images # {}
  <2>1. Within(images, n)
    BY WithinParts
  <2>2. \E r \in images : IsLatest(r.at, PositionsIn(images))
    <3>1. PositionsIn(images) \in SUBSET (0 .. n) /\ n \in Nat
      BY <2>1, PositionsBounded DEF Within
    <3>2. PositionsIn(images) # {}
      BY <1>2 DEF PositionsIn
    <3>3. \E q \in PositionsIn(images) : IsLatest(q, PositionsIn(images))
      BY <3>1, <3>2, LatestExists
    <3> QED
      BY <3>3 DEF PositionsIn
  <2>3. latest \in images /\ IsLatest(latest.at, PositionsIn(images))
    BY <2>2
  <2>4. RequiredImage(entries, S, p) = Image(entries, latest)
    BY <1>2 DEF RequiredImage
  <2>5. RequiredImage(entries, S, p).at = latest.at
    BY <2>4 DEF Image
  <2>6. latest.at # 0
    BY <2>1, <2>3, RecordFacts DEF Within
  <2>7. RequiredImage(entries, S, p) # NoImage
    BY <2>5, <2>6 DEF NoImage
  <2>8. \A r \in images : r.at <= latest.at
    BY <2>3 DEF IsLatest, PositionsIn
  <2> HIDE DEF latest
  <2> QED
    BY <2>3, <2>5, <2>7, <2>8
<1> QED
  BY <1>1, <1>2

----------------------------------------------------------------------------
(* The table of now: a baseline's, advanced by the records of the log.      *)

\* A transaction has one commit, so any set of its records that has it shows
\* it.
LEMMA CommitOf ==
    ASSUME TypeInv, HistoryInv, NEW S \in SUBSET history,
           NEW c \in S, c.kind = "Commit"
    PROVE  Entry(S, c.by).commit = c.at /\ c.at # 0
<1>1. Within(S, highWater)
  BY HistoryWithin, WithinParts
<1>2. Entry(S, c.by).commit # 0
  BY <1>1, EntryFacts
<1>3. PICK d \in S : d.kind = "Commit" /\ d.by = c.by /\ d.at = Entry(S, c.by).commit
  BY <1>1, <1>2, EntryFacts
<1>4. d.at <= c.at /\ c.at <= d.at
  BY <1>3 DEF HistoryInv
<1>5. d.at \in Nat /\ c.at \in Nat
  BY <1>1, RecordFacts DEF Within
<1> QED
  BY <1>2, <1>3, <1>4, <1>5

\* An entry over records in two parts, one before the other.
LEMMA ExtremaSplit ==
    ASSUME NEW n \in Nat, NEW A \in SUBSET (1 .. n), NEW B \in SUBSET (1 .. n),
           \A a \in A, b \in B : a < b
    PROVE  /\ Earliest(A) = 0 => Earliest(A \cup B) = Earliest(B)
           /\ Earliest(A) # 0 => Earliest(A \cup B) = Earliest(A)
           /\ Latest(B) = 0 => Latest(A \cup B) = Latest(A)
           /\ Latest(B) # 0 => Latest(A \cup B) = Latest(B)
           /\ Cardinality(A \cup B) = Cardinality(A) + Cardinality(B)
<1> DEFINE AB == A \cup B
<1>1. /\ A \in SUBSET (0 .. n) /\ B \in SUBSET (0 .. n) /\ AB \in SUBSET (0 .. n)
      /\ A \in SUBSET Nat /\ B \in SUBSET Nat /\ AB \in SUBSET Nat
  OBVIOUS
<1>2. /\ \A a \in AB : a \in A \/ a \in B
      /\ \A a \in AB : a \in Nat \ {0}
      /\ \A a \in A, b \in B : a < b
  OBVIOUS
<1>3. A \subseteq AB /\ B \subseteq AB /\ (AB = {} <=> A = {} /\ B = {})
  OBVIOUS
<1> HIDE DEF AB
<1>4. /\ A = {} => Earliest(A) = 0 /\ Latest(A) = 0
      /\ A # {} => IsEarliest(Earliest(A), A) /\ IsLatest(Latest(A), A)
  BY <1>1, EarliestIsFirst, LatestIsLast
<1>5. /\ B = {} => Earliest(B) = 0 /\ Latest(B) = 0
      /\ B # {} => IsEarliest(Earliest(B), B) /\ IsLatest(Latest(B), B)
  BY <1>1, EarliestIsFirst, LatestIsLast
<1>6. /\ AB = {} => Earliest(AB) = 0 /\ Latest(AB) = 0
      /\ AB # {} => IsEarliest(Earliest(AB), AB) /\ IsLatest(Latest(AB), AB)
  BY <1>1, EarliestIsFirst, LatestIsLast
<1>7. Earliest(AB) = IF Earliest(A) = 0 THEN Earliest(B) ELSE Earliest(A)
  <2>1. CASE A = {}
    <3>1. AB = B
      BY <2>1 DEF AB
    <3> QED
      BY <2>1, <3>1, <1>4
  <2>2. CASE A # {}
    <3>1. Earliest(A) \in A /\ \A a \in A : Earliest(A) <= a
      BY <2>2, <1>4 DEF IsEarliest
    <3>2. \A b \in AB : Earliest(A) <= b
      <4> SUFFICES ASSUME NEW b \in AB PROVE Earliest(A) <= b
        OBVIOUS
      <4>1. b \in A => Earliest(A) <= b
        BY <3>1
      <4>2. b \in B => Earliest(A) < b
        BY <3>1, <1>2
      <4>3. Earliest(A) \in Nat /\ b \in Nat
        BY <3>1, <1>2, <1>3
      <4> QED
        BY <4>1, <4>2, <4>3, <1>2
    <3>3. Earliest(AB) \in AB /\ \A b \in AB : Earliest(AB) <= b
      BY <2>2, <1>3, <1>6 DEF IsEarliest
    <3>4. Earliest(A) <= Earliest(AB) /\ Earliest(AB) <= Earliest(A)
      BY <3>1, <3>2, <3>3, <1>3
    <3>5. Earliest(A) \in Nat \ {0} /\ Earliest(AB) \in Nat
      BY <3>1, <3>3, <1>2, <1>3
    <3> QED
      BY <3>4, <3>5
  <2> QED
    BY <2>1, <2>2
<1>8. Latest(AB) = IF Latest(B) = 0 THEN Latest(A) ELSE Latest(B)
  <2>1. CASE B = {}
    <3>1. AB = A
      BY <2>1 DEF AB
    <3> QED
      BY <2>1, <3>1, <1>5
  <2>2. CASE B # {}
    <3>1. Latest(B) \in B /\ \A b \in B : b <= Latest(B)
      BY <2>2, <1>5 DEF IsLatest
    <3>2. \A b \in AB : b <= Latest(B)
      <4> SUFFICES ASSUME NEW b \in AB PROVE b <= Latest(B)
        OBVIOUS
      <4>1. b \in B => b <= Latest(B)
        BY <3>1
      <4>2. b \in A => b < Latest(B)
        BY <3>1, <1>2
      <4>3. Latest(B) \in Nat /\ b \in Nat
        BY <3>1, <1>2, <1>3
      <4> QED
        BY <4>1, <4>2, <4>3, <1>2
    <3>3. Latest(AB) \in AB /\ \A b \in AB : b <= Latest(AB)
      BY <2>2, <1>3, <1>6 DEF IsLatest
    <3>4. Latest(B) <= Latest(AB) /\ Latest(AB) <= Latest(B)
      BY <3>1, <3>2, <3>3, <1>3
    <3>5. Latest(B) \in Nat \ {0} /\ Latest(AB) \in Nat
      BY <3>1, <3>3, <1>2, <1>3
    <3> QED
      BY <3>4, <3>5
  <2> QED
    BY <2>1, <2>2
<1>9. Cardinality(AB) = Cardinality(A) + Cardinality(B)
  <2>1. IsFiniteSet(A) /\ IsFiniteSet(B)
    <3>1. IsFiniteSet(1 .. n)
      BY FS_Interval
    <3> QED
      BY <3>1, FS_Subset
  <2>2. A \cap B = {}
    BY <1>1
  <2>3. Cardinality(AB) = Cardinality(A) + Cardinality(B) - Cardinality(A \cap B)
    BY <2>1, FS_Union DEF AB
  <2>4. Cardinality(A \cap B) = 0 /\ Cardinality(A) \in Nat /\ Cardinality(B) \in Nat
    BY <2>1, <2>2, FS_EmptySet, FS_CardinalityType
  <2> QED
    BY <2>3, <2>4
<1> QED
  BY <1>7, <1>8, <1>9 DEF AB

\* An entry over a prefix of the records and over the rest of them.
LEMMA EntrySplit ==
    ASSUME TypeInv, HistoryInv, NEW f \in Nat, NEW X \in SUBSET history, NEW t,
           \A r \in X : r.at > f,
           \A r \in history : r.by = t /\ r.at > f => r \in X
    PROVE  LET before == Entry(Prefix(history, f), t)
               after == Entry(X, t)
               whole == Entry(history, t)
           IN  /\ whole.commit = IF after.commit = 0 THEN before.commit ELSE after.commit
               /\ whole.first = IF before.first = 0 THEN after.first ELSE before.first
               /\ whole.last = IF after.last = 0 THEN before.last ELSE after.last
               /\ whole.count = before.count + after.count
               /\ (\A r \in X : r.by # t) => whole = before
               /\ (\A r \in Prefix(history, f) : r.by # t) => whole = after
<1> DEFINE A == OwnedPages(Prefix(history, f), t)
           B == OwnedPages(X, t)
           n == highWater
<1>1. Prefix(history, f) \in SUBSET history
  BY DEF Prefix
<1>2. /\ Within(history, n) /\ Within(Prefix(history, f), n) /\ Within(X, n)
      /\ n \in Nat
  BY <1>1, HistoryWithin, WithinParts DEF TypeInv
<1>3. \A r \in history : r.at \in 1 .. n
  BY <1>2, RecordFacts DEF Within
<1>4. A \in SUBSET (1 .. n) /\ B \in SUBSET (1 .. n)
  BY <1>1, <1>3 DEF OwnedPages
<1>5. \A a \in A, b \in B : a < b
  <2>1. \A a \in A : a <= f /\ a \in Nat
    BY <1>1, <1>3 DEF OwnedPages, Prefix
  <2>2. \A b \in B : b > f /\ b \in Nat
    BY <1>3 DEF OwnedPages
  <2> QED
    BY <2>1, <2>2
<1>6. OwnedPages(history, t) = A \cup B
  <2>1. \A r \in history : r.by = t => r \in Prefix(history, f) \/ r \in X
    BY <1>3 DEF Prefix
  <2> QED
    BY <1>1, <2>1 DEF OwnedPages
<1>7. Entry(history, t).commit = IF Entry(X, t).commit = 0 THEN Entry(Prefix(history, f), t).commit
                                 ELSE Entry(X, t).commit
  <2>1. CASE Entry(X, t).commit # 0
    <3>1. PICK c \in X : c.kind = "Commit" /\ c.by = t /\ c.at = Entry(X, t).commit
      BY <1>2, <2>1, EntryFacts
    <3>2. Entry(history, t).commit = c.at
      BY <3>1, CommitOf
    <3> QED
      BY <2>1, <3>1, <3>2
  <2>2. CASE Entry(X, t).commit = 0 /\ Entry(Prefix(history, f), t).commit # 0
    <3>1. PICK c \in Prefix(history, f) :
              c.kind = "Commit" /\ c.by = t /\ c.at = Entry(Prefix(history, f), t).commit
      BY <1>2, <2>2, EntryFacts
    <3>2. Entry(history, t).commit = c.at
      BY <1>1, <3>1, CommitOf
    <3> QED
      BY <2>2, <3>1, <3>2
  <2>3. CASE Entry(X, t).commit = 0 /\ Entry(Prefix(history, f), t).commit = 0
    <3>1. \A c \in X \cup Prefix(history, f) : ~(c.kind = "Commit" /\ c.by = t)
      BY <1>2, <2>3, EntryFacts
    <3>2. \A r \in history : r.by = t => r \in Prefix(history, f) \/ r \in X
      BY <1>3 DEF Prefix
    <3>3. Entry(history, t).commit = 0
      BY <1>2, <3>1, <3>2, EntryFacts
    <3> QED
      BY <2>3, <3>3
  <2> QED
    BY <2>1, <2>2, <2>3
<1>8. /\ (\A r \in X : r.by # t) => B = {}
      /\ (\A r \in Prefix(history, f) : r.by # t) => A = {}
  BY DEF OwnedPages
<1>9. /\ Entry(history, t) = [first |-> Earliest(A \cup B), last |-> Latest(A \cup B),
                              count |-> Cardinality(A \cup B),
                              commit |-> Entry(history, t).commit]
      /\ Entry(Prefix(history, f), t) = [first |-> Earliest(A), last |-> Latest(A),
                                         count |-> Cardinality(A),
                                         commit |-> Entry(Prefix(history, f), t).commit]
      /\ Entry(X, t) = [first |-> Earliest(B), last |-> Latest(B), count |-> Cardinality(B),
                        commit |-> Entry(X, t).commit]
  BY <1>6 DEF Entry
<1> HIDE DEF A, B, n
<1>10. /\ Earliest(A) = 0 => Earliest(A \cup B) = Earliest(B)
       /\ Earliest(A) # 0 => Earliest(A \cup B) = Earliest(A)
       /\ Latest(B) = 0 => Latest(A \cup B) = Latest(A)
       /\ Latest(B) # 0 => Latest(A \cup B) = Latest(B)
       /\ Cardinality(A \cup B) = Cardinality(A) + Cardinality(B)
  BY <1>2, <1>4, <1>5, ExtremaSplit, Zenon
<1>11. /\ Entry(history, t).first = Earliest(A \cup B) /\ Entry(history, t).last = Latest(A \cup B)
       /\ Entry(history, t).count = Cardinality(A \cup B)
       /\ Entry(Prefix(history, f), t).first = Earliest(A)
       /\ Entry(Prefix(history, f), t).last = Latest(A)
       /\ Entry(Prefix(history, f), t).count = Cardinality(A)
       /\ Entry(X, t).first = Earliest(B) /\ Entry(X, t).last = Latest(B)
       /\ Entry(X, t).count = Cardinality(B)
  BY <1>9
<1>12. (\A r \in X : r.by # t) => Entry(history, t) = Entry(Prefix(history, f), t)
  <2> SUFFICES ASSUME \A r \in X : r.by # t
               PROVE  Entry(history, t) = Entry(Prefix(history, f), t)
    OBVIOUS
  <2>1. A \cup B = A
    BY <1>8
  <2>2. Entry(X, t).commit = 0
    BY <1>2, EntryFacts
  <2> QED
    BY <1>7, <1>9, <2>1, <2>2
<1>13. (\A r \in Prefix(history, f) : r.by # t) => Entry(history, t) = Entry(X, t)
  <2> SUFFICES ASSUME \A r \in Prefix(history, f) : r.by # t
               PROVE  Entry(history, t) = Entry(X, t)
    OBVIOUS
  <2>1. A \cup B = B
    BY <1>8
  <2>2. Entry(Prefix(history, f), t).commit = 0
    BY <1>2, EntryFacts
  <2> QED
    BY <1>7, <1>9, <2>1, <2>2
<1> QED
  BY <1>7, <1>10, <1>11, <1>12, <1>13

\* Only a transaction's records are by a transaction.
LEMMA OwnedByTransaction ==
    ASSUME TypeInv, HistoryInv, NEW t \in OwnersIn(history), NEW r \in history, r.by = t
    PROVE  r.kind # "Page"
<1>1. t \in Owners /\ r \in Records
  BY HistoryWithin, TableFacts DEF Within
<1> QED
  BY <1>1, RecordFacts, OwnerFacts

\* What a table of now knows of the history.
Knows(entries) ==
    /\ \A t \in DOMAIN entries : t \in DOMAIN Ever /\ entries[t].commit = Ever[t].commit
    /\ \A t \in Unresolved(Ever) : t \in DOMAIN entries /\ entries[t] = Ever[t]
    /\ \A r \in log : r.kind # "Page" => r.by \in DOMAIN entries

\* The table of an end of the history that has all of the log.
LEMMA TableKnows ==
    ASSUME TypeInv, HistoryInv, LogInv, NEW S, S \subseteq history, log \subseteq S,
           \A r \in S, s \in history : r.at <= s.at => s \in S
    PROVE  Knows(Transactions(S))
<1>1. Within(S, highWater) /\ Within(history, highWater)
  BY HistoryWithin, WithinParts
<1>2. /\ DOMAIN Transactions(S) = OwnersIn(S)
      /\ \A t \in OwnersIn(S) : Transactions(S)[t] = Entry(S, t)
      /\ \A t : t \in OwnersIn(S) <=> \E r \in S : r.by = t /\ r.kind # "Page"
  BY <1>1, TableFacts
<1>3. ASSUME NEW t \in OwnersIn(S)
      PROVE  t \in DOMAIN Ever /\ Entry(S, t).commit = Ever[t].commit
  <2>1. PICK r \in S : r.by = t /\ r.kind # "Page"
    BY <1>2
  <2>2. t \in DOMAIN Ever /\ Ever[t] = Entry(history, t)
    BY <2>1, EverFacts
  <2>3. CASE Entry(history, t).commit = 0
    BY <1>1, <2>2, <2>3, EntryFacts
  <2>4. CASE Entry(history, t).commit # 0
    <3>1. PICK c \in history : c.kind = "Commit" /\ c.by = t /\ c.at = Entry(history, t).commit
      BY <1>1, <2>4, EntryFacts
    <3>2. c \in S
      BY <2>1, <3>1 DEF HistoryInv
    <3> QED
      BY <2>2, <3>1, <3>2, CommitOf
  <2> QED
    BY <2>3, <2>4
<1>4. ASSUME NEW t \in Unresolved(Ever)
      PROVE  t \in OwnersIn(S) /\ Entry(S, t) = Ever[t]
  <2>1. t \in OwnersIn(history) /\ Ever[t] = Entry(history, t)
    BY EverFacts
  <2>2. \A r \in history : r.by = t => r \in S
    BY DEF LogInv
  <2>3. OwnedPages(S, t) = OwnedPages(history, t) /\ Commits(S, t) = Commits(history, t)
    BY <2>2 DEF OwnedPages, Commits
  <2> QED
    BY <1>2, <2>1, <2>2, <2>3, EverFacts DEF Entry
<1>5. \A r \in log : r.kind # "Page" => r.by \in OwnersIn(S)
  BY <1>2
<1> QED
  BY <1>2, <1>3, <1>4, <1>5 DEF Knows

\* The table of a baseline, advanced by the records of the log after it.
LEMMA AdvancedIs ==
    ASSUME TypeInv, HistoryInv, NEW b, BaselineTrue(b)
    PROVE  LET P == Prefix(history, b.frontier)
               X == log \ Prefix(log, b.frontier)
           IN  /\ Advanced(b, log) = [t \in OwnersIn(P) \cup OwnersIn(X) |-> Advanced(b, log)[t]]
               /\ \A t \in OwnersIn(P) \cup OwnersIn(X) :
                    /\ t \notin OwnersIn(P) => Advanced(b, log)[t] = Entry(X, t)
                    /\ t \notin OwnersIn(X) => Advanced(b, log)[t] = Entry(P, t)
                    /\ t \in OwnersIn(P) /\ t \in OwnersIn(X) =>
                         Advanced(b, log)[t] = EntryAdvanced(Entry(P, t), Entry(X, t))
<1> DEFINE P == Prefix(history, b.frontier)
           X == log \ Prefix(log, b.frontier)
<1>1. P \in SUBSET history /\ X \in SUBSET log
  BY DEF Prefix
<1>2. Within(P, highWater) /\ Within(X, highWater)
  BY <1>1, HistoryWithin, WithinParts
<1>3. b.entries = Transactions(P)
  BY DEF BaselineTrue
<1> HIDE DEF P, X
<1>4. /\ DOMAIN b.entries = OwnersIn(P)
      /\ \A t \in OwnersIn(P) : b.entries[t] = Entry(P, t)
  BY <1>2, <1>3, TableFacts
<1>5. /\ DOMAIN Transactions(X) = OwnersIn(X)
      /\ \A t \in OwnersIn(X) : Transactions(X)[t] = Entry(X, t)
  BY <1>2, TableFacts
<1>6. Advanced(b, log) =
          [t \in DOMAIN b.entries \cup DOMAIN Transactions(X) |->
              IF t \notin DOMAIN b.entries THEN Transactions(X)[t]
              ELSE IF t \notin DOMAIN Transactions(X) THEN b.entries[t]
              ELSE EntryAdvanced(b.entries[t], Transactions(X)[t])]
  BY DEF Advanced, X
<1>7. /\ Advanced(b, log) = [t \in OwnersIn(P) \cup OwnersIn(X) |-> Advanced(b, log)[t]]
      /\ \A t \in OwnersIn(P) \cup OwnersIn(X) :
           /\ t \notin OwnersIn(P) => Advanced(b, log)[t] = Entry(X, t)
           /\ t \notin OwnersIn(X) => Advanced(b, log)[t] = Entry(P, t)
           /\ t \in OwnersIn(P) /\ t \in OwnersIn(X) =>
                Advanced(b, log)[t] = EntryAdvanced(Entry(P, t), Entry(X, t))
  BY <1>4, <1>5, <1>6
<1> QED
  BY <1>7 DEF P, X

\* The records that the table of now is a function of: a log that starts no later
\* than the frontier of a baseline yields the table of all of the history.
Tabled(b) == IF generation # 0 /\ b.frontier = 0 THEN log ELSE history

LEMMA AdvancedTable ==
    ASSUME TypeInv, HistoryInv, LogInv, NEW b, BaselineTrue(b),
           b.frontier # 0 => \A r \in history : r.at >= b.frontier => r \in log
    PROVE  Advanced(b, log) = Transactions(IF b.frontier = 0 THEN log ELSE history)
<1> DEFINE f == b.frontier
           P == Prefix(history, f)
           X == log \ Prefix(log, f)
           S == IF f = 0 THEN log ELSE history
           E == Advanced(b, log)
<1>1. /\ P \in SUBSET history /\ X \in SUBSET history /\ log \subseteq history /\ f \in Nat
      /\ \A r \in X : r \in log /\ r.at > f
      /\ \A r \in P : r.at <= f
      /\ \A r \in history : r.at <= f => r \in P
      /\ \A r \in log : r.at > f => r \in X
  <2>1. \A r \in history : r.at \in Nat
    BY HistoryWithin, RecordFacts DEF Within
  <2> QED
    BY <2>1 DEF Prefix, TypeInv, BaselineTrue
<1>2. Within(P, highWater) /\ Within(X, highWater) /\ Within(S, highWater)
  BY <1>1, HistoryWithin, WithinParts
<1>3. /\ E = [t \in OwnersIn(P) \cup OwnersIn(X) |-> E[t]]
      /\ \A t \in OwnersIn(P) \cup OwnersIn(X) :
           /\ t \notin OwnersIn(P) => E[t] = Entry(X, t)
           /\ t \notin OwnersIn(X) => E[t] = Entry(P, t)
           /\ t \in OwnersIn(P) /\ t \in OwnersIn(X) =>
                E[t] = EntryAdvanced(Entry(P, t), Entry(X, t))
  BY AdvancedIs
<1>4. \A r \in history : r.at \in Nat \ {0}
  BY HistoryWithin, RecordFacts DEF Within
<1> HIDE DEF P, X, E
<1>5. f = 0 => P = {} /\ X = log
  BY <1>1, <1>4
<1>6. f # 0 => \A r \in history : r.at > f => r \in X
  BY <1>1, <1>4
<1>7. S = P \cup X
  BY <1>1, <1>4, <1>5, <1>6
<1>8. OwnersIn(S) = OwnersIn(P) \cup OwnersIn(X)
  BY <1>7 DEF OwnersIn
<1>9. \A t \in OwnersIn(S) : E[t] = Entry(S, t)
  <2> SUFFICES ASSUME NEW t \in OwnersIn(S) PROVE E[t] = Entry(S, t)
    OBVIOUS
  <2>1. CASE f = 0
    <3>1. OwnersIn(P) = {}
      BY <1>5, <2>1 DEF OwnersIn
    <3> QED
      BY <1>3, <1>5, <1>8, <2>1, <3>1
  <2>2. CASE f # 0
    <3>1. LET before == Entry(P, t)
              after == Entry(X, t)
              whole == Entry(history, t)
          IN  /\ whole.commit = IF after.commit = 0 THEN before.commit ELSE after.commit
              /\ whole.first = IF before.first = 0 THEN after.first ELSE before.first
              /\ whole.last = IF after.last = 0 THEN before.last ELSE after.last
              /\ whole.count = before.count + after.count
              /\ (\A r \in X : r.by # t) => whole = before
              /\ (\A r \in P : r.by # t) => whole = after
      BY <1>1, <1>6, <2>2, EntrySplit DEF P
    <3>2. t # NoOwner
      BY DEF OwnersIn
    <3>3. CASE t \notin OwnersIn(X)
      <4>1. \A r \in X : r.by # t
        BY <3>2, <3>3 DEF OwnersIn
      <4> QED
        BY <1>3, <1>8, <2>2, <3>1, <3>3, <4>1
    <3>4. CASE t \notin OwnersIn(P)
      <4>1. \A r \in P : r.by # t
        BY <3>2, <3>4 DEF OwnersIn
      <4> QED
        BY <1>3, <1>8, <2>2, <3>1, <3>4, <4>1
    <3>5. CASE t \in OwnersIn(P) /\ t \in OwnersIn(X)
      <4>1. EntryAdvanced(Entry(P, t), Entry(X, t)) =
                [first |-> Entry(history, t).first, last |-> Entry(history, t).last,
                 count |-> Entry(history, t).count, commit |-> Entry(history, t).commit]
        BY <3>1 DEF EntryAdvanced
      <4>2. Entry(history, t) =
                [first |-> Entry(history, t).first, last |-> Entry(history, t).last,
                 count |-> Entry(history, t).count, commit |-> Entry(history, t).commit]
        BY DEF Entry
      <4> QED
        BY <1>3, <2>2, <3>5, <4>1, <4>2
    <3> QED
      BY <3>3, <3>4, <3>5
  <2> QED
    BY <2>1, <2>2
<1>10. E = Transactions(S)
  BY <1>3, <1>8, <1>9 DEF Transactions
<1> QED
  BY <1>10 DEF E

\* The table of now is that of an end of the history.
LEMMA NowTable ==
    ASSUME TypeInv, HistoryInv, LogInv, AnchorInv, NEW b, BaselineTrue(b),
           generation # 0 => anchor = {b}
    PROVE  /\ EntriesNow(b) = Transactions(Tabled(b))
           /\ Tabled(b) \in SUBSET history /\ log \subseteq Tabled(b)
           /\ \A r \in Tabled(b), s \in history : r.at <= s.at => s \in Tabled(b)
<1>1. log \subseteq history
  BY DEF TypeInv
<1>2. CASE generation = 0
  BY <1>1, <1>2 DEF LogInv, EntriesNow, Tabled
<1>3. CASE generation # 0
  <2>1. b.frontier # 0 => \A r \in history : r.at >= b.frontier => r \in log
    BY <1>3 DEF AnchorInv
  <2> QED
    BY <1>1, <1>3, <2>1, AdvancedTable DEF EntriesNow, Tabled, LogInv
<1> QED
  BY <1>2, <1>3

\* The table of now of any baseline that the typestates hold.
LEMMA NowKnows ==
    ASSUME TypeInv, HistoryInv, LogInv, AnchorInv, NEW b, BaselineTrue(b),
           generation # 0 => anchor = {b}
    PROVE  Knows(EntriesNow(b))
  BY NowTable, TableKnows

----------------------------------------------------------------------------
(* Images.                                                                  *)

\* The images of the log that such a table installs are those that are shown.
LEMMA ShownNow ==
    ASSUME TypeInv, HistoryInv, NEW entries, Knows(entries), NEW r \in log
    PROVE  Installable(entries, r) <=> Shown(r)
<1>1. r \in history
  BY DEF TypeInv
<1>2. ASSUME r.kind = "TransactionPage"
      PROVE  Committed(entries, r.by) <=> DurablyCommitted(r.by)
  <2>1. r.by \in DOMAIN entries
    BY <1>2 DEF Knows
  <2>2. r.by \in DOMAIN Ever /\ entries[r.by].commit = Ever[r.by].commit
    BY <2>1 DEF Knows
  <2> QED
    BY <2>1, <2>2, EverFacts DEF Committed
<1> QED
  BY <1>2 DEF Installable, Shown

\* The images that a true baseline knows were shown when it was published.
LEMMA ShownThen ==
    ASSUME TypeInv, HistoryInv, NEW b, BaselineTrue(b),
           NEW r \in Prefix(history, b.frontier), Installable(b.entries, r)
    PROVE  Shown(r)
<1> DEFINE P == Prefix(history, b.frontier)
<1>1. P \in SUBSET history /\ Within(P, highWater)
  BY HistoryWithin, WithinParts DEF Prefix
<1>2. b.entries = Transactions(P)
  BY DEF BaselineTrue
<1> HIDE DEF P
<1>3. Committed(b.entries, r.by) => DurablyCommitted(r.by)
  <2> SUFFICES ASSUME Committed(b.entries, r.by)
               PROVE  DurablyCommitted(r.by)
    OBVIOUS
  <2>1. Entry(P, r.by).commit # 0
    BY <1>1, <1>2, TableFacts DEF Committed
  <2>2. \E c \in P : c.kind = "Commit" /\ c.by = r.by
    BY <1>1, <2>1, EntryFacts
  <2> QED
    BY <1>1, <2>2 DEF DurablyCommitted
<1> QED
  BY <1>3 DEF Installable, Shown

\* Positions tell records apart, so the record at the last committed position
\* of a page is an image of that page.
LEMMA RecordOfCommitted ==
    ASSUME TypeInv, HistoryInv, NEW p, CommittedAt(p) # 0, NEW r \in history,
           r.at = CommittedAt(p)
    PROVE  r.page = p /\ Shown(r)
<1>1. PICK c \in history : c.at = CommittedAt(p) /\ c.page = p /\ Shown(c)
  BY CommittedAtFacts
<1>2. r = c
  BY <1>1 DEF HistoryInv
<1> QED
  BY <1>1, <1>2

\* What such a table requires of records of the log, against what the history
\* has committed.
LEMMA RequiredNow ==
    ASSUME TypeInv, HistoryInv, NEW entries, Knows(entries), NEW S \in SUBSET log, NEW p
    PROVE  /\ RequiredImage(entries, S, p) # NoImage =>
                \E r \in S : /\ r.page = p /\ Shown(r)
                             /\ r.at = RequiredImage(entries, S, p).at
           /\ RequiredImage(entries, S, p) # NoImage =>
                /\ RequiredImage(entries, S, p).at \in Nat \ {0}
                /\ RequiredImage(entries, S, p).at <= CommittedAt(p)
           /\ CommittedAt(p) # 0 /\ CommittedAt(p) \in PositionsIn(S) =>
                /\ RequiredImage(entries, S, p) # NoImage
                /\ RequiredImage(entries, S, p).at = CommittedAt(p)
<1> DEFINE image == RequiredImage(entries, S, p)
<1>1. S \subseteq history /\ Within(S, highWater)
  BY HistoryWithin, WithinParts DEF TypeInv
<1>2. \A r \in S : Installable(entries, r) <=> Shown(r)
  BY ShownNow
<1>3. /\ \A r \in S : r.page = p /\ Installable(entries, r) => image # NoImage /\ r.at <= image.at
      /\ image # NoImage => \E r \in S : r.page = p /\ Installable(entries, r) /\ image.at = r.at
  BY <1>1, RequiredFacts
<1> HIDE DEF image
<1>4. image # NoImage => \E r \in S : r.page = p /\ Shown(r) /\ r.at = image.at
  BY <1>2, <1>3
<1>5. image # NoImage => image.at \in Nat \ {0} /\ image.at <= CommittedAt(p)
  <2>1. \A r \in S : r.at \in Nat \ {0}
    BY <1>1, RecordFacts DEF Within
  <2>2. \A r \in S : r.page = p /\ Shown(r) => r.at <= CommittedAt(p)
    BY <1>1, CommittedAtFacts
  <2> QED
    BY <1>4, <2>1, <2>2
<1>6. CommittedAt(p) # 0 /\ CommittedAt(p) \in PositionsIn(S) =>
          image # NoImage /\ image.at = CommittedAt(p)
  <2> SUFFICES ASSUME CommittedAt(p) # 0, CommittedAt(p) \in PositionsIn(S)
               PROVE  image # NoImage /\ image.at = CommittedAt(p)
    OBVIOUS
  <2>1. PICK r \in S : r.at = CommittedAt(p)
    BY DEF PositionsIn
  <2>2. r.page = p /\ Shown(r)
    BY <1>1, <2>1, RecordOfCommitted
  <2>3. image # NoImage /\ CommittedAt(p) <= image.at
    BY <1>2, <1>3, <2>1, <2>2
  <2> QED
    BY <1>5, <2>3, CommittedAtFacts
<1> QED
  BY <1>4, <1>5, <1>6 DEF image

\* What a true baseline requires of its prefix is committed.
LEMMA RequiredThen ==
    ASSUME TypeInv, HistoryInv, NEW b, BaselineTrue(b), NEW p
    PROVE  LET image == RequiredImage(b.entries, Prefix(history, b.frontier), p) IN
           /\ image # NoImage => image.at \in Nat \ {0} /\ image.at <= CommittedAt(p)
           /\ \A r \in Prefix(history, b.frontier) :
                r.page = p /\ Installable(b.entries, r) => image # NoImage /\ r.at <= image.at
           /\ image # NoImage => image.at <= b.frontier
<1> DEFINE P == Prefix(history, b.frontier)
           image == RequiredImage(b.entries, P, p)
<1>1. P \subseteq history /\ Within(P, highWater) /\ \A r \in P : r.at <= b.frontier
  BY HistoryWithin, WithinParts DEF Prefix
<1>2. \A r \in P : Installable(b.entries, r) => Shown(r)
  BY ShownThen
<1> HIDE DEF P
<1>3. /\ \A r \in P : r.page = p /\ Installable(b.entries, r) => image # NoImage /\ r.at <= image.at
      /\ image # NoImage => \E r \in P : r.page = p /\ Installable(b.entries, r) /\ image.at = r.at
  BY <1>1, RequiredFacts
<1> HIDE DEF image
<1>4. \A r \in P : r.at \in Nat \ {0}
  BY <1>1, RecordFacts DEF Within
<1>5. \A r \in P : r.page = p /\ Shown(r) => r.at <= CommittedAt(p)
  BY <1>1, CommittedAtFacts
<1>6. /\ image # NoImage => image.at \in Nat \ {0} /\ image.at <= CommittedAt(p)
      /\ image # NoImage => image.at <= b.frontier
  BY <1>1, <1>2, <1>3, <1>4, <1>5
<1> QED
  BY <1>3, <1>6 DEF P, image

----------------------------------------------------------------------------
(* The window of replay.                                                    *)

\* Replay starts at or before everything that the baseline still needs.
LEMMA ReplayFacts ==
    ASSUME TypeInv, HistoryInv, NEW b, BaselineTrue(b)
    PROVE  /\ b.frontier \in Nat /\ b.frontier <= highWater
           /\ b.replay.at \in Nat /\ b.replay.at <= b.frontier
           /\ \A t \in Unresolved(b.entries) :
                b.replay.kind = "AtPosition" /\ b.replay.at <= b.entries[t].first
           /\ \A p \in DOMAIN b.pages : Lagging(b.pages[p]) =>
                b.replay.kind = "AtPosition" /\ b.replay.at <= b.pages[p].required.at
<1> DEFINE P == Prefix(history, b.frontier)
           firsts == {b.entries[t].first : t \in Unresolved(b.entries)}
           images == {b.pages[p].required.at : p \in {q \in DOMAIN b.pages : Lagging(b.pages[q])}}
           floor == firsts \cup images
<1>1. /\ b.frontier \in Nat /\ b.frontier <= highWater
      /\ b.entries = Transactions(P)
      /\ b.replay = ReplayStart(b.entries, b.pages, b.frontier)
      /\ \A p \in DOMAIN b.pages :
           b.pages[p] = PageState(RequiredImage(b.entries, P, p), b.pages[p].stored)
  BY DEF BaselineTrue, TypeInv
<1>2. P \subseteq history /\ Within(P, highWater) /\ \A r \in P : r.at <= b.frontier
  BY HistoryWithin, WithinParts DEF Prefix
<1>3. \A r \in P : r.at \in Nat \ {0}
  BY <1>2, RecordFacts DEF Within
<1>4. b.replay = IF floor = {} THEN [kind |-> "AfterFrontier", at |-> b.frontier]
                 ELSE [kind |-> "AtPosition", at |-> Earliest(floor)]
  BY <1>1 DEF ReplayStart
<1>5. \A t \in Unresolved(b.entries) :
          b.entries[t].first \in Nat /\ b.entries[t].first <= b.frontier
  <2> SUFFICES ASSUME NEW t \in Unresolved(b.entries)
               PROVE  b.entries[t].first \in Nat /\ b.entries[t].first <= b.frontier
    OBVIOUS
  <2> HIDE DEF P
  <2>1. t \in OwnersIn(P) /\ b.entries[t] = Entry(P, t) /\ Entry(P, t).commit = 0
    BY <1>1, <1>2, TableFacts DEF Unresolved
  <2>2. PICK r \in P : r.by = t /\ r.kind # "Page"
    BY <1>2, <2>1, TableFacts
  <2>3. r.kind = "TransactionPage"
    <3>1. r.kind # "Commit"
      BY <1>2, <2>1, <2>2, EntryFacts
    <3> QED
      BY <1>2, <2>2, <3>1, RecordFacts DEF Within
  <2>4. \E x \in P : x.at = Entry(P, t).first
    BY <1>2, <2>2, <2>3, EntryFacts
  <2> QED
    BY <1>2, <1>3, <2>1, <2>4
<1>6. \A p \in DOMAIN b.pages : Lagging(b.pages[p]) =>
          b.pages[p].required.at \in Nat /\ b.pages[p].required.at <= b.frontier
  <2> SUFFICES ASSUME NEW p \in DOMAIN b.pages, Lagging(b.pages[p])
               PROVE  /\ b.pages[p].required.at \in Nat
                      /\ b.pages[p].required.at <= b.frontier
    OBVIOUS
  <2> DEFINE image == RequiredImage(b.entries, P, p)
  <2>1. b.pages[p] = PageState(image, b.pages[p].stored)
    BY <1>1
  <2>2. image # NoImage => image.at \in Nat \ {0} /\ image.at <= b.frontier
    BY RequiredThen
  <2> HIDE DEF image
  <2>3. b.pages[p].required = image /\ (image = NoImage => b.pages[p].state = "NoRequiredImage")
    BY <2>1 DEF PageState
  <2>4. image # NoImage
    BY <2>3 DEF Lagging
  <2> QED
    BY <2>2, <2>3, <2>4
<1>7. floor \in SUBSET Nat /\ \A q \in floor : q <= b.frontier
  BY <1>5, <1>6
<1>8. /\ \A t \in Unresolved(b.entries) : b.entries[t].first \in floor
      /\ \A p \in DOMAIN b.pages : Lagging(b.pages[p]) => b.pages[p].required.at \in floor
  OBVIOUS
<1> HIDE DEF floor, P
<1>9. CASE floor = {}
  <2>1. b.replay.at = b.frontier
    BY <1>4, <1>9
  <2> QED
    BY <1>1, <1>8, <1>9, <2>1
<1>10. CASE floor # {}
  <2>1. b.replay.at = Earliest(floor) /\ b.replay.kind = "AtPosition"
    BY <1>4, <1>10
  <2>2. Earliest(floor) \in floor /\ \A q \in floor : Earliest(floor) <= q
    BY <1>7, <1>10, EarliestIsFirst DEF IsEarliest
  <2> QED
    BY <1>1, <1>7, <1>8, <2>1, <2>2
<1> QED
  BY <1>9, <1>10

\* A transaction without a commit is replayed from its first page on.
LEMMA UnresolvedReplayed ==
    ASSUME TypeInv, HistoryInv, NEW b, BaselineTrue(b),
           NEW r \in log, r.kind = "TransactionPage",
           r.by \notin DOMAIN b.entries \/ b.entries[r.by].commit = 0
    PROVE  r \in Window(log, b.replay)
<1> DEFINE P == Prefix(history, b.frontier)
<1>1. /\ b.frontier \in Nat /\ b.replay.at \in Nat /\ b.replay.at <= b.frontier
      /\ \A t \in Unresolved(b.entries) :
           b.replay.kind = "AtPosition" /\ b.replay.at <= b.entries[t].first
  BY ReplayFacts
<1>2. r \in history /\ r.at \in Nat
  BY HistoryWithin, RecordFacts DEF Within, TypeInv
<1>3. CASE r.at > b.frontier
  <2>1. r.at > b.replay.at
    BY <1>1, <1>2, <1>3
  <2> QED
    BY <1>1, <1>2, <2>1 DEF Window
<1>4. CASE r.at <= b.frontier
  <2>1. r \in P /\ Within(P, highWater) /\ b.entries = Transactions(P)
    BY <1>2, <1>4, HistoryWithin, WithinParts DEF Prefix, BaselineTrue
  <2> HIDE DEF P
  <2>2. /\ r.by \in DOMAIN b.entries /\ b.entries[r.by] = Entry(P, r.by)
        /\ Entry(P, r.by).first <= r.at
    BY <2>1, TableFacts, EntryFacts
  <2>3. r.by \in Unresolved(b.entries)
    BY <2>2 DEF Unresolved
  <2>4. Entry(P, r.by).first \in Nat
    <3>1. \E x \in P : x.at = Entry(P, r.by).first
      BY <2>1, EntryFacts
    <3> QED
      BY <2>1, <3>1, RecordFacts DEF Within
  <2>5. b.replay.kind = "AtPosition" /\ b.replay.at <= r.at
    BY <1>1, <1>2, <2>2, <2>3, <2>4
  <2> QED
    BY <2>5 DEF Window
<1> QED
  BY <1>1, <1>2, <1>3, <1>4

\* The window has every record of the log after one of its own.
LEMMA WindowIsEnd ==
    ASSUME NEW S, NEW n, Within(S, n), NEW replay, replay.at \in Nat,
           NEW r \in Window(S, replay), NEW s \in S, r.at <= s.at
    PROVE  s \in Window(S, replay)
<1>1. r.at \in Nat /\ s.at \in Nat
  BY RecordFacts DEF Window, Within
<1> QED
  BY <1>1 DEF Window

\* A checkpoint that a complete log derives again covers what replay skips.
LEMMA DerivedCovers ==
    ASSUME TypeInv, HistoryInv, StoreShowsCommitted, log = history,
           NEW b, BaselineTrue(b), BaselineHolds(log, highWater, store, b)
    PROVE  Covers(b)
<1> SUFFICES ASSUME NEW p \in Pages, CommittedAt(p) \notin PositionsIn(Window(log, b.replay))
             PROVE  store[p] = CommittedAt(p)
  BY DEF Covers
<1> DEFINE c == CommittedAt(p)
           P == Prefix(history, b.frontier)
           image == RequiredImage(b.entries, P, p)
<1>1. CASE c = 0
  <2>1. store[p] # 0 => c # 0
    BY CommittedAtFacts DEF StoreShowsCommitted
  <2> QED
    BY <1>1, <2>1
<1>2. CASE c # 0
  <2>1. PICK r \in history : r.at = c /\ r.page = p /\ Shown(r)
    BY <1>2, CommittedAtFacts
  <2>2. r \notin Window(log, b.replay)
    BY <2>1 DEF PositionsIn
  <2>3. /\ b.frontier \in Nat /\ b.replay.at \in Nat /\ b.replay.at <= b.frontier
        /\ \A q \in DOMAIN b.pages : Lagging(b.pages[q]) =>
             b.replay.kind = "AtPosition" /\ b.replay.at <= b.pages[q].required.at
    BY ReplayFacts
  <2>4. r.at \in Nat /\ r \in Records
    BY HistoryWithin, RecordFacts DEF Within
  <2>5. r.at <= b.replay.at /\ (b.replay.kind = "AtPosition" => r.at < b.replay.at)
    BY <2>2, <2>3, <2>4 DEF Window
  <2>6. r \in P
    BY <2>3, <2>4, <2>5 DEF Prefix
  <2>7. Installable(b.entries, r)
    <3>1. CASE r.kind = "TransactionPage"
      <4>1. r.by \in DOMAIN b.entries /\ b.entries[r.by].commit # 0
        BY <2>2, <3>1, UnresolvedReplayed
      <4> QED
        BY <3>1, <4>1 DEF Installable, Committed
    <3> QED
      BY <2>1, <3>1 DEF Installable, Shown
  <2>8. image # NoImage /\ image.at = c /\ image.at \in Nat \ {0}
    <3>1. /\ image # NoImage => image.at \in Nat \ {0} /\ image.at <= c
          /\ image # NoImage /\ r.at <= image.at
      BY <2>1, <2>6, <2>7, RequiredThen
    <3> QED
      BY <2>1, <2>4, <3>1
  <2>9. /\ Prefix(log, b.frontier) = P
        /\ PageStates(b.entries, P, {}, store) = b.pages
    BY DEF BaselineHolds, PagesMatch
  <2>10. p \in DOMAIN b.pages /\ b.pages[p] = PageState(image, store[p])
    <3>1. p \in Inventory(P, {})
      <4>1. p # 0
        BY PagesAssumption
      <4> QED
        BY <2>1, <2>6, <4>1 DEF Inventory, PagesIn
    <3> QED
      BY <2>9, <3>1 DEF PageStates
  <2> HIDE DEF image, c, P
  <2>11. /\ b.pages[p].required = image
         /\ b.pages[p].state = IF store[p] = 0 THEN "StoreMissing"
                               ELSE IF store[p] = image.at THEN "StoreCurrent" ELSE "StoreBehind"
    BY <2>8, <2>10 DEF PageState
  <2>12. ~Lagging(b.pages[p])
    BY <2>1, <2>3, <2>5, <2>8, <2>10, <2>11
  <2>13. store[p] = image.at
    BY <2>11, <2>12 DEF Lagging
  <2> QED
    BY <2>8, <2>13 DEF c
<1> QED
  BY <1>1, <1>2

\* The repairs that are prepared lead to the last committed images.
LEMMA PreparedRepairs ==
    ASSUME TypeInv, HistoryInv, NEW b, BaselineTrue(b), Covers(b),
           NEW entries, Knows(entries), NEW plan, plan = Plan(entries, log, highWater, b),
           Preparable(plan, b, store), NEW p \in PagesIn(plan.window)
    PROVE  /\ p \in Pages
           /\ LET repair == Repairs(plan, b, store)[p] IN
              IF repair.kind = "Candidate"
              THEN repair.target = CommittedAt(p) /\ CommittedAt(p) # 0
              ELSE repair.from = CommittedAt(p)
<1> DEFINE W == Window(log, b.replay)
           c == CommittedAt(p)
           target == RequiredImage(entries, W, p)
           now == store[p]
           repair == Repairs(plan, b, store)[p]
<1>1. plan.window = W /\ plan.entries = entries
  BY DEF Plan
<1>2. W \in SUBSET log /\ W \subseteq Records
  BY HistoryWithin DEF Window, Within
<1>3. p \in Pages
  <2>1. PICK r \in W : r.page = p /\ r.page # 0
    BY <1>1 DEF PagesIn
  <2> QED
    BY <1>2, <2>1, RecordFacts
<1>4. Target(plan, p) = target
  BY <1>1 DEF Target
<1>5. repair = Resolution(plan, b, p, now) /\ Resolvable(plan, b, p, now)
  BY DEF Repairs, Preparable
<1>6. now \in Nat /\ c \in Nat
  BY <1>3, CommittedAtFacts DEF TypeInv
<1>7. /\ target # NoImage => target.at \in Nat \ {0} /\ target.at <= c
      /\ target # NoImage => \E r \in W : r.at = target.at
      /\ c # 0 /\ c \in PositionsIn(W) => target # NoImage /\ target.at = c
  BY <1>2, RequiredNow
<1>8. now = c \/ c \in PositionsIn(W)
  BY <1>3 DEF Covers
<1>9. c \in PositionsIn(W) => c # 0
  <2>1. \A r \in W : r.at # 0
    BY <1>2, RecordFacts
  <2> QED
    BY <2>1 DEF PositionsIn
<1>10. /\ repair.from = now /\ repair.target = target.at
       /\ repair.kind = IF UnchangedSinceCheckpoint(plan, b, p) THEN "CheckpointCurrent"
                        ELSE IF target = NoImage THEN "NoRequiredImage"
                        ELSE IF now = target.at THEN "AlreadyCurrent" ELSE "Candidate"
  BY <1>4, <1>5 DEF Resolution
<1> HIDE DEF repair, target, c, now, W
<1>11. ASSUME c \in PositionsIn(W)
      PROVE  IF repair.kind = "Candidate" THEN repair.target = c /\ c # 0 ELSE repair.from = c
  <2>1. target # NoImage /\ target.at = c /\ c # 0
    BY <1>7, <1>9, <1>11
  <2>2. CASE UnchangedSinceCheckpoint(plan, b, p)
    <3> DEFINE image == RequiredImage(b.entries, Prefix(history, b.frontier), p)
    <3>1. /\ p \in DOMAIN b.pages /\ b.pages[p].state = "StoreCurrent"
          /\ c <= b.pages[p].required.at
      BY <1>4, <2>1, <2>2 DEF UnchangedSinceCheckpoint
    <3>2. b.pages[p] = PageState(image, b.pages[p].stored)
      BY <3>1 DEF BaselineTrue
    <3>3. image # NoImage => image.at \in Nat \ {0} /\ image.at <= c
      BY RequiredThen DEF c
    <3> HIDE DEF image
    <3>4. /\ b.pages[p].required = image /\ image # NoImage
          /\ b.pages[p].stored = image.at /\ b.pages[p].stored # 0
      BY <3>1, <3>2 DEF PageState
    <3>5. image.at = c
      BY <1>6, <3>1, <3>3, <3>4
    <3>6. now = b.pages[p].stored
      BY <1>5, <3>1, <3>4 DEF Resolvable, SourceAsExpected, SourceExpectation, now
    <3> QED
      BY <1>10, <2>2, <3>4, <3>5, <3>6
  <2>3. CASE ~UnchangedSinceCheckpoint(plan, b, p)
    BY <1>10, <2>1, <2>3
  <2> QED
    BY <2>2, <2>3
<1>12. ASSUME now = c, c \notin PositionsIn(W)
      PROVE  IF repair.kind = "Candidate" THEN repair.target = c /\ c # 0 ELSE repair.from = c
  <2>1. repair.kind # "Candidate"
    <3> SUFFICES ASSUME ~UnchangedSinceCheckpoint(plan, b, p), target # NoImage, now # target.at
                 PROVE  FALSE
      BY <1>10
    <3>1. now <= target.at
      BY <1>4, <1>5 DEF Resolvable
    <3>2. target.at = c
      BY <1>6, <1>7, <1>12, <3>1
    <3> QED
      BY <1>12, <3>2
  <2> QED
    BY <1>10, <1>12, <2>1
<1>13. IF repair.kind = "Candidate" THEN repair.target = c /\ c # 0 ELSE repair.from = c
  BY <1>8, <1>11, <1>12
<1> QED
  BY <1>3, <1>13 DEF repair, c

----------------------------------------------------------------------------
(* Steps that leave the records as they are.                                *)
LEMMA RecordsKept ==
    ASSUME IInv, UNCHANGED <<log, highWater, generation, anchor, history>>,
           epoch' \in Nat, epoch <= epoch'
    PROVE  /\ HistoryInv' /\ LogInv'
           /\ \A b : BaselineTrue(b)' <=> BaselineTrue(b)
           /\ \A p : CommittedAt(p)' = CommittedAt(p)
           /\ \A t : DurablyCommitted(t)' <=> DurablyCommitted(t)
           /\ \A r : Shown(r)' <=> Shown(r)
<1>1. HistoryInv'
  <2>1. \A r \in history : r.by[1] \in Nat
    <3>1. \A r \in history : r.by[1] \in Nat
      BY HistoryWithin, RecordFacts, OwnerFacts DEF Within, IInv
    <3> QED
      BY <3>1
  <2>2. \A r \in history : r.by[1] <= epoch'
    BY <2>1 DEF IInv, HistoryInv, TypeInv
  <2> QED
    BY <2>2 DEF IInv, HistoryInv
<1>2. LogInv'
  BY DEF IInv, LogInv, Ever
<1>3. \A b : BaselineTrue(b)' <=> BaselineTrue(b)
  BY DEF BaselineTrue
<1>4. \A t : DurablyCommitted(t)' <=> DurablyCommitted(t)
  BY DEF DurablyCommitted
<1>5. \A r : Shown(r)' <=> Shown(r)
  BY <1>4 DEF Shown
<1>6. \A p : CommittedAt(p)' = CommittedAt(p)
  BY DEF CommittedAt, Shown, DurablyCommitted
<1> QED
  BY <1>1, <1>2, <1>3, <1>4, <1>5, <1>6

LEMMA StoreKept ==
    ASSUME IInv, UNCHANGED <<log, highWater, generation, anchor, history, store>>,
           epoch' \in Nat, epoch <= epoch'
    PROVE  /\ StoreShowsCommitted' /\ AnchorInv'
           /\ \A b : Covers(b)' <=> Covers(b)
<1>1. StoreShowsCommitted'
  BY DEF IInv, StoreShowsCommitted, Shown, DurablyCommitted
<1>2. \A b : Covers(b)' <=> Covers(b)
  BY RecordsKept DEF Covers
<1>3. AnchorInv'
  BY <1>2, RecordsKept DEF IInv, AnchorInv
<1> QED
  BY <1>1, <1>2, <1>3

\* A transition of the typestate that keeps records and coordinator.
LEMMA KeptStep ==
    ASSUME IInv,
           UNCHANGED <<log, highWater, generation, anchor, epoch, history, coordinator>>,
           phase' \in {"Restored"} \cup Live => phase \in {"Restored"} \cup Live,
           phase' = "Restored" => phase = "Restored",
           IsEvidence(held'), store' \in [Pages -> Nat]
    PROVE  /\ TypeInv' /\ HistoryInv' /\ LogInv' /\ LifecycleInv'
           /\ epoch' \in Nat /\ epoch <= epoch'
           /\ \A b : BaselineTrue(b)' <=> BaselineTrue(b)
<1>1. epoch' \in Nat /\ epoch <= epoch'
  BY DEF IInv, TypeInv
<1>2. HistoryInv' /\ LogInv' /\ \A b : BaselineTrue(b)' <=> BaselineTrue(b)
  BY <1>1, RecordsKept
<1>3. TypeInv'
  BY DEF IInv, TypeInv
<1>4. LifecycleInv'
  <2>1. LifecycleFollowsHistory'
    BY <1>1, RecordsKept DEF IInv, LifecycleInv, LifecycleFollowsHistory
  <2>2. \A t \in DOMAIN coordinator'.lifecycles :
            coordinator'.lifecycles[t] \in {"Active", "PageAppendIndeterminate"} =>
                ~DurablyCommitted(t)'
    BY <1>1, RecordsKept DEF IInv, LifecycleInv
  <2> QED
    BY <2>1, <2>2 DEF IInv, LifecycleInv, Dirtied
<1> QED
  BY <1>1, <1>2, <1>3, <1>4

\* One that keeps the storage too.
LEMMA IdleStep ==
    ASSUME IInv,
           UNCHANGED <<log, highWater, generation, anchor, epoch, history, store, slot, coordinator>>,
           IsEvidence(held'),
           phase' \in {"Restored"} \cup Live => phase \in {"Restored"} \cup Live,
           phase' = "Restored" => phase = "Restored",
           HeldInv'
    PROVE  IInv'
<1>1. store' \in [Pages -> Nat]
  BY DEF IInv, TypeInv
<1>2. /\ TypeInv' /\ HistoryInv' /\ LogInv' /\ LifecycleInv'
      /\ epoch' \in Nat /\ epoch <= epoch'
      /\ \A b : BaselineTrue(b)' <=> BaselineTrue(b)
  BY <1>1, KeptStep
<1>3. StoreShowsCommitted' /\ AnchorInv'
  BY <1>2, StoreKept
<1>4. SlotInv'
  BY <1>2 DEF IInv, SlotInv
<1> QED
  BY <1>2, <1>3, <1>4 DEF IInv

\* Typestates that hold nothing that a later step relies on.
Resting == {"Unchecked", "Unreadable", "Absent", "Rejected", "Recovered", "Stopped",
            "PlanningFailed", "PreparationFailed", "Closed", "CleanReopened", "CleanRefused"}

LEMMA RestingHolds ==
    ASSUME phase' \in Resting
    PROVE  HeldInv' /\ phase' \notin {"Restored"} \cup Live
  BY DEF Resting, HeldInv, RecoveryHeld, BaselineHeld, PlanHeld, RepairsHeld, LiveHeld,
         WithBaseline, Restarting, Live

LEMMA RestingStep ==
    ASSUME IInv,
           UNCHANGED <<log, highWater, generation, anchor, epoch, history, store, slot, coordinator>>,
           IsEvidence(held'), phase' \in Resting
    PROVE  IInv'
  BY RestingHolds, IdleStep

\* Evidence is a record, whatever field of it is assigned.
LEMMA EvidenceUpdates ==
    ASSUME NEW h, IsEvidence(h), NEW x, NEW g
    PROVE  /\ g = [h EXCEPT !.baseline = x] =>
                /\ IsEvidence(g) /\ g.baseline = x
                /\ g.plan = h.plan /\ g.repairs = h.repairs /\ g.todo = h.todo /\ g.retention = h.retention
           /\ g = [h EXCEPT !.plan = x] =>
                /\ IsEvidence(g) /\ g.plan = x
                /\ g.baseline = h.baseline /\ g.repairs = h.repairs /\ g.todo = h.todo /\ g.retention = h.retention
           /\ g = [h EXCEPT !.repairs = x] =>
                /\ IsEvidence(g) /\ g.repairs = x
                /\ g.baseline = h.baseline /\ g.plan = h.plan /\ g.todo = h.todo /\ g.retention = h.retention
           /\ g = [h EXCEPT !.todo = x] =>
                /\ IsEvidence(g) /\ g.todo = x
                /\ g.baseline = h.baseline /\ g.plan = h.plan /\ g.repairs = h.repairs /\ g.retention = h.retention
           /\ g = [h EXCEPT !.retention = x] =>
                /\ IsEvidence(g) /\ g.retention = x
                /\ g.baseline = h.baseline /\ g.plan = h.plan /\ g.repairs = h.repairs /\ g.todo = h.todo
  BY DEF IsEvidence

LEMMA SelectPreserves ==
    ASSUME IInv, Select
    PROVE  IInv'
<1>1. UNCHANGED <<log, highWater, generation, anchor, epoch, history, store, slot, coordinator>>
  BY DEF Select, Idle, logVars, slotVars
<1>2. IsEvidence(held)
  BY DEF IInv, TypeInv
<1>3. CASE held' = held /\ phase' \in Resting
  BY <1>1, <1>2, <1>3, RestingStep
<1>4. ASSUME NEW b \in slot, phase' = "Selected", held' = [held EXCEPT !.baseline = {b}],
             generation # 0 => AnchoredSelectable(b)
      PROVE  IInv'
  <2>1. IsEvidence(held') /\ held'.baseline = {b}
    BY <1>2, <1>4, EvidenceUpdates
  <2>2. generation # 0 => anchor = {b}
    BY <1>4 DEF AnchoredSelectable, Anchored, Metadata
  <2>3. BaselineTrue(b)'
    <3>1. epoch' \in Nat /\ epoch <= epoch'
      BY <1>1 DEF IInv, TypeInv
    <3> QED
      BY <1>1, <3>1, RecordsKept DEF IInv, SlotInv
  <2>4. BaselineHeld'
    <3>1. held'.baseline = {TheBaseline'}
      BY <2>1 DEF TheBaseline
    <3> QED
      BY <1>1, <2>1, <2>2, <2>3, <3>1 DEF BaselineHeld
  <2>5. HeldInv'
    BY <1>4, <2>4 DEF HeldInv, RecoveryHeld, PlanHeld, RepairsHeld, LiveHeld, Restarting, Live
  <2> QED
    BY <1>1, <1>4, <2>1, <2>5, IdleStep DEF Live
<1> QED
  BY <1>3, <1>4 DEF Select, To, Hold, Resting

----------------------------------------------------------------------------
(* What a typestate holds is carried to the next one.                       *)
LEMMA SingletonChosen ==
    ASSUME NEW x, NEW S, S = {x}
    PROVE  (CHOOSE y \in S : TRUE) = x
  OBVIOUS

LEMMA BaselineCarried ==
    ASSUME IInv, phase \in WithBaseline,
           UNCHANGED <<log, highWater, generation, anchor, history>>, epoch' \in Nat, epoch <= epoch',
           held'.baseline = held.baseline
    PROVE  BaselineHeld'
<1>1. held.baseline = {TheBaseline}
  BY DEF IInv, HeldInv, BaselineHeld
<1>2. held'.baseline = {TheBaseline'}
  BY <1>1 DEF TheBaseline
<1>3. \A b \in held.baseline : BaselineTrue(b) /\ (generation # 0 => anchor = {b})
  BY DEF IInv, HeldInv, BaselineHeld
<1>4. \A b \in held.baseline : BaselineTrue(b)'
  BY <1>3, RecordsKept
<1> QED
  BY <1>2, <1>3, <1>4 DEF BaselineHeld

LEMMA PlanCarried ==
    ASSUME IInv, phase \in Restarting,
           UNCHANGED <<log, highWater, generation, anchor, history, store>>,
           epoch' \in Nat, epoch <= epoch',
           held'.baseline = held.baseline, held'.plan = held.plan
    PROVE  PlanHeld'
<1>1. /\ held.plan = {ThePlan}
      /\ \A b \in held.baseline :
           Covers(b) /\ held.plan = {Plan(EntriesNow(b), log, highWater, b)}
  BY DEF IInv, HeldInv, PlanHeld
<1>2. held'.plan = {ThePlan'}
  BY <1>1 DEF ThePlan
<1>3. \A b \in held.baseline : Covers(b)'
  BY <1>1, StoreKept
<1>4. \A b : EntriesNow(b)' = EntriesNow(b)
  BY DEF EntriesNow
<1> QED
  BY <1>1, <1>2, <1>3, <1>4 DEF PlanHeld

LEMMA RepairsCarried ==
    ASSUME IInv, phase \in Restarting \ {"Planned"},
           UNCHANGED <<log, highWater, generation, anchor, history>>, epoch' \in Nat, epoch <= epoch',
           held'.plan = held.plan, held'.repairs = held.repairs
    PROVE  RepairsFound'
<1>1. \A p : CommittedAt(p)' = CommittedAt(p)
  BY RecordsKept
<1>2. RepairsFound
  BY DEF IInv, HeldInv, RepairsHeld
<1> QED
  BY <1>1, <1>2 DEF RepairsFound

LEMMA LiveCarried ==
    ASSUME IInv, phase \in Live, held'.baseline = held.baseline, held'.plan = held.plan,
           coordinator' = coordinator, highWater' = highWater
    PROVE  LiveHeld'
<1>1. held.plan = {ThePlan}
  BY DEF IInv, HeldInv, LiveHeld
<1>2. held'.plan = {ThePlan'}
  BY <1>1 DEF ThePlan
<1> QED
  BY <1>2 DEF IInv, HeldInv, LiveHeld

\* The one baseline that a typestate holds.
LEMMA HeldBaseline ==
    ASSUME IInv, phase \in WithBaseline
    PROVE  /\ held.baseline = {TheBaseline} /\ BaselineTrue(TheBaseline)
           /\ generation # 0 => anchor = {TheBaseline}
           /\ Knows(EntriesNow(TheBaseline))
<1>1. /\ held.baseline = {TheBaseline}
      /\ \A b \in held.baseline : BaselineTrue(b) /\ (generation # 0 => anchor = {b})
  BY DEF IInv, HeldInv, BaselineHeld
<1> DEFINE b == TheBaseline
<1>2. BaselineTrue(b) /\ (generation # 0 => anchor = {b})
  BY <1>1
<1> HIDE DEF b
<1>3. Knows(EntriesNow(b))
  BY <1>2, NowKnows DEF IInv
<1> QED
  BY <1>1, <1>2, <1>3 DEF b

\* The one plan that a restart holds.
LEMMA HeldPlan ==
    ASSUME IInv, phase \in Restarting
    PROVE  /\ held.plan = {ThePlan} /\ Covers(TheBaseline)
           /\ ThePlan = Plan(EntriesNow(TheBaseline), log, highWater, TheBaseline)
<1>1. phase \in WithBaseline
  BY DEF WithBaseline
<1>2. TheBaseline \in held.baseline
  BY <1>1, HeldBaseline
<1>3. /\ held.plan = {ThePlan}
      /\ \A b \in held.baseline :
           Covers(b) /\ held.plan = {Plan(EntriesNow(b), log, highWater, b)}
  BY DEF IInv, HeldInv, PlanHeld
<1> QED
  BY <1>2, <1>3

----------------------------------------------------------------------------
(* The transitions of the typestate, one by one.                            *)
LEMMA EpochTyped ==
    ASSUME IInv, epoch' = epoch
    PROVE  epoch' \in Nat /\ epoch <= epoch' /\ IsEvidence(held)
  BY DEF IInv, TypeInv

LEMMA RestingTransitions ==
    ASSUME IInv, AnalyzeRestart \/ SelectAgain \/ PrepareCleanClose \/ ValidateCleanReopen
    PROVE  IInv'
<1>1. UNCHANGED <<log, highWater, generation, anchor, epoch, history, store, slot, coordinator>>
  BY DEF AnalyzeRestart, SelectAgain, PrepareCleanClose, ValidateCleanReopen, Idle, logVars,
         slotVars
<1>2. phase' \in Resting
  BY DEF AnalyzeRestart, SelectAgain, PrepareCleanClose, ValidateCleanReopen, To, Resting
<1>3. IsEvidence(held')
  <2>1. held' \in {held, NoEvidence}
    BY DEF AnalyzeRestart, SelectAgain, PrepareCleanClose, ValidateCleanReopen, Idle
  <2> QED
    BY <1>1, <2>1, EpochTyped DEF NoEvidence, IsEvidence
<1> QED
  BY <1>1, <1>2, <1>3, RestingStep

LEMMA ContinuePreserves ==
    ASSUME IInv, ContinueWithFullRecovery
    PROVE  IInv'
<1> DEFINE pages == {r.page : r \in {x \in log : x.kind = "TransactionPage"}}
<1>1. UNCHANGED <<log, highWater, generation, anchor, epoch, history, store, slot, coordinator>>
  BY DEF ContinueWithFullRecovery, Idle, logVars, slotVars
<1>2. /\ phase' = "FullRecovery" /\ generation = 0
      /\ held' = [NoEvidence EXCEPT !.todo = pages]
  BY DEF ContinueWithFullRecovery, To
<1>3. pages \subseteq PagesIn(log)
  <2>1. \A r \in log : r.kind = "TransactionPage" => r.page \in Nat \ {0}
    BY HistoryWithin, RecordFacts, PagesAssumption DEF Within, IInv
  <2> QED
    BY <2>1 DEF PagesIn
<1> HIDE DEF pages
<1>4. IsEvidence(held') /\ held'.todo = pages
  <2>1. IsEvidence(NoEvidence)
    BY DEF NoEvidence, IsEvidence
  <2> QED
    BY <1>2, <2>1, EvidenceUpdates
<1>5. HeldInv'
  <2>1. RecoveryHeld'
    BY <1>1, <1>2, <1>3, <1>4 DEF RecoveryHeld
  <2> QED
    BY <1>2, <2>1 DEF HeldInv, BaselineHeld, PlanHeld, RepairsHeld, LiveHeld, WithBaseline,
                      Restarting, Live
<1> QED
  BY <1>1, <1>2, <1>4, <1>5, IdleStep DEF Live

LEMMA PlanReplayPreserves ==
    ASSUME IInv, PlanReplay
    PROVE  IInv'
<1>0. PICK b : b = TheBaseline
  OBVIOUS
<1> DEFINE plan == Plan(EntriesNow(b), log, highWater, b)
<1>1. /\ UNCHANGED <<log, highWater, generation, anchor, epoch, history, store, slot, coordinator>>
      /\ phase = "Selected"
  BY DEF PlanReplay, Idle, logVars, slotVars
<1>2. epoch' \in Nat /\ epoch <= epoch' /\ IsEvidence(held)
  BY <1>1, EpochTyped
<1>3. CASE phase' = "PlanningFailed" /\ held' = held
  BY <1>1, <1>2, <1>3, RestingStep DEF Resting
<1>4. ASSUME phase' = "Planned", held' = [held EXCEPT !.plan = {plan}],
             generation = 0 => SelectedPlannable(log, highWater, store, b)
      PROVE  IInv'
  <2>1. /\ held.baseline = {b} /\ BaselineTrue(b)
        /\ generation # 0 => anchor = {b}
    BY <1>0, <1>1, HeldBaseline DEF WithBaseline
  <2> HIDE DEF plan
  <2>2. IsEvidence(held') /\ held'.plan = {plan} /\ held'.baseline = held.baseline
    BY <1>2, <1>4, EvidenceUpdates
  <2>3. Covers(b)
    <3>1. CASE generation = 0
      <4>1. log = history /\ BaselineHolds(log, highWater, store, b)
        BY <1>4, <3>1 DEF IInv, LogInv, SelectedPlannable
      <4> QED
        BY <2>1, <4>1, DerivedCovers DEF IInv
    <3>2. CASE generation # 0
      BY <2>1, <3>2 DEF IInv, AnchorInv
    <3> QED
      BY <3>1, <3>2
  <2>4. Covers(b)'
    BY <1>1, <1>2, <2>3, StoreKept
  <2>5. EntriesNow(b)' = EntriesNow(b)
    BY <1>1 DEF EntriesNow
  <2>6. plan = Plan(EntriesNow(b), log, highWater, b)
    BY DEF plan
  <2>7. PlanHeld'
    <3>1. held'.plan = {ThePlan'}
      BY <2>2 DEF ThePlan
    <3>2. \A x \in held'.baseline : x = b
      BY <2>1, <2>2
    <3> QED
      BY <1>1, <2>2, <2>4, <2>5, <2>6, <3>1, <3>2 DEF PlanHeld
  <2>8. BaselineHeld'
    BY <1>1, <1>2, <2>2, BaselineCarried DEF WithBaseline
  <2>9. HeldInv'
    BY <1>4, <2>7, <2>8 DEF HeldInv, RecoveryHeld, RepairsHeld, LiveHeld, Live
  <2> QED
    BY <1>1, <1>4, <2>2, <2>9, IdleStep DEF Live
<1>5. \/ phase' = "PlanningFailed" /\ held' = held
      \/ /\ phase' = "Planned" /\ held' = [held EXCEPT !.plan = {plan}]
         /\ generation = 0 => SelectedPlannable(log, highWater, store, b)
  BY <1>0 DEF PlanReplay, To
<1> QED
  BY <1>3, <1>4, <1>5

LEMMA PrepareRepairsPreserves ==
    ASSUME IInv, PrepareRepairs
    PROVE  IInv'
<1> DEFINE b == TheBaseline
           plan == ThePlan
           repairs == Repairs(plan, b, store)
<1>1. /\ UNCHANGED <<log, highWater, generation, anchor, epoch, history, store, slot, coordinator>>
      /\ phase = "Planned"
  BY DEF PrepareRepairs, Idle, logVars, slotVars
<1>2. epoch' \in Nat /\ epoch <= epoch' /\ IsEvidence(held)
  BY <1>1, EpochTyped
<1>3. CASE phase' = "PreparationFailed" /\ held' = held
  BY <1>1, <1>2, <1>3, RestingStep DEF Resting
<1>4. ASSUME phase' = "Prepared", held' = [held EXCEPT !.repairs = repairs],
             Preparable(plan, b, store)
      PROVE  IInv'
  <2>1. phase \in WithBaseline /\ phase \in Restarting
    BY <1>1 DEF WithBaseline, Restarting
  <2>2. BaselineTrue(b) /\ Covers(b) /\ Knows(EntriesNow(b))
    BY <2>1, HeldBaseline, HeldPlan
  <2>3. held.plan = {plan} /\ plan = Plan(EntriesNow(b), log, highWater, b)
    BY <2>1, HeldPlan
  <2>4. DOMAIN repairs = PagesIn(plan.window)
    BY DEF Repairs
  <2> HIDE DEF b, plan
  <2>5. \A p \in DOMAIN repairs :
            IF repairs[p].kind = "Candidate"
            THEN repairs[p].target = CommittedAt(p) /\ CommittedAt(p) # 0
            ELSE repairs[p].from = CommittedAt(p)
    BY <1>4, <2>2, <2>3, <2>4, PreparedRepairs DEF IInv
  <2> HIDE DEF repairs
  <2>6. /\ IsEvidence(held') /\ held'.repairs = repairs
        /\ held'.plan = held.plan /\ held'.baseline = held.baseline
    BY <1>2, <1>4, EvidenceUpdates
  <2>7. RepairsFound'
    <3>1. \A p : CommittedAt(p)' = CommittedAt(p)
      BY <1>1, <1>2, RecordsKept
    <3> QED
      BY <2>3, <2>4, <2>5, <2>6, <3>1 DEF RepairsFound
  <2>8. BaselineHeld' /\ PlanHeld'
    BY <1>1, <1>2, <2>1, <2>6, BaselineCarried, PlanCarried
  <2>9. HeldInv'
    BY <1>4, <2>7, <2>8 DEF HeldInv, RecoveryHeld, RepairsHeld, LiveHeld, Live
  <2> QED
    BY <1>1, <1>4, <2>6, <2>9, IdleStep DEF Live
<1>5. \/ phase' = "PreparationFailed" /\ held' = held
      \/ /\ phase' = "Prepared" /\ held' = [held EXCEPT !.repairs = repairs]
         /\ Preparable(plan, b, store)
  BY DEF PrepareRepairs, To
<1> QED
  BY <1>3, <1>4, <1>5

LEMMA ExecuteRepairsPreserves ==
    ASSUME IInv, ExecuteRepairs
    PROVE  IInv'
<1>1. /\ UNCHANGED <<log, highWater, generation, anchor, epoch, history, store, slot, coordinator>>
      /\ phase \in {"Prepared", "RepairFailed"} /\ phase' = "Repairing"
      /\ held' = [held EXCEPT !.todo = DOMAIN held.repairs]
  BY DEF ExecuteRepairs, Idle, To, logVars, slotVars
<1>2. epoch' \in Nat /\ epoch <= epoch' /\ IsEvidence(held)
  BY <1>1, EpochTyped
<1>3. /\ phase \in WithBaseline /\ phase \in Restarting
      /\ phase \in Restarting \ {"Planned"}
  BY <1>1 DEF WithBaseline, Restarting
<1> DEFINE pages == DOMAIN held.repairs
<1> HIDE DEF pages
<1>4. /\ IsEvidence(held') /\ held'.todo = pages /\ held'.repairs = held.repairs
      /\ held'.plan = held.plan /\ held'.baseline = held.baseline
  BY <1>1, <1>2, EvidenceUpdates DEF pages
<1>5. RepairsHeld'
  <2>1. RepairsFound'
    BY <1>1, <1>2, <1>3, <1>4, RepairsCarried
  <2>2. RepairsDone(DOMAIN held.repairs \ held.todo)'
    BY <1>4 DEF RepairsDone, pages
  <2> QED
    BY <1>1, <1>4, <2>1, <2>2 DEF RepairsHeld, pages
<1>6. BaselineHeld' /\ PlanHeld'
  BY <1>1, <1>2, <1>3, <1>4, BaselineCarried, PlanCarried
<1>7. HeldInv'
  BY <1>1, <1>5, <1>6 DEF HeldInv, RecoveryHeld, LiveHeld, Live
<1> QED
  BY <1>1, <1>4, <1>7, IdleStep DEF Live

\* Once every repair is done, every page shows its last committed image: the
\* image of a page that is not repaired precedes the window, and is covered.
LEMMA RepairsComplete ==
    ASSUME IInv, phase = "Repairing", held.todo = {}
    PROVE  RepairsDone(Pages)
<1>1. phase \in Restarting /\ phase \in Restarting \ {"Planned"}
  BY DEF Restarting
<1> DEFINE b == TheBaseline
           W == Window(log, b.replay)
<1>2. Covers(b) /\ held.plan = {ThePlan} /\ ThePlan = Plan(EntriesNow(b), log, highWater, b)
  BY <1>1, HeldPlan
<1>3. ThePlan.window = W
  BY <1>2 DEF Plan
<1>4. DOMAIN held.repairs = PagesIn(W)
  BY <1>1, <1>2, <1>3 DEF IInv, HeldInv, RepairsHeld, RepairsFound
<1>5. \A p \in DOMAIN held.repairs : store[p] = CommittedAt(p)
  BY DEF IInv, HeldInv, RepairsHeld, RepairsDone
<1> SUFFICES ASSUME NEW p \in Pages, p \notin PagesIn(W)
             PROVE  store[p] = CommittedAt(p)
  BY <1>4, <1>5 DEF RepairsDone
<1>6. W \subseteq history /\ W \subseteq Records
  BY HistoryWithin DEF Window, Within, IInv, TypeInv
<1>7. CommittedAt(p) \notin PositionsIn(W)
  <2> SUFFICES ASSUME NEW r \in W, r.at = CommittedAt(p)
               PROVE  FALSE
    BY DEF PositionsIn
  <2> HIDE DEF W
  <2>1. r.at # 0 /\ r \in history
    BY <1>6, RecordFacts
  <2>2. r.page = p
    BY <2>1, RecordOfCommitted DEF IInv
  <2>3. p # 0
    BY PagesAssumption
  <2> QED
    BY <2>2, <2>3 DEF PagesIn
<1> QED
  BY <1>2, <1>7 DEF Covers

LEMMA FinishRepairsPreserves ==
    ASSUME IInv, FinishRepairs
    PROVE  IInv'
<1>1. /\ UNCHANGED <<log, highWater, generation, anchor, epoch, history, store, slot, coordinator>>
      /\ phase = "Repairing" /\ held.todo = {} /\ phase' = "Repaired" /\ held' = held
  BY DEF FinishRepairs, Idle, To, logVars, slotVars
<1>2. epoch' \in Nat /\ epoch <= epoch' /\ IsEvidence(held)
  BY <1>1, EpochTyped
<1>3. /\ phase \in WithBaseline /\ phase \in Restarting
      /\ phase \in Restarting \ {"Planned"}
  BY <1>1 DEF WithBaseline, Restarting
<1>4. RepairsHeld'
  <2>1. RepairsFound'
    BY <1>1, <1>2, <1>3, RepairsCarried
  <2>2. RepairsDone(Pages)'
    BY <1>1, <1>2, RepairsComplete, RecordsKept DEF RepairsDone
  <2> QED
    BY <1>1, <2>1, <2>2 DEF RepairsHeld
<1>5. BaselineHeld' /\ PlanHeld'
  BY <1>1, <1>2, <1>3, BaselineCarried, PlanCarried
<1>6. HeldInv'
  BY <1>1, <1>4, <1>5 DEF HeldInv, RecoveryHeld, LiveHeld, Live
<1> QED
  BY <1>1, <1>2, <1>6, IdleStep DEF Live

LEMMA CompletePreserves ==
    ASSUME IInv, CompleteRestart
    PROVE  IInv'
<1>1. /\ UNCHANGED <<log, highWater, generation, anchor, epoch, history, store, slot, coordinator>>
      /\ phase = "Restored" /\ held' = held /\ phase' \in {"Completed", "Stopped"}
  BY DEF CompleteRestart, Idle, To, logVars, slotVars
<1>2. epoch' \in Nat /\ epoch <= epoch' /\ IsEvidence(held)
  BY <1>1, EpochTyped
<1>3. CASE phase' = "Stopped"
  BY <1>1, <1>2, <1>3, RestingStep DEF Resting
<1>4. CASE phase' = "Completed"
  <2>1. phase \in WithBaseline /\ phase \in Restarting
    BY <1>1 DEF WithBaseline, Restarting
  <2>2. BaselineHeld'
    BY <1>1, <1>2, <2>1, BaselineCarried
  <2>3. LiveHeld'
    <3>1. /\ held.plan = {ThePlan} /\ held.baseline = {TheBaseline}
          /\ ThePlan.frontier = highWater /\ TheBaseline.frontier <= highWater
      BY <2>1, HeldPlan, HeldBaseline DEF Plan, BaselineTrue, IInv, TypeInv
    <3>2. highWater \in Nat /\ coordinator.dirty = {}
      BY <1>1 DEF IInv, TypeInv, LifecycleInv
    <3>3. held'.plan = {ThePlan'}
      BY <1>1, <3>1 DEF ThePlan
    <3> QED
      BY <1>1, <3>1, <3>2, <3>3 DEF LiveHeld
  <2>4. HeldInv'
    BY <1>4, <2>2, <2>3 DEF HeldInv, RecoveryHeld, PlanHeld, RepairsHeld, Restarting
  <2> QED
    BY <1>1, <1>2, <1>4, <2>4, IdleStep
<1> QED
  BY <1>1, <1>3, <1>4

LEMMA AnalyzeRetentionPreserves ==
    ASSUME IInv, AnalyzeRetention
    PROVE  IInv'
<1>1. /\ UNCHANGED <<log, highWater, generation, anchor, epoch, history, store, slot, coordinator>>
      /\ phase = "Completed"
      /\ \/ phase' = "Stopped" /\ held' = held
         \/ phase' = "Analyzed" /\ held' = [held EXCEPT !.retention = {RetentionNow}]
  BY DEF AnalyzeRetention, Idle, To, logVars, slotVars
<1>2. epoch' \in Nat /\ epoch <= epoch' /\ IsEvidence(held)
  BY <1>1, EpochTyped
<1>3. CASE phase' = "Stopped" /\ held' = held
  BY <1>1, <1>2, <1>3, RestingStep DEF Resting
<1>4. CASE phase' = "Analyzed" /\ held' = [held EXCEPT !.retention = {RetentionNow}]
  <2>1. phase \in WithBaseline /\ phase \in Live
    BY <1>1 DEF WithBaseline, Live
  <2>2. IsEvidence(held') /\ held'.plan = held.plan /\ held'.baseline = held.baseline
    BY <1>2, <1>4, EvidenceUpdates
  <2>3. BaselineHeld' /\ LiveHeld'
    BY <1>1, <1>2, <2>1, <2>2, BaselineCarried, LiveCarried
  <2>4. HeldInv'
    BY <1>4, <2>3 DEF HeldInv, RecoveryHeld, PlanHeld, RepairsHeld, Restarting
  <2> QED
    BY <1>1, <1>4, <2>1, <2>2, <2>4, IdleStep
<1> QED
  BY <1>1, <1>3, <1>4

----------------------------------------------------------------------------
(* The coordinator.                                                         *)
LEMMA CoordinatorUpdates ==
    ASSUME NEW h, IsCoordinator(h), NEW x, NEW g
    PROVE  /\ g = [h EXCEPT !.lifecycles = x] =>
                /\ IsCoordinator(g) /\ g.lifecycles = x
                /\ g.epoch = h.epoch /\ g.next = h.next /\ g.staged = h.staged /\ g.dirty = h.dirty
           /\ g = [h EXCEPT !.dirty = x] =>
                /\ IsCoordinator(g) /\ g.dirty = x
                /\ g.epoch = h.epoch /\ g.next = h.next /\ g.lifecycles = h.lifecycles
           /\ g = [h EXCEPT !.staged = x] =>
                /\ IsCoordinator(g) /\ g.staged = x
                /\ g.epoch = h.epoch /\ g.next = h.next /\ g.lifecycles = h.lifecycles
                /\ g.dirty = h.dirty
  BY DEF IsCoordinator

LEMMA FreshCoordinator ==
    ASSUME NEW e, NEW c, c = NewCoordinator(e)
    PROVE  /\ IsCoordinator(c) /\ c.epoch = e /\ c.next = 1
           /\ c.lifecycles = <<>> /\ DOMAIN c.lifecycles = {} /\ c.dirty = {}
           /\ c.lifecycles \in [DOMAIN c.lifecycles -> Statuses]
<1>1. /\ IsCoordinator(c) /\ c.epoch = e /\ c.next = 1
      /\ c.lifecycles = <<>> /\ c.dirty = {}
  BY DEF NewCoordinator, IsCoordinator
<1>2. DOMAIN <<>> = {} /\ <<>> \in [{} -> Statuses]
  OBVIOUS
<1> QED
  BY <1>1, <1>2

LEMMA CrashPreserves ==
    ASSUME IInv, Crash
    PROVE  IInv'
<1>1. /\ UNCHANGED <<log, highWater, generation, anchor, epoch, history, store, slot>>
      /\ phase' = "Unchecked" /\ held' = NoEvidence /\ coordinator' = NewCoordinator(0)
  BY DEF Crash, Idle, To, logVars, slotVars, NoCoordinator
<1>2. epoch' \in Nat /\ epoch <= epoch' /\ IsEvidence(held')
  BY <1>1, EpochTyped DEF NoEvidence, IsEvidence
<1>3. /\ HistoryInv' /\ LogInv' /\ StoreShowsCommitted' /\ AnchorInv' /\ SlotInv'
  BY <1>1, <1>2, RecordsKept, StoreKept DEF IInv, SlotInv
<1>4. HeldInv' /\ phase' \notin {"Restored"} \cup Live
  BY <1>1, RestingHolds DEF Resting
<1>5. /\ IsCoordinator(coordinator') /\ coordinator'.epoch = 0 /\ coordinator'.next = 1
      /\ coordinator'.lifecycles = <<>> /\ DOMAIN coordinator'.lifecycles = {}
      /\ coordinator'.dirty = {}
      /\ coordinator'.lifecycles \in [DOMAIN coordinator'.lifecycles -> Statuses]
  BY <1>1, FreshCoordinator
<1>6. TypeInv'
  BY <1>1, <1>2, <1>5 DEF IInv, TypeInv
<1>7. LifecycleInv'
  BY <1>1, <1>4, <1>5 DEF LifecycleInv, LifecycleFollowsHistory
<1> QED
  BY <1>3, <1>4, <1>6, <1>7 DEF IInv

\* A step of live work keeps the selected checkpoint and the plan, and makes
\* no page dirty that the plan had seen.
LEMMA LiveStepHolds ==
    ASSUME IInv, phase \in Live, phase' = phase, held' = held,
           highWater \in Nat, highWater' \in Nat, highWater <= highWater', BaselineHeld',
           coordinator'.epoch = coordinator.epoch,
           \A r \in history' : r.by[1] = coordinator.epoch =>
               r \in log' /\ r.by \in DOMAIN coordinator'.lifecycles,
           \A t \in DOMAIN coordinator'.lifecycles :
               coordinator'.lifecycles[t] \in {"Active", "PageAppendIndeterminate"} =>
                   ~DurablyCommitted(t)',
           LifecycleFollowsHistory',
           \A r \in coordinator'.dirty :
               r \in Dirtied' /\ (r \in coordinator.dirty \/ r.at = highWater + 1)
    PROVE  LifecycleInv' /\ HeldInv'
<1>1. phase # "Restored" /\ coordinator.epoch # 0 /\ phase \notin Restarting
  BY DEF IInv, LifecycleInv, Live, Restarting
<1>2. LifecycleInv'
  BY <1>1 DEF LifecycleInv
<1>3. LiveHeld'
  <2>1. held.plan = {ThePlan} /\ held'.plan = {ThePlan'}
    BY DEF IInv, HeldInv, LiveHeld, ThePlan
  <2>2. \A b \in held.baseline, plan \in held.plan :
          /\ plan.frontier \in 0 .. highWater /\ b.frontier <= plan.frontier
          /\ \A r \in coordinator.dirty : r.at > plan.frontier
    BY DEF IInv, HeldInv, LiveHeld
  <2>3. \A b \in held.baseline, plan \in held.plan :
          /\ plan.frontier \in 0 .. highWater' /\ b.frontier <= plan.frontier
          /\ \A r \in coordinator'.dirty : r.at > plan.frontier
    BY <2>2
  <2> QED
    BY <2>1, <2>3 DEF LiveHeld
<1>4. HeldInv'
  BY <1>1, <1>3 DEF HeldInv, RecoveryHeld, PlanHeld, RepairsHeld, Restarting, Live
<1> QED
  BY <1>2, <1>4

\* A transaction that begins was never heard of.
LEMMA BeginPreserves ==
    ASSUME IInv, BeginTransaction
    PROVE  IInv'
<1> DEFINE L == coordinator.lifecycles
           t == <<coordinator.epoch, coordinator.next>>
           G == [x \in DOMAIN L \cup {t} |-> IF x = t THEN "Active" ELSE L[x]]
           next == coordinator.next + 1
<1>1. /\ UNCHANGED <<log, highWater, generation, anchor, epoch, history, store, slot, held, phase>>
      /\ phase \in Live
      /\ coordinator' = [coordinator EXCEPT !.next = next, !.lifecycles = G]
  BY DEF BeginTransaction, Idle, logVars, slotVars
<1>2. epoch' \in Nat /\ epoch <= epoch' /\ IsEvidence(held')
  BY <1>1, EpochTyped
<1>3. /\ HistoryInv' /\ LogInv' /\ StoreShowsCommitted' /\ AnchorInv' /\ SlotInv'
  BY <1>1, <1>2, RecordsKept, StoreKept DEF IInv, SlotInv
<1>4. /\ IsCoordinator(coordinator) /\ coordinator.next \in Nat \ {0}
      /\ coordinator.epoch \in 0 .. epoch /\ coordinator.epoch # 0
      /\ DOMAIN L \subseteq {coordinator.epoch} \X (1 .. coordinator.next - 1)
      /\ L \in [DOMAIN L -> Statuses]
  BY <1>1 DEF IInv, TypeInv, LifecycleInv
<1>5. DOMAIN G = DOMAIN L \cup {t} /\ G[t] = "Active" /\ \A x \in DOMAIN L : x # t => G[x] = L[x]
  OBVIOUS
<1>6. t \notin DOMAIN L
  BY <1>4
<1>7. DOMAIN G \subseteq {coordinator.epoch} \X (1 .. coordinator.next)
  <2>1. t \in {coordinator.epoch} \X (1 .. coordinator.next)
    BY <1>4
  <2>2. DOMAIN L \subseteq {coordinator.epoch} \X (1 .. coordinator.next)
    BY <1>4
  <2> QED
    BY <1>5, <2>1, <2>2
<1>8. G \in [DOMAIN G -> Statuses]
  BY <1>4 DEF Statuses
<1>9. t[1] = coordinator.epoch
  OBVIOUS
<1> HIDE DEF G, t, next
<1>10. /\ IsCoordinator(coordinator') /\ coordinator'.lifecycles = G
       /\ coordinator'.epoch = coordinator.epoch /\ coordinator'.next = next
       /\ coordinator'.dirty = coordinator.dirty
  BY <1>1, <1>4 DEF IsCoordinator
<1>15. next = coordinator.next + 1 /\ next \in Nat \ {0} /\ next - 1 = coordinator.next
  BY <1>4 DEF next
<1>11. TypeInv'
  BY <1>15, <1>1, <1>2, <1>4, <1>7, <1>8, <1>10 DEF IInv, TypeInv
<1>12. ~DurablyCommitted(t)
  BY <1>4, <1>6, <1>9 DEF IInv, LifecycleInv, DurablyCommitted
<1>13. LifecycleInv' /\ HeldInv'
  <2>1. \A r \in history : r.by[1] = coordinator.epoch => r \in log /\ r.by \in DOMAIN G
    BY <1>4, <1>5 DEF IInv, LifecycleInv
  <2>2. \A x \in DOMAIN G : G[x] \in {"Active", "PageAppendIndeterminate"} => ~DurablyCommitted(x)
    BY <1>5, <1>12 DEF IInv, LifecycleInv
  <2>3. \A x \in DOMAIN G : /\ G[x] = "Committed" => DurablyCommitted(x)
                            /\ G[x] = "NoDurableCommitRecord" => ~DurablyCommitted(x)
    BY <1>5 DEF IInv, LifecycleInv, LifecycleFollowsHistory
  <2>4. \A x : DurablyCommitted(x)' <=> DurablyCommitted(x)
    BY <1>1, <1>2, RecordsKept
  <2>5. LifecycleFollowsHistory'
    BY <1>10, <2>3, <2>4 DEF LifecycleFollowsHistory
  <2>6. BaselineHeld'
    BY <1>1, <1>2, BaselineCarried DEF WithBaseline
  <2>7. highWater \in Nat /\ coordinator.dirty \subseteq Dirtied'
    BY <1>1, <1>5, <1>10 DEF IInv, TypeInv, LifecycleInv, Dirtied
  <2> QED
    BY <1>1, <1>10, <2>1, <2>2, <2>4, <2>5, <2>6, <2>7, LiveStepHolds
<1> QED
  BY <1>3, <1>11, <1>13 DEF IInv

LEMMA ResolvePreserves ==
    ASSUME IInv, NEW t \in DOMAIN coordinator.lifecycles, Resolve(t)
    PROVE  IInv'
<1> DEFINE L == coordinator.lifecycles
           status == IF Commits(log, t) = {} THEN "NoDurableCommitRecord" ELSE "Committed"
           G == [L EXCEPT ![t] = status]
<1>1. /\ UNCHANGED <<log, highWater, generation, anchor, epoch, history, store, slot, held, phase>>
      /\ phase \in Live /\ coordinator' = [coordinator EXCEPT !.lifecycles = G]
  BY DEF Resolve, Moved, Idle, logVars, slotVars
<1>2. epoch' \in Nat /\ epoch <= epoch' /\ IsEvidence(held')
  BY <1>1, EpochTyped
<1>3. /\ HistoryInv' /\ LogInv' /\ StoreShowsCommitted' /\ AnchorInv' /\ SlotInv'
  BY <1>1, <1>2, RecordsKept, StoreKept DEF IInv, SlotInv
<1>4. /\ IsCoordinator(coordinator) /\ coordinator.next \in Nat \ {0}
      /\ coordinator.epoch \in 0 .. epoch /\ coordinator.epoch # 0
      /\ DOMAIN L \subseteq {coordinator.epoch} \X (1 .. coordinator.next - 1)
      /\ L \in [DOMAIN L -> Statuses]
  BY <1>1 DEF IInv, TypeInv, LifecycleInv
<1>5. /\ DOMAIN G = DOMAIN L /\ G[t] = status /\ \A x \in DOMAIN L : x # t => G[x] = L[x]
      /\ G \in [DOMAIN G -> Statuses]
  BY <1>4 DEF Statuses
<1>6. DurablyCommitted(t) <=> Commits(log, t) # {}
  <2>1. t[1] = coordinator.epoch
    BY <1>4
  <2>2. \A c \in history : c.kind = "Commit" /\ c.by = t => c \in log
    BY <1>4, <2>1 DEF IInv, LifecycleInv
  <2>3. log \subseteq history
    BY DEF IInv, TypeInv
  <2> QED
    BY <2>2, <2>3 DEF DurablyCommitted, Commits
<1>7. \/ status = "Committed" /\ DurablyCommitted(t)
      \/ status = "NoDurableCommitRecord" /\ ~DurablyCommitted(t)
  BY <1>6
<1> HIDE DEF G, status
<1>8. /\ IsCoordinator(coordinator') /\ coordinator'.lifecycles = G
      /\ coordinator'.epoch = coordinator.epoch /\ coordinator'.next = coordinator.next
      /\ coordinator'.dirty = coordinator.dirty
  BY <1>1, <1>4, CoordinatorUpdates
<1>9. TypeInv'
  BY <1>1, <1>2, <1>4, <1>5, <1>8 DEF IInv, TypeInv
<1>10. LifecycleInv' /\ HeldInv'
  <2>1. \A r \in history : r.by[1] = coordinator.epoch => r \in log /\ r.by \in DOMAIN G
    BY <1>4, <1>5 DEF IInv, LifecycleInv
  <2>2. \A x \in DOMAIN G : G[x] \in {"Active", "PageAppendIndeterminate"} => ~DurablyCommitted(x)
    BY <1>5, <1>7 DEF IInv, LifecycleInv
  <2>3. \A x \in DOMAIN G : /\ G[x] = "Committed" => DurablyCommitted(x)
                            /\ G[x] = "NoDurableCommitRecord" => ~DurablyCommitted(x)
    BY <1>5, <1>7 DEF IInv, LifecycleInv, LifecycleFollowsHistory
  <2>4. \A x : DurablyCommitted(x)' <=> DurablyCommitted(x)
    BY <1>1, <1>2, RecordsKept
  <2>5. LifecycleFollowsHistory'
    BY <1>8, <2>3, <2>4 DEF LifecycleFollowsHistory
  <2>6. BaselineHeld'
    BY <1>1, <1>2, BaselineCarried DEF WithBaseline
  <2>7. highWater \in Nat /\ coordinator.dirty \subseteq Dirtied'
    BY <1>1, <1>5, <1>8 DEF IInv, TypeInv, LifecycleInv, Dirtied
  <2> QED
    BY <1>1, <1>8, <2>1, <2>2, <2>4, <2>5, <2>6, <2>7, LiveStepHolds
<1> QED
  BY <1>3, <1>9, <1>10 DEF IInv

----------------------------------------------------------------------------
(* Appends.                                                                 *)

\* The transactions without a commit, in any set of records.
LEMMA UnresolvedFacts ==
    ASSUME NEW S, NEW n, Within(S, n), NEW t
    PROVE  t \in Unresolved(Transactions(S)) <=>
               /\ \E r \in S : r.by = t /\ r.kind # "Page"
               /\ ~\E c \in S : c.kind = "Commit" /\ c.by = t
<1>1. /\ DOMAIN Transactions(S) = OwnersIn(S)
      /\ t \in OwnersIn(S) => Transactions(S)[t] = Entry(S, t)
      /\ t \in OwnersIn(S) <=> \E r \in S : r.by = t /\ r.kind # "Page"
  BY TableFacts
<1>2. Entry(S, t).commit = 0 <=> ~\E c \in S : c.kind = "Commit" /\ c.by = t
  BY EntryFacts
<1> QED
  BY <1>1, <1>2 DEF Unresolved

\* The last image among some records.
LEMMA LastImage ==
    ASSUME NEW H, NEW n, Within(H, n), NEW S, S \subseteq H, NEW c,
           c = Latest({r.at : r \in S})
    PROVE  /\ c \in Nat
           /\ \A r \in S : r.at <= c
           /\ c # 0 => \E r \in S : r.at = c
<1>1. Within(S, n)
  BY WithinParts
<1>2. c = Latest(PositionsIn(S))
  BY DEF PositionsIn
<1>3. \A r \in S : r.at \in Nat
  BY <1>1, RecordFacts DEF Within
<1>4. /\ S = {} => Latest(PositionsIn(S)) = 0
      /\ S # {} => \E r \in S : r.at = Latest(PositionsIn(S))
      /\ \A r \in S : r.at <= Latest(PositionsIn(S))
  BY <1>1, LastOf, Zenon
<1>5. /\ S = {} => c = 0
      /\ S # {} => \E r \in S : r.at = c
      /\ \A r \in S : r.at <= c
  BY <1>2, <1>4, Zenon
<1>6. c \in Nat
  BY <1>3, <1>5
<1> QED
  BY <1>5, <1>6

\* A record that live work may append: the next position, of a transaction
\* that has no commit.
Appendable(r) ==
    /\ r \in Records /\ r.at = highWater + 1 /\ r.by[1] <= epoch
    /\ r.kind # "Page" => ~DurablyCommitted(r.by)

\* What an append changes of what the history says.
LEMMA AppendedFacts ==
    ASSUME IInv, NEW r, Appendable(r), Append(r)
    PROVE  /\ Within(history', highWater') /\ Within(history, highWater)
           /\ \A x \in history : x.at < r.at
           /\ \A t : DurablyCommitted(t)' <=> DurablyCommitted(t) \/ (r.kind = "Commit" /\ r.by = t)
           /\ \A x : Shown(x) => Shown(x)'
           /\ \A b : BaselineTrue(b) => BaselineTrue(b)'
<1>1. /\ Within(history, highWater) /\ r \in Records /\ r.at = highWater + 1
      /\ history' = history \cup {r} /\ highWater' = r.at /\ highWater \in Nat
  BY HistoryWithin DEF IInv, Append, Appendable, TypeInv
<1>2. \A x \in history : x.at \in Nat /\ x.at < r.at
  BY <1>1, RecordFacts DEF Within
<1>3. Within(history', highWater')
  BY <1>1, <1>2 DEF Within
<1>4. \A t : DurablyCommitted(t)' <=> DurablyCommitted(t) \/ (r.kind = "Commit" /\ r.by = t)
  BY <1>1 DEF DurablyCommitted
<1>5. \A x : Shown(x) => Shown(x)'
  BY <1>4 DEF Shown
<1>6. ASSUME NEW b, BaselineTrue(b)
      PROVE  BaselineTrue(b)'
  <2>1. b.frontier \in 0 .. highWater /\ b.frontier \in 0 .. highWater'
    BY <1>1, <1>6 DEF BaselineTrue
  <2>2. Prefix(history', b.frontier) = Prefix(history, b.frontier)
    BY <1>1, <2>1 DEF Prefix
  <2> QED
    BY <1>6, <2>1, <2>2 DEF BaselineTrue
<1> QED
  BY <1>1, <1>2, <1>3, <1>4, <1>5, <1>6

\* The last committed image of a page after an append: the one of before, or
\* an image that the append itself committed.
LEMMA AppendedImage ==
    ASSUME IInv, NEW r, Appendable(r), Append(r), NEW p, CommittedAt(p)' # CommittedAt(p)
    PROVE  /\ CommittedAt(p)' \in Nat \ {0}
           /\ \E x \in history' : /\ x.at = CommittedAt(p)' /\ x.page = p
                                  /\ x = r \/ (x \in history /\ x.kind = "TransactionPage"
                                               /\ ~DurablyCommitted(x.by))
<1> DEFINE S == {x \in history : x.page = p /\ Shown(x)}
           T == {x \in history' : x.page = p /\ Shown(x)'}
<1>1. /\ Within(history', highWater') /\ Within(history, highWater)
      /\ \A x : Shown(x) => Shown(x)'
      /\ history' = history \cup {r}
  BY AppendedFacts DEF Append
<1>2. CommittedAt(p) = Latest({x.at : x \in S}) /\ CommittedAt(p)' = Latest({x.at : x \in T})
  BY DEF CommittedAt
<1>3. S \subseteq T /\ S \subseteq history /\ T \subseteq history'
  BY <1>1
<1>4. \A x \in T : x.page = p /\ Shown(x)' /\ x \in history'
  OBVIOUS
<1>5. \A x \in history : x.page = p /\ Shown(x) => x \in S
  OBVIOUS
<1> HIDE DEF S, T
<1>6. /\ CommittedAt(p) \in Nat /\ \A x \in S : x.at <= CommittedAt(p)
      /\ CommittedAt(p) # 0 => \E x \in S : x.at = CommittedAt(p)
  BY <1>1, <1>2, <1>3, LastImage
<1>7. /\ CommittedAt(p)' \in Nat /\ \A x \in T : x.at <= CommittedAt(p)'
      /\ CommittedAt(p)' # 0 => \E x \in T : x.at = CommittedAt(p)'
  BY <1>1, <1>2, <1>3, LastImage
<1>8. CommittedAt(p) <= CommittedAt(p)'
  BY <1>3, <1>6, <1>7
<1>9. PICK x \in T : x.at = CommittedAt(p)'
  BY <1>6, <1>7, <1>8
<1>10. x \notin S
  BY <1>6, <1>7, <1>8, <1>9
<1>11. x = r \/ (x \in history /\ ~Shown(x))
  BY <1>1, <1>4, <1>5, <1>10
<1>12. ~Shown(x) => x.kind # "Page" /\ (x.kind = "TransactionPage" => ~DurablyCommitted(x.by))
  BY DEF Shown
<1>13. x.kind # "Commit"
  BY <1>4 DEF Shown
<1>14. x.kind \in {"Page", "TransactionPage", "Commit"}
  BY <1>1, <1>4, RecordFacts DEF Within
<1> QED
  BY <1>4, <1>6, <1>7, <1>8, <1>9, <1>11, <1>12, <1>13, <1>14

\* What an append keeps of the log, the store and the baselines.
LEMMA AppendHolds ==
    ASSUME IInv, NEW r, Appendable(r), Append(r), UNCHANGED <<store, slot>>
    PROVE  HistoryInv' /\ LogInv' /\ StoreShowsCommitted' /\ SlotInv' /\ AnchorInv'
<1>1. /\ Within(history', highWater') /\ Within(history, highWater)
      /\ \A x \in history : x.at < r.at
      /\ \A t : DurablyCommitted(t)' <=> DurablyCommitted(t) \/ (r.kind = "Commit" /\ r.by = t)
      /\ \A x : Shown(x) => Shown(x)'
      /\ \A b : BaselineTrue(b) => BaselineTrue(b)'
  BY AppendedFacts
<1>2. /\ history' = history \cup {r} /\ log' = log \cup {r} /\ highWater' = r.at
      /\ UNCHANGED <<generation, anchor, epoch>>
      /\ r \in Records /\ r.at = highWater + 1 /\ highWater \in Nat /\ r.by[1] <= epoch
      /\ r.kind # "Page" => ~DurablyCommitted(r.by)
      /\ log \subseteq history
  BY DEF Append, Appendable, IInv, TypeInv
<1>3. \A x \in history : x.at \in Nat
  BY <1>1, RecordFacts DEF Within
<1>4. HistoryInv'
  <2>1. \A x \in history' : x.at <= highWater' /\ x.by[1] <= epoch'
    BY <1>1, <1>2 DEF IInv, HistoryInv, Within
  <2>2. \A x, y \in history' : x.at = y.at => x = y
    BY <1>1, <1>2, <1>3 DEF IInv, HistoryInv
  <2>3. ASSUME NEW c \in history', NEW x \in history', c.kind = "Commit", x.by = c.by
        PROVE  x.at <= c.at
    <3>1. CASE c = r
      BY <1>1, <1>2, <1>3, <3>1
    <3>2. CASE c \in history
      <4>1. r.kind = "Page" => r.by = NoOwner
        BY <1>2, RecordFacts
      <4>2. c.by # NoOwner
        BY <1>1, <2>3, <3>2, RecordFacts, OwnerFacts DEF Within
      <4>3. DurablyCommitted(c.by)
        BY <2>3, <3>2 DEF DurablyCommitted
      <4>4. x # r
        BY <1>2, <2>3, <4>1, <4>2, <4>3
      <4> QED
        BY <1>2, <2>3, <3>2, <4>4 DEF IInv, HistoryInv
    <3> QED
      BY <1>2, <3>1, <3>2
  <2> QED
    BY <2>1, <2>2, <2>3 DEF HistoryInv
<1>5. LogInv'
  <2>1. \A x \in log', y \in history' : x.at <= y.at => y \in log'
    BY <1>1, <1>2, <1>3 DEF IInv, LogInv
  <2>2. ASSUME NEW x \in history', x.by \in Unresolved(Ever)'
        PROVE  x \in log'
    <3>1. /\ \E y \in history' : y.by = x.by /\ y.kind # "Page"
          /\ ~\E c \in history' : c.kind = "Commit" /\ c.by = x.by
      BY <1>1, <2>2, UnresolvedFacts DEF Ever
    <3>2. CASE x \in history
      <4>1. x.kind # "Page"
        <5>1. PICK y \in history' : y.by = x.by /\ y.kind # "Page"
          BY <3>1
        <5>2. x.by \in Owners
          BY <1>1, <5>1, RecordFacts DEF Within
        <5> QED
          BY <1>1, <3>2, <5>2, RecordFacts, OwnerFacts DEF Within
      <4>2. x.by \in Unresolved(Transactions(history))
        BY <1>1, <1>2, <3>1, <3>2, <4>1, UnresolvedFacts
      <4> QED
        BY <1>2, <3>2, <4>2 DEF Ever, IInv, LogInv
    <3> QED
      BY <1>2, <3>2
  <2>3. IF generation' = 0 THEN log' = history' /\ anchor' = {} ELSE anchor' # {}
    BY <1>2 DEF IInv, LogInv
  <2> QED
    BY <2>1, <2>2, <2>3 DEF LogInv
<1>6. StoreShowsCommitted'
  BY <1>1, <1>2 DEF IInv, StoreShowsCommitted
<1>7. SlotInv'
  BY <1>1 DEF IInv, SlotInv
<1>8. ASSUME NEW b \in anchor
      PROVE  /\ BaselineTrue(b)' /\ Covers(b)'
             /\ b.frontier # 0 => \A x \in history' : x.at >= b.frontier => x \in log'
  <2>1. /\ BaselineTrue(b) /\ Covers(b)
        /\ b.frontier # 0 => \A x \in history : x.at >= b.frontier => x \in log
    BY DEF IInv, AnchorInv
  <2>2. b.replay.at \in Nat /\ b.replay.at <= highWater /\ b.frontier \in Nat
    BY <1>2, <2>1, ReplayFacts DEF IInv
  <2>3. Window(log, b.replay) \subseteq Window(log', b.replay) /\ r \in Window(log', b.replay)
    BY <1>2, <2>2 DEF Window
  <2>4. ASSUME NEW p \in Pages
        PROVE  store[p] = CommittedAt(p)' \/ CommittedAt(p)' \in PositionsIn(Window(log', b.replay))
    <3>1. CASE CommittedAt(p)' = CommittedAt(p)
      BY <2>1, <2>3, <3>1 DEF Covers, PositionsIn
    <3>2. CASE CommittedAt(p)' # CommittedAt(p)
      <4>1. PICK x \in history' :
              /\ x.at = CommittedAt(p)'
              /\ x = r \/ (x \in history /\ x.kind = "TransactionPage" /\ ~DurablyCommitted(x.by))
        BY <3>2, AppendedImage
      <4>2. x \in Window(log', b.replay)
        <5>1. ASSUME x \in history, x.kind = "TransactionPage", ~DurablyCommitted(x.by)
              PROVE  x \in Window(log, b.replay)
          <6>1. x.by \in Unresolved(Ever)
            BY <1>1, <5>1, UnresolvedFacts DEF Ever, DurablyCommitted
          <6>2. x \in log
            BY <5>1, <6>1 DEF IInv, LogInv
          <6>3. x.by \notin DOMAIN b.entries \/ b.entries[x.by].commit = 0
            <7> DEFINE P == Prefix(history, b.frontier)
            <7>1. b.entries = Transactions(P) /\ Within(P, highWater) /\ P \subseteq history
              BY <1>1, <2>1, WithinParts DEF BaselineTrue, Prefix
            <7> HIDE DEF P
            <7>2. Entry(P, x.by).commit = 0
              BY <5>1, <7>1, EntryFacts DEF DurablyCommitted
            <7> QED
              BY <7>1, <7>2, TableFacts
          <6> QED
            BY <2>1, <5>1, <6>2, <6>3, UnresolvedReplayed DEF IInv
        <5> QED
          BY <2>3, <4>1, <5>1
      <4> QED
        BY <4>1, <4>2 DEF PositionsIn
    <3> QED
      BY <3>1, <3>2
  <2>5. b.frontier # 0 => \A x \in history' : x.at >= b.frontier => x \in log'
    BY <1>2, <2>1
  <2>6. Covers(b)'
    BY <1>2, <2>4 DEF Covers
  <2> QED
    BY <1>1, <2>1, <2>5, <2>6
<1>9. AnchorInv'
  BY <1>2, <1>8 DEF AnchorInv
<1> QED
  BY <1>4, <1>5, <1>6, <1>7, <1>9

\* The same, with what live work needs, for an append whose caller may not
\* learn whether it took effect.
LEMMA AppendStep ==
    ASSUME IInv, NEW r, Appendable(r), Append(r) \/ UNCHANGED <<logVars, history>>,
           phase \in Live, UNCHANGED <<store, slot, phase, held>>
    PROVE  /\ HistoryInv' /\ LogInv' /\ StoreShowsCommitted' /\ SlotInv' /\ AnchorInv'
           /\ BaselineHeld'
           /\ history' \subseteq Records /\ log' \subseteq history' /\ log \subseteq log'
           /\ UNCHANGED <<generation, epoch>> /\ IsEvidence(held')
           /\ highWater \in Nat /\ highWater' \in Nat /\ highWater <= highWater'
           /\ \A x \in history' : x \in history \/ (x = r /\ r \in log')
           /\ Append(r) => r \in log'
           /\ \A t : DurablyCommitted(t)' => DurablyCommitted(t) \/ (r.kind = "Commit" /\ r.by = t)
           /\ \A t : DurablyCommitted(t) => DurablyCommitted(t)'
           /\ Append(r) /\ r.kind = "Commit" => DurablyCommitted(r.by)'
<1>1. /\ history \subseteq Records /\ log \subseteq history /\ IsEvidence(held)
      /\ highWater \in Nat /\ generation \in Nat /\ epoch \in Nat
      /\ r \in Records /\ r.at = highWater + 1
  BY DEF IInv, TypeInv, Appendable
<1>2. CASE Append(r)
  <2>1. /\ log' = log \cup {r} /\ highWater' = r.at /\ history' = history \cup {r}
        /\ UNCHANGED <<generation, anchor, epoch>>
    BY <1>2 DEF Append
  <2>2. /\ \A t : DurablyCommitted(t)' <=> DurablyCommitted(t) \/ (r.kind = "Commit" /\ r.by = t)
        /\ \A b : BaselineTrue(b) => BaselineTrue(b)'
    BY <1>2, AppendedFacts
  <2>3. HistoryInv' /\ LogInv' /\ StoreShowsCommitted' /\ SlotInv' /\ AnchorInv'
    BY <1>2, AppendHolds
  <2>4. BaselineHeld'
    <3>1. /\ held.baseline = {TheBaseline}
          /\ \A b \in held.baseline : BaselineTrue(b) /\ (generation # 0 => anchor = {b})
      BY DEF IInv, HeldInv, BaselineHeld, WithBaseline
    <3>2. held'.baseline = {TheBaseline'}
      BY <3>1 DEF TheBaseline
    <3> QED
      BY <2>1, <2>2, <3>1, <3>2 DEF BaselineHeld
  <2> QED
    BY <1>1, <2>1, <2>2, <2>3, <2>4
<1>3. CASE UNCHANGED <<logVars, history>> /\ ~Append(r)
  <2>1. UNCHANGED <<log, highWater, generation, anchor, epoch, history>>
    BY <1>3 DEF logVars
  <2>2. epoch' \in Nat /\ epoch <= epoch'
    BY <2>1, EpochTyped
  <2>3. HistoryInv' /\ LogInv' /\ StoreShowsCommitted' /\ AnchorInv' /\ SlotInv'
    BY <2>1, <2>2, RecordsKept, StoreKept DEF IInv, SlotInv
  <2>4. BaselineHeld'
    BY <2>1, <2>2, BaselineCarried DEF WithBaseline
  <2>5. \A t : DurablyCommitted(t)' <=> DurablyCommitted(t)
    BY <2>1, <2>2, RecordsKept
  <2> QED
    BY <1>1, <1>3, <2>1, <2>3, <2>4, <2>5
<1> QED
  BY <1>2, <1>3

\* What a coordinator knows of a transaction that it may append for.
LEMMA ActiveFacts ==
    ASSUME IInv, phase \in Live, NEW t \in DOMAIN coordinator.lifecycles,
           coordinator.lifecycles[t] = "Active"
    PROVE  /\ t \in Owners /\ t[1] = coordinator.epoch /\ t[1] <= epoch
           /\ ~DurablyCommitted(t)
<1>1. /\ DOMAIN coordinator.lifecycles \subseteq {coordinator.epoch} \X (1 .. coordinator.next - 1)
      /\ coordinator.epoch \in 0 .. epoch /\ coordinator.epoch # 0
      /\ coordinator.next \in Nat \ {0} /\ epoch \in Nat
  BY DEF IInv, TypeInv, LifecycleInv
<1>2. ~DurablyCommitted(t)
  BY DEF IInv, LifecycleInv
<1> QED
  BY <1>1, <1>2 DEF Owners

LEMMA StagePreserves ==
    ASSUME IInv, NEW t \in DOMAIN coordinator.lifecycles, NEW p \in Pages, StagePageWrite(t, p)
    PROVE  IInv'
<1> DEFINE L == coordinator.lifecycles
           r == TransactionPageRecord(NextPosition, p, t)
           staged == coordinator.staged \cup {<<t, p>>}
           staging == [coordinator EXCEPT !.staged = staged]
           dirty == staging.dirty \cup {r}
           G == [staging.lifecycles EXCEPT ![t] = "PageAppendIndeterminate"]
<1>1. /\ UNCHANGED <<store, slot, phase, held>> /\ phase \in Live /\ L[t] = "Active"
      /\ \/ Append(r) /\ coordinator' = [staging EXCEPT !.dirty = dirty]
         \/ /\ Append(r) \/ UNCHANGED <<logVars, history>>
            /\ coordinator' = [staging EXCEPT !.lifecycles = G]
  BY DEF StagePageWrite, MayAppend, slotVars
<1>2. t \in Owners /\ t[1] = coordinator.epoch /\ t[1] <= epoch /\ ~DurablyCommitted(t)
  BY <1>1, ActiveFacts
<1>3. /\ IsCoordinator(coordinator) /\ coordinator.next \in Nat \ {0}
      /\ coordinator.epoch \in 0 .. epoch /\ coordinator.epoch # 0
      /\ DOMAIN L \subseteq {coordinator.epoch} \X (1 .. coordinator.next - 1)
      /\ L \in [DOMAIN L -> Statuses] /\ highWater \in Nat
      /\ coordinator.dirty \subseteq Dirtied
  BY <1>1 DEF IInv, TypeInv, LifecycleInv
<1>4. /\ r.kind = "TransactionPage" /\ r.by = t /\ r.at = highWater + 1
      /\ r \in Records
  BY <1>2, <1>3 DEF TransactionPageRecord, NextPosition, Records
<1> HIDE DEF staging, r, staged
<1>5. /\ IsCoordinator(staging)
      /\ staging.epoch = coordinator.epoch /\ staging.next = coordinator.next
      /\ staging.lifecycles = L /\ staging.dirty = coordinator.dirty
  BY <1>3, CoordinatorUpdates DEF staging
<1>6. /\ DOMAIN G = DOMAIN L /\ G[t] = "PageAppendIndeterminate"
      /\ \A x \in DOMAIN L : x # t => G[x] = L[x]
      /\ G \in [DOMAIN G -> Statuses]
  BY <1>3, <1>5 DEF Statuses
<1>7. dirty = coordinator.dirty \cup {r}
  BY <1>5
<1> HIDE DEF G, dirty
<1>8. /\ IsCoordinator(coordinator') /\ coordinator'.epoch = coordinator.epoch
      /\ coordinator'.next = coordinator.next
      /\ \/ Append(r) /\ coordinator'.lifecycles = L /\ coordinator'.dirty = dirty
         \/ /\ Append(r) \/ UNCHANGED <<logVars, history>>
            /\ coordinator'.lifecycles = G /\ coordinator'.dirty = coordinator.dirty
  BY <1>1, <1>5, CoordinatorUpdates
<1> DEFINE M == coordinator'.lifecycles
<1>9. /\ DOMAIN M = DOMAIN L /\ M \in [DOMAIN M -> Statuses]
      /\ \A x \in DOMAIN L : M[x] = L[x] \/ (x = t /\ M[x] = "PageAppendIndeterminate")
  BY <1>3, <1>6, <1>8
<1>10. Appendable(r) /\ (Append(r) \/ UNCHANGED <<logVars, history>>)
  BY <1>2, <1>4, <1>8 DEF Appendable
<1>11. /\ HistoryInv' /\ LogInv' /\ StoreShowsCommitted' /\ SlotInv' /\ AnchorInv'
       /\ BaselineHeld'
       /\ history' \subseteq Records /\ log' \subseteq history' /\ log \subseteq log'
       /\ UNCHANGED <<generation, epoch>> /\ IsEvidence(held')
       /\ highWater' \in Nat /\ highWater <= highWater'
       /\ \A x \in history' : x \in history \/ (x = r /\ r \in log')
       /\ Append(r) => r \in log'
       /\ \A x : DurablyCommitted(x)' => DurablyCommitted(x) \/ (r.kind = "Commit" /\ r.by = x)
       /\ \A x : DurablyCommitted(x) => DurablyCommitted(x)'
  BY <1>1, <1>10, AppendStep
<1>12. TypeInv'
  BY <1>1, <1>3, <1>8, <1>9, <1>11 DEF IInv, TypeInv
<1>13. LifecycleInv' /\ HeldInv'
  <2>1. \A x \in history' : x.by[1] = coordinator.epoch => x \in log' /\ x.by \in DOMAIN M
    BY <1>3, <1>4, <1>9, <1>11 DEF IInv, LifecycleInv
  <2>2. \A x : DurablyCommitted(x)' <=> DurablyCommitted(x)
    BY <1>4, <1>11
  <2>3. \A x \in DOMAIN M : M[x] \in {"Active", "PageAppendIndeterminate"} => ~DurablyCommitted(x)'
    BY <1>2, <1>9, <2>2 DEF IInv, LifecycleInv
  <2>4. LifecycleFollowsHistory'
    BY <1>9, <2>2 DEF IInv, LifecycleInv, LifecycleFollowsHistory
  <2>5. \A x \in coordinator'.dirty :
            x \in Dirtied' /\ (x \in coordinator.dirty \/ x.at = highWater + 1)
    BY <1>3, <1>4, <1>7, <1>8, <1>9, <1>11 DEF Dirtied
  <2> QED
    BY <1>1, <1>3, <1>8, <1>11, <2>1, <2>3, <2>4, <2>5, LiveStepHolds
<1> QED
  BY <1>11, <1>12, <1>13 DEF IInv

LEMMA CommitPreserves ==
    ASSUME IInv, NEW t \in DOMAIN coordinator.lifecycles, Commit(t)
    PROVE  IInv'
<1>0. PICK r : r = CommitRecord(NextPosition, t)
  OBVIOUS
<1> DEFINE L == coordinator.lifecycles
           known == [L EXCEPT ![t] = "Committed"]
           unknown == [L EXCEPT ![t] = "Indeterminate"]
<1>1. /\ UNCHANGED <<store, slot, phase, held>> /\ phase \in Live /\ L[t] = "Active"
      /\ \/ Append(r) /\ coordinator' = [coordinator EXCEPT !.lifecycles = known]
         \/ /\ Append(r) \/ UNCHANGED <<logVars, history>>
            /\ coordinator' = [coordinator EXCEPT !.lifecycles = unknown]
  BY <1>0 DEF Commit, MayAppend, Moved, slotVars
<1>2. t \in Owners /\ t[1] = coordinator.epoch /\ t[1] <= epoch /\ ~DurablyCommitted(t)
  BY <1>1, ActiveFacts
<1>3. /\ IsCoordinator(coordinator) /\ coordinator.next \in Nat \ {0}
      /\ coordinator.epoch \in 0 .. epoch /\ coordinator.epoch # 0
      /\ DOMAIN L \subseteq {coordinator.epoch} \X (1 .. coordinator.next - 1)
      /\ L \in [DOMAIN L -> Statuses] /\ highWater \in Nat
      /\ coordinator.dirty \subseteq Dirtied
  BY <1>1 DEF IInv, TypeInv, LifecycleInv
<1>4. /\ r.kind = "Commit" /\ r.by = t /\ r.at = highWater + 1
      /\ r \in Records
  BY <1>0, <1>2, <1>3 DEF CommitRecord, NextPosition, Records
<1>5. /\ DOMAIN known = DOMAIN L /\ known[t] = "Committed"
      /\ \A x \in DOMAIN L : x # t => known[x] = L[x]
      /\ known \in [DOMAIN L -> Statuses]
  BY <1>3 DEF Statuses
<1>6. /\ DOMAIN unknown = DOMAIN L /\ unknown[t] = "Indeterminate"
      /\ \A x \in DOMAIN L : x # t => unknown[x] = L[x]
      /\ unknown \in [DOMAIN L -> Statuses]
  BY <1>3 DEF Statuses
<1> HIDE DEF known, unknown
<1> DEFINE M == coordinator'.lifecycles
<1>7. /\ IsCoordinator(coordinator') /\ coordinator'.epoch = coordinator.epoch
      /\ coordinator'.next = coordinator.next /\ coordinator'.dirty = coordinator.dirty
      /\ \/ Append(r) /\ M = known
         \/ (Append(r) \/ UNCHANGED <<logVars, history>>) /\ M = unknown
  <2>1. ASSUME NEW x, coordinator' = [coordinator EXCEPT !.lifecycles = x]
        PROVE  /\ IsCoordinator(coordinator') /\ coordinator'.epoch = coordinator.epoch
               /\ coordinator'.next = coordinator.next /\ coordinator'.dirty = coordinator.dirty
               /\ M = x
    BY <1>3, <2>1, CoordinatorUpdates
  <2> QED
    BY <1>1, <2>1
<1> HIDE DEF M
<1>8. /\ DOMAIN M = DOMAIN L /\ M \in [DOMAIN M -> Statuses]
      /\ \A x \in DOMAIN L : x # t => M[x] = L[x]
      /\ (Append(r) /\ M[t] = "Committed") \/ M[t] = "Indeterminate"
  BY <1>5, <1>6, <1>7
<1>9. /\ Appendable(r) /\ (Append(r) \/ UNCHANGED <<logVars, history>>)
      /\ UNCHANGED <<store, slot, phase, held>> /\ phase \in Live
  BY <1>1, <1>2, <1>4, <1>7 DEF Appendable
<1>10. /\ HistoryInv' /\ LogInv' /\ StoreShowsCommitted' /\ SlotInv' /\ AnchorInv'
       /\ BaselineHeld'
       /\ history' \subseteq Records /\ log' \subseteq history' /\ log \subseteq log'
       /\ UNCHANGED <<generation, epoch>> /\ IsEvidence(held')
       /\ highWater' \in Nat /\ highWater <= highWater'
       /\ \A x \in history' : x \in history \/ (x = r /\ r \in log')
       /\ \A x : DurablyCommitted(x)' => DurablyCommitted(x) \/ (r.kind = "Commit" /\ r.by = x)
       /\ \A x : DurablyCommitted(x) => DurablyCommitted(x)'
       /\ Append(r) /\ r.kind = "Commit" => DurablyCommitted(r.by)'
  BY <1>9, AppendStep
<1>11. TypeInv'
  BY <1>1, <1>3, <1>7, <1>8, <1>10 DEF IInv, TypeInv, M
<1>12. LifecycleInv' /\ HeldInv'
  <2>1. \A x \in history' : x.by[1] = coordinator.epoch => x \in log' /\ x.by \in DOMAIN M
    BY <1>3, <1>4, <1>8, <1>10 DEF IInv, LifecycleInv
  <2>2. \A x \in DOMAIN M : x # t => (DurablyCommitted(x)' <=> DurablyCommitted(x))
    BY <1>4, <1>10
  <2>3. \A x \in DOMAIN M : M[x] \in {"Active", "PageAppendIndeterminate"} => ~DurablyCommitted(x)'
    BY <1>8, <2>2 DEF IInv, LifecycleInv
  <2>4. \A x \in DOMAIN M : /\ M[x] = "Committed" => DurablyCommitted(x)'
                            /\ M[x] = "NoDurableCommitRecord" => ~DurablyCommitted(x)'
    <3>1. M[t] \in {"Committed", "Indeterminate"} /\ (M[t] = "Committed" => DurablyCommitted(t)')
      BY <1>4, <1>8, <1>10
    <3>2. \A x \in DOMAIN L : /\ L[x] = "Committed" => DurablyCommitted(x)
                              /\ L[x] = "NoDurableCommitRecord" => ~DurablyCommitted(x)
      BY DEF IInv, LifecycleInv, LifecycleFollowsHistory
    <3> QED
      BY <1>8, <2>2, <3>1, <3>2
  <2>5. LifecycleFollowsHistory'
    BY <2>4 DEF LifecycleFollowsHistory, M
  <2>6. \A x \in coordinator'.dirty : x \in Dirtied' /\ x \in coordinator.dirty
    BY <1>3, <1>7, <1>8, <1>10 DEF Dirtied, M
  <2> QED
    BY <1>1, <1>3, <1>7, <1>10, <2>1, <2>3, <2>5, <2>6, LiveStepHolds DEF M
<1> QED
  BY <1>10, <1>11, <1>12 DEF IInv

LEMMA WriteRawPreserves ==
    ASSUME IInv, NEW p \in Pages, WriteRawPage(p)
    PROVE  IInv'
<1> DEFINE L == coordinator.lifecycles
           r == PageRecord(NextPosition, p)
           dirty == coordinator.dirty \cup {r}
<1>1. /\ UNCHANGED <<store, slot, phase, held>> /\ phase \in Live
      /\ Append(r) /\ coordinator' = [coordinator EXCEPT !.dirty = dirty]
  BY DEF WriteRawPage, slotVars
<1>2. /\ IsCoordinator(coordinator) /\ coordinator.next \in Nat \ {0}
      /\ coordinator.epoch \in 0 .. epoch /\ coordinator.epoch # 0
      /\ DOMAIN L \subseteq {coordinator.epoch} \X (1 .. coordinator.next - 1)
      /\ L \in [DOMAIN L -> Statuses] /\ highWater \in Nat
      /\ coordinator.dirty \subseteq Dirtied
  BY <1>1 DEF IInv, TypeInv, LifecycleInv
<1>3. /\ r.kind = "Page" /\ r.by = NoOwner /\ r.at = highWater + 1
      /\ r \in Records
  BY <1>2 DEF PageRecord, NextPosition, Records
<1> HIDE DEF r
<1>4. /\ IsCoordinator(coordinator') /\ coordinator'.epoch = coordinator.epoch
      /\ coordinator'.next = coordinator.next /\ coordinator'.lifecycles = L
      /\ coordinator'.dirty = dirty
  BY <1>1, <1>2, CoordinatorUpdates
<1>5. Appendable(r) /\ NoOwner[1] = 0
  <2>1. NoOwner[1] = 0
    BY OwnerFacts
  <2>2. 0 <= epoch
    BY DEF IInv, TypeInv
  <2> QED
    BY <1>2, <1>3, <2>1, <2>2 DEF Appendable
<1>6. /\ HistoryInv' /\ LogInv' /\ StoreShowsCommitted' /\ SlotInv' /\ AnchorInv'
      /\ BaselineHeld'
      /\ history' \subseteq Records /\ log' \subseteq history' /\ log \subseteq log'
      /\ UNCHANGED <<generation, epoch>> /\ IsEvidence(held')
      /\ highWater' \in Nat /\ highWater <= highWater'
      /\ \A x \in history' : x \in history \/ (x = r /\ r \in log')
      /\ r \in log'
      /\ \A x : DurablyCommitted(x)' <=> DurablyCommitted(x)
  BY <1>1, <1>3, <1>5, AppendStep
<1>7. TypeInv'
  BY <1>1, <1>2, <1>4, <1>6 DEF IInv, TypeInv
<1>8. LifecycleInv' /\ HeldInv'
  <2>1. \A x \in history' : x.by[1] = coordinator.epoch => x \in log' /\ x.by \in DOMAIN L
    BY <1>2, <1>3, <1>5, <1>6 DEF IInv, LifecycleInv
  <2>2. \A x \in DOMAIN L : L[x] \in {"Active", "PageAppendIndeterminate"} => ~DurablyCommitted(x)'
    BY <1>6 DEF IInv, LifecycleInv
  <2>3. LifecycleFollowsHistory'
    BY <1>4, <1>6 DEF IInv, LifecycleInv, LifecycleFollowsHistory
  <2>4. \A x \in dirty :
            x \in Dirtied' /\ (x \in coordinator.dirty \/ x.at = highWater + 1)
    BY <1>2, <1>3, <1>4, <1>6 DEF Dirtied
  <2> QED
    BY <1>1, <1>2, <1>4, <1>6, <2>1, <2>2, <2>3, <2>4, LiveStepHolds
<1> QED
  BY <1>6, <1>7, <1>8 DEF IInv

----------------------------------------------------------------------------
(* Pages of the store.                                                      *)

\* Writing an image that is shown.
LEMMA ImageWritten ==
    ASSUME IInv, UNCHANGED <<log, highWater, generation, anchor, history>>, epoch' = epoch,
           NEW r \in history, r.page \in Pages, Shown(r),
           store' = [store EXCEPT ![r.page] = r.at]
    PROVE  /\ store' \in [Pages -> Nat]
           /\ StoreShowsCommitted'
           /\ \A b : /\ Covers(b)
                     /\ r.at = CommittedAt(r.page) \/ r \in Window(log, b.replay)
                     /\ b.replay.at \in Nat
                     => Covers(b)'
<1>1. epoch' \in Nat /\ epoch <= epoch' /\ store \in [Pages -> Nat]
  BY DEF IInv, TypeInv
<1>2. /\ Within(history, highWater) /\ Within(log, highWater) /\ log \subseteq history
      /\ r.at \in Nat \ {0}
  BY HistoryWithin, RecordFacts DEF Within, IInv, TypeInv
<1>3. /\ \A p : CommittedAt(p)' = CommittedAt(p)
      /\ \A x : Shown(x)' <=> Shown(x)
  BY <1>1, RecordsKept
<1>4. /\ store' \in [Pages -> Nat] /\ store'[r.page] = r.at
      /\ \A p \in Pages : p # r.page => store'[p] = store[p]
  BY <1>1, <1>2
<1>5. StoreShowsCommitted'
  BY <1>3, <1>4 DEF IInv, StoreShowsCommitted
<1>6. ASSUME NEW b, Covers(b), r.at = CommittedAt(r.page) \/ r \in Window(log, b.replay),
             b.replay.at \in Nat
      PROVE  Covers(b)'
  <2>1. ASSUME r \in Window(log, b.replay)
        PROVE  CommittedAt(r.page) \in PositionsIn(Window(log, b.replay))
    <3>1. r.at <= CommittedAt(r.page) /\ CommittedAt(r.page) # 0
      BY CommittedAtFacts DEF IInv
    <3>2. PICK c \in history : c.at = CommittedAt(r.page)
      BY <3>1, CommittedAtFacts DEF IInv
    <3>3. r \in log
      BY <2>1 DEF Window
    <3>4. c \in log
      BY <3>1, <3>2, <3>3 DEF IInv, LogInv
    <3>5. c \in Window(log, b.replay)
      BY <1>2, <1>6, <2>1, <3>1, <3>2, <3>4, WindowIsEnd
    <3> QED
      BY <3>2, <3>5 DEF PositionsIn
  <2>2. \A p \in Pages : \/ store'[p] = CommittedAt(p)
                         \/ CommittedAt(p) \in PositionsIn(Window(log, b.replay))
    BY <1>4, <1>6, <2>1 DEF Covers
  <2> QED
    BY <1>3, <2>2 DEF Covers
<1> QED
  BY <1>4, <1>5, <1>6

LEMMA FlushPreserves ==
    ASSUME IInv, NEW r \in coordinator.dirty, FlushPage(r)
    PROVE  IInv'
<1> DEFINE L == coordinator.lifecycles
           dirty == coordinator.dirty \ {r}
           staged == coordinator.staged \ {<<r.by, r.page>>}
<1>1. /\ UNCHANGED <<log, highWater, generation, anchor, epoch, history, slot, held, phase>>
      /\ phase \in Live
      /\ r.kind = "TransactionPage" => L[r.by] = "Committed"
      /\ coordinator' = [coordinator EXCEPT !.dirty = dirty, !.staged = staged]
      /\ store' = [store EXCEPT ![r.page] = r.at]
  BY DEF FlushPage, Idle, logVars, slotVars
<1>2. epoch' \in Nat /\ epoch <= epoch' /\ IsEvidence(held')
  BY <1>1, EpochTyped
<1>3. /\ IsCoordinator(coordinator) /\ coordinator.epoch # 0
      /\ coordinator.dirty \subseteq Dirtied /\ highWater \in Nat
  BY <1>1 DEF IInv, TypeInv, LifecycleInv
<1> HIDE DEF dirty, staged
<1>4. /\ IsCoordinator(coordinator') /\ coordinator'.lifecycles = L
      /\ coordinator'.epoch = coordinator.epoch /\ coordinator'.next = coordinator.next
      /\ coordinator'.dirty = dirty
  BY <1>1, <1>3 DEF IsCoordinator
<1>5. r \in log /\ r \in history /\ r \in Records /\ Shown(r)
  <2>1. r \in Dirtied
    BY <1>3
  <2>2. r \in log /\ r \in history /\ r \in Records
    BY <2>1, HistoryWithin DEF Dirtied, Within, IInv, TypeInv
  <2>3. CASE r.kind = "Page"
    BY <2>2, <2>3 DEF Shown
  <2>4. CASE r.kind # "Page"
    <3>1. r.kind = "TransactionPage" /\ r.by \in DOMAIN L
      BY <2>1, <2>4 DEF Dirtied
    <3>2. DurablyCommitted(r.by)
      BY <1>1, <3>1 DEF IInv, LifecycleInv, LifecycleFollowsHistory
    <3> QED
      BY <2>2, <3>1, <3>2 DEF Shown
  <2> QED
    BY <2>3, <2>4
<1>6. r.page \in Pages
  BY <1>5, RecordFacts DEF Shown
<1>7. /\ store' \in [Pages -> Nat] /\ StoreShowsCommitted'
      /\ \A b : /\ Covers(b)
                /\ r.at = CommittedAt(r.page) \/ r \in Window(log, b.replay)
                /\ b.replay.at \in Nat
                => Covers(b)'
  BY <1>1, <1>5, <1>6, ImageWritten
<1>8. HistoryInv' /\ LogInv' /\ SlotInv'
  BY <1>1, <1>2, RecordsKept DEF IInv, SlotInv
<1>9. AnchorInv'
  <2>1. ASSUME NEW b \in anchor
        PROVE  Covers(b)'
    <3>1. BaselineTrue(b) /\ Covers(b)
      BY DEF IInv, AnchorInv
    <3>2. b.replay.at \in Nat /\ b.replay.at <= b.frontier /\ b.frontier \in Nat
      BY <3>1, ReplayFacts DEF IInv
    <3>3. r.at > b.frontier
      <4>1. generation # 0
        BY DEF IInv, LogInv
      <4>2. b \in held.baseline /\ held.plan = {ThePlan}
        BY <1>1, <4>1, HeldBaseline DEF IInv, HeldInv, LiveHeld, BaselineHeld, WithBaseline
      <4>3. ThePlan.frontier \in Nat /\ b.frontier <= ThePlan.frontier /\ r.at > ThePlan.frontier
        BY <1>1, <4>2 DEF IInv, HeldInv, LiveHeld
      <4> QED
        BY <1>5, <3>2, <4>3, RecordFacts
    <3>4. r \in Window(log, b.replay)
      BY <1>5, <3>2, <3>3, RecordFacts DEF Window
    <3> QED
      BY <1>7, <3>1, <3>2, <3>4
  <2> QED
    BY <1>1, <1>2, <2>1, RecordsKept DEF IInv, AnchorInv
<1>10. TypeInv'
  BY <1>1, <1>2, <1>4, <1>7 DEF IInv, TypeInv
<1>11. LifecycleInv' /\ HeldInv'
  <2>1. \A x \in history : x.by[1] = coordinator.epoch => x \in log /\ x.by \in DOMAIN L
    BY <1>3 DEF IInv, LifecycleInv
  <2>2. \A t : DurablyCommitted(t)' <=> DurablyCommitted(t)
    BY <1>1, <1>2, RecordsKept
  <2>3. \A t \in DOMAIN L : L[t] \in {"Active", "PageAppendIndeterminate"} => ~DurablyCommitted(t)'
    BY <2>2 DEF IInv, LifecycleInv
  <2>4. LifecycleFollowsHistory'
    BY <1>4, <2>2 DEF IInv, LifecycleInv, LifecycleFollowsHistory
  <2>5. \A x \in dirty : x \in Dirtied' /\ x \in coordinator.dirty
    BY <1>1, <1>3, <1>4 DEF Dirtied, dirty
  <2>6. BaselineHeld'
    BY <1>1, <1>2, BaselineCarried DEF WithBaseline
  <2> QED
    BY <1>1, <1>3, <1>4, <2>1, <2>3, <2>4, <2>5, <2>6, LiveStepHolds
<1> QED
  BY <1>7, <1>8, <1>9, <1>10, <1>11 DEF IInv

\* A transition that writes the store, outside of live work.
LEMMA StoreStep ==
    ASSUME IInv,
           UNCHANGED <<log, highWater, generation, anchor, epoch, history, slot, coordinator>>,
           IsEvidence(held'), phase' \notin {"Restored"} \cup Live,
           store' \in [Pages -> Nat], StoreShowsCommitted', AnchorInv', HeldInv'
    PROVE  IInv'
<1>1. /\ TypeInv' /\ HistoryInv' /\ LogInv' /\ LifecycleInv'
      /\ \A b : BaselineTrue(b)' <=> BaselineTrue(b)
  BY KeptStep
<1>2. SlotInv'
  BY <1>1 DEF IInv, SlotInv
<1> QED
  BY <1>1, <1>2 DEF IInv

LEMMA FirstPage ==
    ASSUME IInv, NEW todo, todo \subseteq PagesIn(log) \/ todo \subseteq Pages, todo # {}
    PROVE  Earliest(todo) \in todo /\ Earliest(todo) \in Pages
<1>1. todo \in SUBSET Pages
  <2>1. PagesIn(log) \subseteq Pages
    <3>1. \A r \in log : r.page = 0 \/ r.page \in Pages
      BY HistoryWithin, RecordFacts DEF Within, IInv
    <3> QED
      BY <3>1 DEF PagesIn
  <2> QED
    BY <2>1
<1>2. todo \in SUBSET Nat
  BY <1>1, PagesAssumption
<1>3. IsEarliest(Earliest(todo), todo)
  BY <1>2, EarliestIsFirst
<1> QED
  BY <1>1, <1>3 DEF IsEarliest

\* Complete recovery only writes images of committed transactions.
LEMMA RecoverPreserves ==
    ASSUME IInv, RecoverPage
    PROVE  IInv'
<1>0. PICK p : p = Earliest(held.todo)
  OBVIOUS
<1> DEFINE target == Latest(CommittedImages(p))
           shown == [store EXCEPT ![p] = IF target = 0 THEN @ ELSE target]
           pages == {r.page : r \in {x \in log : x.kind = "TransactionPage"}}
<1>1. /\ UNCHANGED <<log, highWater, generation, anchor, epoch, history, slot, coordinator>>
      /\ phase = "FullRecovery" /\ held.todo # {}
      /\ store' \in {store, shown}
      /\ \/ phase' = "Stopped" /\ held' = held
         \/ phase' = phase /\ held' = [held EXCEPT !.todo = @ \ {p}]
         \/ phase' = phase /\ held' = [held EXCEPT !.todo = pages]
  BY <1>0 DEF RecoverPage, Idle, To, logVars, slotVars
<1>2. /\ epoch' \in Nat /\ epoch <= epoch' /\ IsEvidence(held)
      /\ generation = 0 /\ held.todo \subseteq PagesIn(log)
  BY <1>1, EpochTyped DEF IInv, HeldInv, RecoveryHeld
<1>3. log = history /\ anchor = {}
  BY <1>2 DEF IInv, LogInv
<1>4. p \in held.todo /\ p \in Pages
  BY <1>0, <1>1, <1>2, FirstPage
<1>5. target # 0 => \E r \in history : r.at = target /\ r.page = p /\ Shown(r)
  <2> SUFFICES ASSUME target # 0 PROVE \E r \in history : r.at = target /\ r.page = p /\ Shown(r)
    OBVIOUS
  <2> DEFINE images == {x \in log : /\ x.kind = "TransactionPage" /\ x.page = p
                                    /\ Committed(Transactions(log), x.by)}
  <2>1. CommittedImages(p) = {r.at : r \in images}
    BY DEF CommittedImages
  <2>2. images \subseteq log /\ Within(log, highWater)
    BY HistoryWithin DEF IInv
  <2> HIDE DEF images
  <2>3. PICK r \in images : r.at = target
    BY <2>1, <2>2, LastImage
  <2>4. r \in log /\ r.page = p /\ Installable(Transactions(log), r)
    BY DEF images, Installable
  <2>5. Shown(r)
    BY <1>3, <2>4, TableKnows, ShownNow DEF IInv, TypeInv
  <2> QED
    BY <1>3, <2>3, <2>4, <2>5
<1> HIDE DEF target
<1>6. store' \in [Pages -> Nat] /\ StoreShowsCommitted'
  <2>1. CASE store' = store
    BY <1>1, <1>2, <2>1, StoreKept DEF IInv, TypeInv
  <2>2. CASE store' # store
    <3>1. target # 0 /\ store' = [store EXCEPT ![p] = target]
      <4>1. store \in [Pages -> Nat]
        BY DEF IInv, TypeInv
      <4> QED
        BY <1>1, <2>2, <4>1
    <3>2. PICK r \in history : r.at = target /\ r.page = p /\ Shown(r)
      BY <1>5, <3>1
    <3>3. store' = [store EXCEPT ![r.page] = r.at] /\ r.page \in Pages
      BY <1>4, <3>1, <3>2
    <3> QED
      BY <1>1, <3>2, <3>3, ImageWritten
  <2> QED
    BY <2>1, <2>2
<1>7. AnchorInv'
  BY <1>1, <1>3 DEF AnchorInv
<1>8. pages \subseteq PagesIn(log)
  <2>1. \A r \in log : r.kind = "TransactionPage" => r.page \in Nat \ {0}
    BY HistoryWithin, RecordFacts, PagesAssumption DEF Within, IInv
  <2> QED
    BY <2>1 DEF PagesIn
<1> DEFINE rest == held.todo \ {p}
<1>9. rest \subseteq PagesIn(log)
  BY <1>2
<1> HIDE DEF pages, rest
<1>10. ASSUME NEW x, x \subseteq PagesIn(log), phase' = phase, held' = [held EXCEPT !.todo = x]
       PROVE  IInv'
  <2>1. IsEvidence(held') /\ held'.todo = x
    BY <1>2, <1>10, EvidenceUpdates
  <2>2. RecoveryHeld'
    BY <1>1, <1>2, <1>10, <2>1 DEF RecoveryHeld
  <2>3. HeldInv'
    BY <1>1, <1>10, <2>2 DEF HeldInv, BaselineHeld, PlanHeld, RepairsHeld, LiveHeld, WithBaseline,
                      Restarting, Live
  <2> QED
    BY <1>1, <1>6, <1>7, <1>10, <2>1, <2>3, StoreStep DEF Live
<1>11. CASE phase' = "Stopped" /\ held' = held
  <2>1. HeldInv' /\ phase' \notin {"Restored"} \cup Live
    BY <1>11, RestingHolds DEF Resting
  <2> QED
    BY <1>1, <1>2, <1>6, <1>7, <1>11, <2>1, StoreStep
<1>12. \/ phase' = "Stopped" /\ held' = held
       \/ phase' = phase /\ held' = [held EXCEPT !.todo = rest]
       \/ phase' = phase /\ held' = [held EXCEPT !.todo = pages]
  BY <1>1 DEF rest
<1> QED
  BY <1>8, <1>9, <1>10, <1>11, <1>12

\* A repair leaves its page with the last committed image, or not repaired.
LEMMA RepairPreserves ==
    ASSUME IInv, RepairPage
    PROVE  IInv'
<1>0. PICK p : p = Earliest(held.todo)
  OBVIOUS
<1> DEFINE repair == held.repairs[p]
           shown == [store EXCEPT ![p] = ImageAfter(repair, @)]
           rest == held.todo \ {p}
<1>1. /\ UNCHANGED <<log, highWater, generation, anchor, epoch, history, slot, coordinator>>
      /\ phase = "Repairing" /\ held.todo # {}
      /\ store' = store \/ (store' = shown /\ Executable(repair, store[p]))
      /\ \/ phase' = "RepairFailed" /\ held' = held
         \/ /\ phase' = "Repairing" /\ held' = [held EXCEPT !.todo = rest]
            /\ store' = shown /\ Executable(repair, store[p])
  BY <1>0 DEF RepairPage, Idle, To, logVars, slotVars
<1>2. /\ epoch' \in Nat /\ epoch <= epoch' /\ IsEvidence(held)
      /\ phase \in WithBaseline /\ phase \in Restarting /\ phase \in Restarting \ {"Planned"}
      /\ store \in [Pages -> Nat]
  BY <1>1, EpochTyped DEF WithBaseline, Restarting, IInv, TypeInv
<1>3. /\ held.todo \subseteq DOMAIN held.repairs
      /\ RepairsDone(DOMAIN held.repairs \ held.todo) /\ RepairsFound
  BY <1>1, <1>2 DEF IInv, HeldInv, RepairsHeld
<1>4. DOMAIN held.repairs \subseteq Pages
  <2>1. /\ held.plan = {ThePlan}
        /\ ThePlan.window = Window(log, TheBaseline.replay)
    BY <1>2, HeldPlan DEF Plan
  <2>2. DOMAIN held.repairs = PagesIn(Window(log, TheBaseline.replay))
    BY <1>3, <2>1 DEF RepairsFound
  <2>3. \A r \in Window(log, TheBaseline.replay) : r.page = 0 \/ r.page \in Pages
    BY HistoryWithin, RecordFacts DEF Within, Window, IInv
  <2> QED
    BY <2>2, <2>3 DEF PagesIn
<1>5. p \in held.todo /\ p \in Pages /\ p \in DOMAIN held.repairs
  BY <1>0, <1>1, <1>3, <1>4, FirstPage
<1>6. IF repair.kind = "Candidate" THEN repair.target = CommittedAt(p) /\ CommittedAt(p) # 0
      ELSE repair.from = CommittedAt(p)
  BY <1>3, <1>5 DEF RepairsFound
<1>7. store' = shown /\ Executable(repair, store[p]) =>
          store' = [store EXCEPT ![p] = CommittedAt(p)]
               /\ (CommittedAt(p) = 0 => store' = store)
  <2> SUFFICES ASSUME store' = shown, Executable(repair, store[p])
               PROVE  /\ store' = [store EXCEPT ![p] = CommittedAt(p)]
                      /\ CommittedAt(p) = 0 => store' = store
    OBVIOUS
  <2>1. ImageAfter(repair, store[p]) = CommittedAt(p)
    BY <1>6 DEF Executable, SourceUnchanged, ImageAfter
  <2>2. store' = [store EXCEPT ![p] = CommittedAt(p)]
    BY <1>2, <1>5, <2>1
  <2>3. CommittedAt(p) = 0 => store[p] = 0
    BY <1>6 DEF Executable, SourceUnchanged
  <2> QED
    BY <1>2, <1>5, <2>2, <2>3
<1> HIDE DEF repair, shown, rest
<1>8. /\ store' \in [Pages -> Nat] /\ StoreShowsCommitted'
      /\ \A b : Covers(b) /\ b.replay.at \in Nat => Covers(b)'
  <2>1. CASE store' = store
    BY <1>1, <1>2, <2>1, StoreKept
  <2>2. CASE store' # store
    <3>1. CommittedAt(p) # 0 /\ store' = [store EXCEPT ![p] = CommittedAt(p)]
      BY <1>1, <1>7, <2>2
    <3>2. PICK r \in history : r.at = CommittedAt(p) /\ r.page = p /\ Shown(r)
      BY <3>1, CommittedAtFacts DEF IInv
    <3>3. store' = [store EXCEPT ![r.page] = r.at] /\ r.page \in Pages /\ r.at = CommittedAt(r.page)
      BY <1>5, <3>1, <3>2
    <3> QED
      BY <1>1, <3>2, <3>3, ImageWritten
  <2> QED
    BY <2>1, <2>2
<1>9. AnchorInv'
  <2>1. ASSUME NEW b \in anchor PROVE Covers(b)'
    BY <1>8, ReplayFacts DEF IInv, AnchorInv
  <2> QED
    BY <1>1, <1>2, <2>1, RecordsKept DEF IInv, AnchorInv
<1>10. ASSUME held'.baseline = held.baseline, held'.plan = held.plan,
              held'.repairs = held.repairs
       PROVE  BaselineHeld' /\ PlanHeld' /\ RepairsFound'
  <2>1. BaselineHeld' /\ RepairsFound'
    BY <1>1, <1>2, <1>10, BaselineCarried, RepairsCarried
  <2>2. /\ held.plan = {ThePlan} /\ held.baseline = {TheBaseline}
        /\ \A b \in held.baseline :
             Covers(b) /\ held.plan = {Plan(EntriesNow(b), log, highWater, b)}
    BY <1>2, HeldPlan, HeldBaseline DEF IInv, HeldInv, PlanHeld
  <2>3. held'.plan = {ThePlan'}
    BY <1>10, <2>2 DEF ThePlan
  <2>4. \A b \in held.baseline : Covers(b)'
    <3>1. \A b \in held.baseline : BaselineTrue(b)
      BY <1>2 DEF IInv, HeldInv, BaselineHeld
    <3> QED
      BY <1>8, <2>2, <3>1, ReplayFacts DEF IInv
  <2>5. \A b : EntriesNow(b)' = EntriesNow(b)
    BY <1>1 DEF EntriesNow
  <2>6. PlanHeld'
    BY <1>1, <1>10, <2>2, <2>3, <2>4, <2>5 DEF PlanHeld
  <2> QED
    BY <2>1, <2>6
<1>11. CASE phase' = "RepairFailed" /\ held' = held
  <2>1. BaselineHeld' /\ PlanHeld' /\ RepairsFound'
    BY <1>10, <1>11
  <2>2. HeldInv'
    BY <1>11, <2>1 DEF HeldInv, RecoveryHeld, RepairsHeld, LiveHeld, Live
  <2> QED
    BY <1>1, <1>2, <1>8, <1>9, <1>11, <2>2, StoreStep DEF Live
<1>12. ASSUME phase' = "Repairing", held' = [held EXCEPT !.todo = rest],
              store' = shown, Executable(repair, store[p])
       PROVE  IInv'
  <2>1. /\ IsEvidence(held') /\ held'.todo = rest /\ held'.baseline = held.baseline
        /\ held'.plan = held.plan /\ held'.repairs = held.repairs
    BY <1>2, <1>12, EvidenceUpdates
  <2>2. BaselineHeld' /\ PlanHeld' /\ RepairsFound'
    BY <1>10, <2>1
  <2>3. \A q \in DOMAIN held.repairs \ rest : store'[q] = CommittedAt(q)
    <3>1. store' = [store EXCEPT ![p] = CommittedAt(p)]
      BY <1>7, <1>12
    <3>2. \A q \in DOMAIN held.repairs \ held.todo : store[q] = CommittedAt(q)
      BY <1>3 DEF RepairsDone
    <3> QED
      BY <1>2, <1>4, <1>5, <3>1, <3>2 DEF rest
  <2>4. RepairsDone(DOMAIN held.repairs \ held.todo)'
    <3>1. \A q : CommittedAt(q)' = CommittedAt(q)
      BY <1>1, <1>2, RecordsKept
    <3> QED
      BY <2>1, <2>3, <3>1 DEF RepairsDone
  <2>5. RepairsHeld'
    BY <1>3, <1>12, <2>1, <2>2, <2>4 DEF RepairsHeld, rest
  <2>6. HeldInv'
    BY <1>12, <2>2, <2>5 DEF HeldInv, RecoveryHeld, LiveHeld, Live
  <2> QED
    BY <1>1, <1>8, <1>9, <1>12, <2>1, <2>6, StoreStep DEF Live
<1> QED
  BY <1>1, <1>11, <1>12

----------------------------------------------------------------------------
(* Restoration and reclamation.                                             *)

\* A new coordinator has an epoch that no record names.
LEMMA RestorePreserves ==
    ASSUME IInv, RestoreTransactions
    PROVE  IInv'
<1>1. /\ UNCHANGED <<log, highWater, generation, anchor, history, store, slot, held>>
      /\ phase \in {"Repaired", "RestorationFailed"}
      /\ \/ /\ phase' \in {"Stopped", "RestorationFailed"} /\ epoch' \in {epoch, epoch + 1}
            /\ coordinator' = coordinator
         \/ /\ phase' = "Restored" /\ epoch' = epoch + 1
            /\ coordinator' = NewCoordinator(epoch')
  BY DEF RestoreTransactions, To, slotVars
<1>2. /\ epoch \in Nat /\ epoch' \in Nat /\ epoch <= epoch' /\ IsEvidence(held)
      /\ phase \in WithBaseline /\ phase \in Restarting /\ phase \in Restarting \ {"Planned"}
  BY <1>1 DEF IInv, TypeInv, WithBaseline, Restarting
<1>3. /\ HistoryInv' /\ LogInv' /\ StoreShowsCommitted' /\ AnchorInv' /\ SlotInv'
      /\ \A t : DurablyCommitted(t)' <=> DurablyCommitted(t)
  BY <1>1, <1>2, RecordsKept, StoreKept DEF IInv, SlotInv
<1>4. HeldInv'
  <2>1. BaselineHeld' /\ PlanHeld' /\ RepairsFound'
    BY <1>1, <1>2, BaselineCarried, PlanCarried, RepairsCarried
  <2>2. RepairsDone(Pages)'
    <3>1. RepairsDone(Pages)
      BY <1>1 DEF IInv, HeldInv, RepairsHeld
    <3>2. \A q : CommittedAt(q)' = CommittedAt(q)
      BY <1>1, <1>2, RecordsKept
    <3> QED
      BY <1>1, <3>1, <3>2 DEF RepairsDone
  <2>3. phase' \in {"Stopped", "RestorationFailed", "Restored"}
    BY <1>1
  <2> QED
    BY <2>1, <2>2, <2>3 DEF HeldInv, RecoveryHeld, RepairsHeld, LiveHeld, Live
<1>5. CASE /\ phase' \in {"Stopped", "RestorationFailed"} /\ epoch' \in {epoch, epoch + 1}
           /\ coordinator' = coordinator
  <2>1. TypeInv'
    BY <1>1, <1>2, <1>5 DEF IInv, TypeInv
  <2>2. LifecycleInv'
    <3>1. LifecycleFollowsHistory'
      BY <1>3, <1>5 DEF IInv, LifecycleInv, LifecycleFollowsHistory
    <3>2. \A t \in DOMAIN coordinator'.lifecycles :
              coordinator'.lifecycles[t] \in {"Active", "PageAppendIndeterminate"} =>
                  ~DurablyCommitted(t)'
      BY <1>3, <1>5 DEF IInv, LifecycleInv
    <3> QED
      BY <1>1, <1>5, <3>1, <3>2 DEF IInv, LifecycleInv, Dirtied, Live
  <2> QED
    BY <1>3, <1>4, <2>1, <2>2 DEF IInv
<1>6. CASE phase' = "Restored" /\ epoch' = epoch + 1 /\ coordinator' = NewCoordinator(epoch')
  <2>1. /\ IsCoordinator(coordinator') /\ coordinator'.epoch = epoch' /\ coordinator'.next = 1
        /\ coordinator'.lifecycles = <<>> /\ DOMAIN coordinator'.lifecycles = {}
        /\ coordinator'.dirty = {}
        /\ coordinator'.lifecycles \in [DOMAIN coordinator'.lifecycles -> Statuses]
    BY <1>6, FreshCoordinator
  <2>2. TypeInv'
    BY <1>1, <1>2, <1>6, <2>1 DEF IInv, TypeInv
  <2>3. \A r \in history' : r.by[1] # coordinator'.epoch
    <3>1. \A r \in history : r.by[1] <= epoch /\ r.by[1] \in Nat
      BY HistoryWithin, RecordFacts, OwnerFacts DEF Within, IInv, HistoryInv
    <3> QED
      BY <1>1, <1>2, <1>6, <2>1, <3>1
  <2>4. LifecycleInv'
    BY <1>2, <1>6, <2>1, <2>3 DEF LifecycleInv, LifecycleFollowsHistory
  <2> QED
    BY <1>3, <1>4, <2>2, <2>4 DEF IInv
<1> QED
  BY <1>1, <1>5, <1>6

\* What is published of a complete log is a true baseline.
LEMMA CompletenessTrue ==
    ASSUME TypeInv, HistoryInv, log = history
    PROVE  BaselineTrue(Completeness(log, highWater, store))
<1> DEFINE entries == Transactions(log)
           pages == PageStates(entries, log, {}, store)
           b == Completeness(log, highWater, store)
<1>1. /\ b.frontier = highWater /\ b.entries = entries /\ b.pages = pages
      /\ b.replay = ReplayStart(entries, pages, highWater)
  BY DEF Completeness, Derived
<1>2. Prefix(history, highWater) = log /\ highWater \in 0 .. highWater
  BY DEF Prefix, HistoryInv, TypeInv
<1>3. \A p \in DOMAIN pages : pages[p] = PageState(RequiredImage(entries, log, p), pages[p].stored)
  <2>1. \A x, y : PageState(x, y).stored = y
    BY DEF PageState
  <2>2. \A p \in DOMAIN pages : pages[p] = PageState(RequiredImage(entries, log, p), store[p])
    BY DEF PageStates
  <2> HIDE DEF pages, entries
  <2> QED
    BY <2>1, <2>2
<1> HIDE DEF pages, entries, b
<1>4. b.entries = Transactions(Prefix(history, b.frontier))
  BY <1>1, <1>2 DEF entries
<1>5. BaselineTrue(b)
  BY <1>1, <1>2, <1>3, <1>4 DEF BaselineTrue
<1> QED
  BY <1>5 DEF b

LEMMA PublishPreserves ==
    ASSUME IInv, PublishCheckpoint
    PROVE  IInv'
<1>0. PICK b : b = Completeness(log, highWater, store)
  OBVIOUS
<1>1. /\ UNCHANGED <<log, highWater, generation, anchor, epoch, history, store, coordinator, held, phase>>
      /\ phase \in {"Recovered", "Completed"} /\ generation = 0
      /\ slot' \in {slot, {b}}
  BY <1>0 DEF PublishCheckpoint, Publishable, Published, Idle, logVars
<1>2. IsEvidence(held') /\ store' \in [Pages -> Nat]
  BY <1>1 DEF IInv, TypeInv
<1>3. /\ TypeInv' /\ HistoryInv' /\ LogInv' /\ LifecycleInv'
      /\ epoch' \in Nat /\ epoch <= epoch'
      /\ \A x : BaselineTrue(x)' <=> BaselineTrue(x)
  BY <1>1, <1>2, KeptStep
<1>4. StoreShowsCommitted' /\ AnchorInv'
  BY <1>1, <1>3, StoreKept
<1>5. BaselineTrue(b)
  BY <1>0, <1>1, CompletenessTrue DEF IInv, LogInv
<1>6. SlotInv'
  BY <1>1, <1>3, <1>5 DEF IInv, SlotInv
<1>7. HeldInv'
  <2>1. CASE phase = "Recovered"
    BY <1>1, <2>1, RestingHolds DEF Resting
  <2>2. CASE phase = "Completed"
    <3>1. phase \in WithBaseline /\ phase \in Live
      BY <2>2 DEF WithBaseline, Live
    <3>2. BaselineHeld' /\ LiveHeld'
      BY <1>1, <1>3, <3>1, BaselineCarried, LiveCarried
    <3> QED
      BY <1>1, <2>2, <3>2 DEF HeldInv, RecoveryHeld, PlanHeld, RepairsHeld, Restarting
  <2> QED
    BY <1>1, <2>1, <2>2
<1> QED
  BY <1>3, <1>4, <1>6, <1>7 DEF IInv

\* The log has what the store does not show: all of the history, or the window
\* of the anchored checkpoint.
LEMMA NeededRetained ==
    ASSUME IInv
    PROVE  NeededRecordsRetained
<1>1. \A r \in history : r.by \in Unresolved(Ever) => r \in log
  BY DEF IInv, LogInv
<1>2. ASSUME NEW p \in Pages, store[p] # CommittedAt(p), CommittedAt(p) # 0
      PROVE  CommittedAt(p) \in PositionsIn(log)
  <2>1. CASE log = history
    BY <1>2, <2>1, CommittedAtFacts DEF PositionsIn, IInv
  <2>2. CASE log # history
    <3>1. PICK b \in anchor : TRUE
      BY <2>2 DEF IInv, LogInv
    <3>2. CommittedAt(p) \in PositionsIn(Window(log, b.replay))
      BY <1>2, <3>1 DEF IInv, AnchorInv, Covers
    <3> QED
      BY <3>2 DEF PositionsIn, Window
  <2> QED
    BY <2>1, <2>2
<1> QED
  BY <1>1, <1>2 DEF NeededRecordsRetained

\* What retention demands before anything is removed: the tables and the pages
\* have nothing left to recover, and the floor is at or below the checkpoint
\* and every record of a transaction without a commit.
LEMMA RetainableFacts ==
    ASSUME IInv, phase = "Analyzed", NEW b, b = TheBaseline, NEW E, E = EntriesNow(b), Retainable,
           NEW floor, floor = RetentionNow.floor
    PROVE  /\ coordinator.lifecycles = <<>> /\ coordinator.dirty = {}
           /\ \A p \in Pages : store[p] = CommittedAt(p)
           /\ floor \in Nat
           /\ b.frontier # 0 => floor # 0 /\ floor <= b.frontier
           /\ \A r \in history : r.by \in Unresolved(Ever) => floor # 0 /\ floor <= r.at
<1>1. /\ held.baseline = {b} /\ BaselineTrue(b) /\ Knows(E)
      /\ held.plan = {ThePlan}
  BY HeldBaseline DEF WithBaseline, Live, IInv, HeldInv, LiveHeld
<1>2. /\ CompletionEvidence(b, ThePlan, coordinator, highWater, E)
      /\ \A p \in RetainedPages(log, store) : PageRetainable(E, log, highWater, store, p)
      /\ \A p \in Requirements(b, E, store) : Requirable(log, highWater, p)
  BY DEF Retainable, RetentionDerivable
<1>3. /\ Within(history, highWater) /\ Within(log, highWater) /\ log \subseteq history
      /\ highWater \in Nat /\ store \in [Pages -> Nat]
  BY HistoryWithin DEF IInv, TypeInv
<1>4. coordinator.lifecycles = <<>> /\ coordinator.dirty = {}
  <2>1. coordinator.lifecycles = <<>> /\ ThePlan.frontier = highWater
    BY <1>2 DEF CompletionEvidence, Pristine
  <2>2. \A r \in coordinator.dirty : r.at > highWater /\ r \in log
    BY <1>1, <2>1 DEF IInv, HeldInv, LiveHeld, Live, LifecycleInv, Dirtied
  <2>3. \A r \in log : r.at <= highWater /\ r.at \in Nat
    BY <1>3, RecordFacts DEF Within
  <2> QED
    BY <1>3, <2>1, <2>2, <2>3
<1>5. ASSUME NEW p \in Pages
      PROVE  store[p] = CommittedAt(p)
  <2> SUFFICES ASSUME store[p] # CommittedAt(p) PROVE FALSE
    OBVIOUS
  <2>1. CommittedAt(p) # 0 \/ CommittedAt(p) = 0
    OBVIOUS
  <2>2. CASE CommittedAt(p) = 0
    <3>1. PICK r \in history : r.at = store[p] /\ r.page = p /\ Shown(r)
      BY <2>2 DEF IInv, StoreShowsCommitted
    <3> QED
      BY <2>2, <3>1, CommittedAtFacts DEF IInv
  <2>3. CASE CommittedAt(p) # 0
    <3>1. PICK r \in log : r.at = CommittedAt(p)
      BY <2>3, NeededRetained DEF NeededRecordsRetained, PositionsIn
    <3>2. r.page = p
      BY <1>3, <2>3, <3>1, RecordOfCommitted DEF IInv
    <3>3. p \in RetainedPages(log, store)
      <4>1. p # 0
        BY PagesAssumption
      <4> QED
        BY <3>2, <4>1 DEF RetainedPages, PagesIn
    <3>4. /\ RequiredImage(E, log, p) # NoImage
          /\ RequiredImage(E, log, p).at = CommittedAt(p)
      <4>1. CommittedAt(p) \in PositionsIn(log)
        BY <3>1 DEF PositionsIn
      <4> QED
        BY <1>1, <2>3, <4>1, RequiredNow DEF IInv
    <3> QED
      BY <1>2, <3>3, <3>4 DEF PageRetainable
  <2> QED
    BY <2>2, <2>3
<1> DEFINE R == Requirements(b, E, store)
<1>6. floor = Earliest(R)
  BY DEF RetentionNow, Retention
<1>7. R \in SUBSET (Nat \ {0})
  <2>1. \A r \in log : r.at \in Nat \ {0}
    BY <1>3, RecordFacts DEF Within
  <2> QED
    BY <1>2, <2>1 DEF Requirable, PositionsIn
<1>8. /\ b.frontier # 0 => b.frontier \in R
      /\ \A t \in Unresolved(E) : E[t].first \in R
  BY DEF Requirements
<1> HIDE DEF R
<1>9. /\ R = {} => floor = 0
      /\ R # {} => floor \in R /\ \A q \in R : floor <= q
  BY <1>6, <1>7, EarliestIsFirst DEF IsEarliest
<1>10. floor \in Nat /\ \A q \in R : floor # 0 /\ floor <= q
  <2>1. CASE R = {}
    BY <1>9, <2>1
  <2>2. CASE R # {}
    <3>1. floor \in R /\ \A q \in R : floor <= q
      BY <1>9, <2>2
    <3>2. floor \in Nat \ {0}
      BY <1>7, <3>1
    <3> QED
      BY <3>1, <3>2
  <2> QED
    BY <2>1, <2>2
<1>11. ASSUME NEW r \in history, r.by \in Unresolved(Ever)
       PROVE  floor # 0 /\ floor <= r.at
  <2>1. /\ r.by \in OwnersIn(history) /\ ~DurablyCommitted(r.by)
        /\ Ever[r.by] = Entry(history, r.by) /\ Ever[r.by].commit = 0
    BY <1>11, EverFacts DEF IInv
  <2>2. r.kind = "TransactionPage"
    <3>1. r.kind # "Page" /\ r.kind # "Commit"
      BY <2>1, OwnedByTransaction DEF IInv, DurablyCommitted
    <3> QED
      BY <1>3, <3>1, RecordFacts DEF Within
  <2>3. /\ Entry(history, r.by).first <= r.at
        /\ \E x \in history : x.at = Entry(history, r.by).first
    BY <1>3, <2>2, EntryFacts
  <2>4. r.by \in Unresolved(E) /\ E[r.by].first = Entry(history, r.by).first
    BY <1>1, <1>11, <2>1 DEF Knows, Unresolved
  <2>5. Entry(history, r.by).first \in R
    BY <1>8, <2>4
  <2>6. r.at \in Nat /\ Entry(history, r.by).first \in Nat
    BY <1>3, <2>3, RecordFacts DEF Within
  <2> QED
    BY <1>10, <2>3, <2>5, <2>6
<1> QED
  BY <1>4, <1>5, <1>8, <1>10, <1>11

\* Reclamation removes nothing that the checkpoint it anchors does not cover.
LEMMA ReclaimPreserves ==
    ASSUME IInv, ReclaimWalPrefix
    PROVE  IInv'
<1>0. PICK b : b = TheBaseline
  OBVIOUS
<1>9. PICK floor : floor = RetentionNow.floor
  OBVIOUS
<1> DEFINE kept == RetainedFrom(log, floor)
<1>1. /\ UNCHANGED <<store, slot, held, coordinator, history>> /\ phase = "Analyzed"
      /\ \/ phase' = "Stopped" /\ UNCHANGED <<log, highWater, generation, anchor, epoch>>
         \/ /\ Retainable /\ phase' \in {"Reclaimed", "Stopped"}
            /\ log' = kept /\ generation' = generation + 1 /\ anchor' = {b}
            /\ UNCHANGED <<highWater, epoch>>
  <2>1. ASSUME NEW retention, Reclaimable(retention), InstallReclaimed(retention)
        PROVE  /\ Retainable /\ log' = kept /\ generation' = generation + 1 /\ anchor' = {b}
               /\ UNCHANGED <<highWater, epoch>>
    <3>1. Retainable /\ retention.floor = floor
      BY <1>9, <2>1 DEF Reclaimable
    <3>2. /\ MetadataAfter(retention, Metadata, TheBaseline).generation = generation + 1
          /\ MetadataAfter(retention, Metadata, TheBaseline).anchor = {b}
      BY <1>0 DEF MetadataAfter, Metadata
    <3> QED
      BY <2>1, <3>1, <3>2 DEF InstallReclaimed
  <2> HIDE DEF kept
  <2> QED
    BY <2>1 DEF ReclaimWalPrefix, To, logVars, slotVars
<1>2. /\ phase \in WithBaseline /\ phase \in Live /\ IsEvidence(held)
      /\ epoch \in Nat /\ generation \in Nat /\ highWater \in Nat
  BY <1>1 DEF WithBaseline, Live, IInv, TypeInv
<1>3. CASE phase' = "Stopped" /\ UNCHANGED <<log, highWater, generation, anchor, epoch>>
  BY <1>1, <1>2, <1>3, RestingStep DEF Resting
<1>4. CASE /\ Retainable /\ phase' \in {"Reclaimed", "Stopped"}
           /\ log' = kept /\ generation' = generation + 1 /\ anchor' = {b}
           /\ UNCHANGED <<highWater, epoch>>
  <2>1. /\ coordinator.lifecycles = <<>> /\ coordinator.dirty = {}
        /\ \A p \in Pages : store[p] = CommittedAt(p)
        /\ floor \in Nat
        /\ b.frontier # 0 => floor # 0 /\ floor <= b.frontier
        /\ \A r \in history : r.by \in Unresolved(Ever) => floor # 0 /\ floor <= r.at
    <3>1. PICK E : E = EntriesNow(b)
      OBVIOUS
    <3> QED
      BY <1>0, <1>9, <1>1, <1>4, <3>1, RetainableFacts, Zenon
  <2>2. held.baseline = {b} /\ BaselineTrue(b) /\ (generation # 0 => anchor = {b})
    BY <1>0, <1>2, HeldBaseline
  <2>3. /\ Within(history, highWater) /\ log \subseteq history
        /\ \A r \in history : r.at \in Nat
    BY HistoryWithin, RecordFacts DEF Within, IInv, TypeInv
  <2>4. /\ kept \subseteq log
        /\ \A r \in log : r \in kept <=> floor # 0 /\ floor <= r.at
    BY <2>1, <2>3 DEF RetainedFrom
  <2> HIDE DEF kept
  <2>5. TypeInv'
    BY <1>1, <1>2, <1>4, <2>3, <2>4 DEF IInv, TypeInv
  <2>6. HistoryInv'
    BY <1>1, <1>4 DEF IInv, HistoryInv
  <2>7. LogInv'
    <3>1. \A r \in kept, s \in history : r.at <= s.at => s \in kept
      BY <2>1, <2>3, <2>4 DEF IInv, LogInv
    <3>2. \A r \in history : r.by \in Unresolved(Ever) => r \in kept
      BY <2>1, <2>4 DEF IInv, LogInv
    <3>3. Ever' = Ever /\ generation' # 0 /\ anchor' # {}
      BY <1>1, <1>2, <1>4 DEF Ever
    <3> QED
      BY <1>1, <1>4, <3>1, <3>2, <3>3 DEF LogInv
  <2>8. /\ \A x : BaselineTrue(x)' <=> BaselineTrue(x)
        /\ \A t : DurablyCommitted(t)' <=> DurablyCommitted(t)
        /\ \A x : Shown(x)' <=> Shown(x)
        /\ \A p : CommittedAt(p)' = CommittedAt(p)
    BY <1>1, <1>4 DEF BaselineTrue, DurablyCommitted, Shown, CommittedAt
  <2>9. LifecycleInv'
    <3>1. /\ coordinator.epoch # 0
          /\ \A r \in history : r.by[1] = coordinator.epoch => r.by \in DOMAIN coordinator.lifecycles
      BY <1>2 DEF IInv, LifecycleInv
    <3>2. DOMAIN coordinator.lifecycles = {}
      BY <2>1
    <3> QED
      BY <1>1, <1>4, <2>1, <3>1, <3>2 DEF LifecycleInv, LifecycleFollowsHistory
  <2>10. StoreShowsCommitted' /\ SlotInv'
    BY <1>1, <2>8 DEF IInv, StoreShowsCommitted, SlotInv
  <2>11. AnchorInv'
    <3>1. Covers(b)'
      BY <1>1, <2>1, <2>8 DEF Covers
    <3>2. b.frontier # 0 => \A r \in history : r.at >= b.frontier => r \in kept
      <4> SUFFICES ASSUME b.frontier # 0, NEW r \in history, r.at >= b.frontier
                   PROVE  r \in kept
        OBVIOUS
      <4>1. r \in log
        BY <2>2 DEF IInv, LogInv, AnchorInv
      <4>2. floor <= r.at
        BY <2>1, <2>2, <2>3 DEF BaselineTrue
      <4> QED
        BY <2>1, <2>4, <4>1, <4>2
    <3> QED
      BY <1>1, <1>4, <2>2, <2>8, <3>1, <3>2 DEF AnchorInv
  <2>12. HeldInv'
    <3>1. CASE phase' = "Stopped"
      BY <3>1, RestingHolds DEF Resting
    <3>2. CASE phase' = "Reclaimed"
      <4>1. BaselineHeld'
        <5>1. held'.baseline = {TheBaseline'}
          BY <1>1, <2>2 DEF TheBaseline
        <5> QED
          BY <1>1, <1>4, <2>2, <2>8, <5>1 DEF BaselineHeld
      <4>2. LiveHeld'
        BY <1>1, <1>2, <1>4, LiveCarried
      <4> QED
        BY <3>2, <4>1, <4>2 DEF HeldInv, RecoveryHeld, PlanHeld, RepairsHeld, Restarting
    <3> QED
      BY <1>4, <3>1, <3>2
  <2> QED
    BY <2>5, <2>6, <2>7, <2>9, <2>10, <2>11, <2>12 DEF IInv
<1> QED
  BY <1>1, <1>3, <1>4

----------------------------------------------------------------------------
(* The theorems.                                                            *)
LEMMA StutterPreserves ==
    ASSUME IInv, UNCHANGED vars
    PROVE  IInv'
<1>1. UNCHANGED <<log, highWater, generation, anchor, epoch, history, store, slot, held, phase, coordinator>>
  BY DEF vars, logVars, slotVars
<1>2. epoch' \in Nat /\ epoch <= epoch' /\ IsEvidence(held')
  BY <1>1, EpochTyped
<1>3. BaselineHeld'
  <2>1. CASE phase \in WithBaseline
    BY <1>1, <1>2, <2>1, BaselineCarried
  <2>2. CASE phase \notin WithBaseline
    BY <1>1, <2>2 DEF BaselineHeld
  <2> QED
    BY <2>1, <2>2
<1>4. PlanHeld'
  <2>1. CASE phase \in Restarting
    BY <1>1, <1>2, <2>1, PlanCarried
  <2>2. CASE phase \notin Restarting
    BY <1>1, <2>2 DEF PlanHeld
  <2> QED
    BY <2>1, <2>2
<1>5. RepairsHeld'
  <2>1. \A p : CommittedAt(p)' = CommittedAt(p)
    BY <1>1, <1>2, RecordsKept
  <2>2. \A S : RepairsDone(S)' <=> RepairsDone(S)
    BY <1>1, <2>1 DEF RepairsDone
  <2>3. phase \in Restarting \ {"Planned"} => RepairsFound'
    BY <1>1, <1>2, RepairsCarried
  <2> QED
    BY <1>1, <2>2, <2>3 DEF RepairsHeld, IInv, HeldInv
<1>6. LiveHeld'
  <2>1. CASE phase \in Live
    BY <1>1, <2>1, LiveCarried
  <2>2. CASE phase \notin Live
    BY <1>1, <2>2 DEF LiveHeld
  <2> QED
    BY <2>1, <2>2
<1>7. HeldInv'
  BY <1>1, <1>3, <1>4, <1>5, <1>6 DEF HeldInv, RecoveryHeld, IInv
<1> QED
  BY <1>1, <1>2, <1>7, IdleStep

LEMMA InitHolds ==
    ASSUME Init
    PROVE  IInv
<1>1. /\ log = {} /\ highWater = 0 /\ generation = 0 /\ anchor = {} /\ epoch = 0 /\ history = {}
      /\ store = [p \in Pages |-> 0] /\ slot = {} /\ phase = "Unchecked" /\ held = NoEvidence
      /\ coordinator = NewCoordinator(0)
  BY DEF Init, NoCoordinator
<1>2. /\ IsCoordinator(coordinator) /\ coordinator.epoch = 0 /\ coordinator.next = 1
      /\ coordinator.lifecycles = <<>> /\ DOMAIN coordinator.lifecycles = {}
      /\ coordinator.dirty = {}
      /\ coordinator.lifecycles \in [DOMAIN coordinator.lifecycles -> Statuses]
  BY <1>1, FreshCoordinator
<1>3. TypeInv
  BY <1>1, <1>2 DEF TypeInv, NoEvidence, IsEvidence
<1>4. HistoryInv /\ LogInv /\ StoreShowsCommitted /\ SlotInv /\ AnchorInv
  BY <1>1 DEF HistoryInv, LogInv, StoreShowsCommitted, SlotInv, AnchorInv
<1>5. LifecycleInv
  BY <1>1, <1>2 DEF LifecycleInv, LifecycleFollowsHistory, Live
<1>6. HeldInv
  BY <1>1 DEF HeldInv, RecoveryHeld, BaselineHeld, PlanHeld, RepairsHeld, LiveHeld,
              WithBaseline, Restarting, Live
<1> QED
  BY <1>3, <1>4, <1>5, <1>6 DEF IInv

LEMMA NextPreserves ==
    ASSUME IInv, [Next]_vars
    PROVE  IInv'
<1>1. CASE RestartStep
  BY <1>1, SelectPreserves, PlanReplayPreserves, PrepareRepairsPreserves,
     ExecuteRepairsPreserves, RepairPreserves, FinishRepairsPreserves, RestorePreserves,
     CompletePreserves DEF RestartStep
<1>2. CASE FallbackStep
  BY <1>2, ContinuePreserves, RecoverPreserves, RestingTransitions DEF FallbackStep
<1>3. CASE LiveStep
  <2>1. CASE BeginTransaction
    BY <2>1, BeginPreserves
  <2>2. CASE \E t \in DOMAIN coordinator.lifecycles :
               Commit(t) \/ Resolve(t) \/ \E p \in Pages : StagePageWrite(t, p)
    BY <2>2, CommitPreserves, ResolvePreserves, StagePreserves
  <2>3. CASE \E p \in Pages : WriteRawPage(p)
    BY <2>3, WriteRawPreserves
  <2>4. CASE \E r \in coordinator.dirty : FlushPage(r)
    BY <2>4, FlushPreserves
  <2> QED
    BY <1>3, <2>1, <2>2, <2>3, <2>4 DEF LiveStep
<1>4. CASE PublishCheckpoint
  BY <1>4, PublishPreserves
<1>5. CASE AnalyzeRetention
  BY <1>5, AnalyzeRetentionPreserves
<1>6. CASE ReclaimWalPrefix
  BY <1>6, ReclaimPreserves
<1>7. CASE PrepareCleanClose \/ ValidateCleanReopen
  BY <1>7, RestingTransitions
<1>8. CASE Crash
  BY <1>8, CrashPreserves
<1>9. CASE UNCHANGED vars
  BY <1>9, StutterPreserves
<1> QED
  BY <1>1, <1>2, <1>3, <1>4, <1>5, <1>6, <1>7, <1>8, <1>9 DEF Next

\* The inductive invariant holds of every behaviour, however often the log is
\* reclaimed, an adapter fails or the process crashes.
THEOREM RestartInvariantHolds == Spec => []IInv
<1>1. Init => IInv
  BY InitHolds
<1>2. IInv /\ [Next]_vars => IInv'
  BY NextPreserves
<1> QED
  BY <1>1, <1>2, PTL DEF Spec

\* No page ever shows an image whose transaction has no durable commit: neither
\* FlushPage, nor a repair, nor complete recovery writes one.
THEOREM StoreAlwaysShowsCommitted == Spec => []StoreShowsCommitted
<1>1. IInv => StoreShowsCommitted
  BY DEF IInv
<1> QED
  BY <1>1, RestartInvariantHolds, PTL

\* A coordinator calls committed what is durably committed, and nothing else,
\* also when Resolve asks a log that was reclaimed.
THEOREM LifecycleAlwaysFollowsHistory == Spec => []LifecycleFollowsHistory
<1>1. IInv => LifecycleFollowsHistory
  BY DEF IInv, LifecycleInv
<1> QED
  BY <1>1, RestartInvariantHolds, PTL

\* ReclaimWalPrefix never removes a record of a transaction without a commit,
\* nor the last committed image of a page that does not show it.
THEOREM NeededRecordsAlwaysRetained == Spec => []NeededRecordsRetained
<1>1. IInv => NeededRecordsRetained
  BY NeededRetained
<1> QED
  BY <1>1, RestartInvariantHolds, PTL

\* The table of a plan, derived from a complete log or from an anchored
\* checkpoint and the records after it, knows what the whole history knows.
THEOREM TableAlwaysContinuesHistory == Spec => []TableContinuesHistory
<1>1. IInv => TableContinuesHistory
  <2> SUFFICES ASSUME IInv,
                      phase \in {"Planned", "Prepared", "Repairing", "Repaired", "Restored"}
               PROVE  /\ \A t \in Unresolved(Ever) :
                           t \in DOMAIN ThePlan.entries /\ ThePlan.entries[t] = Ever[t]
                      /\ \A t \in DOMAIN ThePlan.entries :
                           t \in DOMAIN Ever /\ ThePlan.entries[t].commit = Ever[t].commit
    BY DEF TableContinuesHistory
  <2>1. phase \in Restarting /\ phase \in WithBaseline
    BY DEF Restarting, WithBaseline
  <2>2. Knows(EntriesNow(TheBaseline))
    BY <2>1, HeldBaseline
  <2>3. ThePlan.entries = EntriesNow(TheBaseline)
    BY <2>1, HeldPlan DEF Plan
  <2> QED
    BY <2>2, <2>3 DEF Knows
<1> QED
  BY <1>1, RestartInvariantHolds, PTL

\* When FinishRepairs is reached every page shows the last image that was ever
\* durably committed, and restoration leaves it so.
THEOREM RepairsAlwaysShowEveryCommit == Spec => []RepairsShowEveryCommit
<1>1. IInv => RepairsShowEveryCommit
  BY DEF IInv, HeldInv, RepairsHeld, RepairsDone, RepairsShowEveryCommit
<1> QED
  BY <1>1, RestartInvariantHolds, PTL
=============================================================================
