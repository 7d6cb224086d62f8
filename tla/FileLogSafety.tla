---------------------------- MODULE FileLogSafety ----------------------------
(***************************************************************************)
(* Proofs about the file log, for every value of its constants: that what  *)
(* interrupted calls and power losses leave can be opened again, that the  *)
(* memory of an adapter is what an open of its file would compute, that    *)
(* epochs and verdicts last, and that the file is a log as DurableLog      *)
(* describes one.                                                          *)
(***************************************************************************)
EXTENDS FileLogInvariant, ExtremaProofs, SequenceTheorems, FiniteSetTheorems

----------------------------------------------------------------------------
(* Frames                                                                   *)

\* The frames of a record: one of a commit, two or more of a page.
LEMMA FramesInType ==
    ASSUME NEW r \in LogRecords
    PROVE  /\ FramesIn(r) \in Nat \ {0}
           /\ r.kind \in {"Commit", "Page"} /\ r.at \in Nat \ {0} /\ r.by \in Nat
           /\ r.kind = "Commit" => FramesIn(r) = 1
           /\ r.kind # "Commit" => FramesIn(r) > 1
  BY PageFramesAssumption DEF LogRecords, FramesIn

\* A frame is what its kind says.
LEMMA FrameKinds ==
    /\ Torn \in Frames /\ Malformed \in Frames
    /\ Torn.kind = "Torn" /\ Malformed.kind = "Malformed"
    /\ \A frame \in Frames :
         /\ frame.kind \in {"Record", "EpochAllocation", "DurableThrough", "Torn", "Malformed"}
         /\ frame.kind = "Record" =>
              /\ frame.record \in LogRecords
              /\ frame.part \in 1 .. FramesIn(frame.record)
              /\ frame = RecordFrame(frame.record, frame.part)
         /\ frame.kind = "EpochAllocation" => frame.value \in Nat /\ frame = EpochFrame(frame.value)
         /\ frame.kind = "DurableThrough" => frame.value \in Nat /\ frame = Marker(frame.value)
         /\ frame.kind = "Torn" => frame = Torn
         /\ frame.kind = "Malformed" => frame = Malformed
<1>1. /\ Torn \in Frames /\ Malformed \in Frames
      /\ Torn.kind = "Torn" /\ Malformed.kind = "Malformed"
  BY DEF Frames, Torn, Malformed
<1>2. ASSUME NEW frame \in RecordFrames
      PROVE  /\ frame.kind = "Record" /\ frame.record \in LogRecords
             /\ frame.part \in 1 .. FramesIn(frame.record)
             /\ frame = RecordFrame(frame.record, frame.part)
  <2>1. /\ frame \in [kind : {"Record"}, record : LogRecords, part : Nat \ {0}]
        /\ frame.part <= FramesIn(frame.record)
    BY DEF RecordFrames
  <2>2. /\ frame.kind = "Record" /\ frame.record \in LogRecords /\ frame.part \in Nat \ {0}
        /\ frame = [kind |-> "Record", record |-> frame.record, part |-> frame.part]
    BY <2>1
  <2>3. FramesIn(frame.record) \in Nat
    BY <2>2, FramesInType
  <2> QED
    BY <2>1, <2>2, <2>3 DEF RecordFrame
<1>3. ASSUME NEW frame \in EpochFrames
      PROVE  frame.kind = "EpochAllocation" /\ frame.value \in Nat /\ frame = EpochFrame(frame.value)
  BY DEF EpochFrames, EpochFrame
<1>4. ASSUME NEW frame \in MarkerFrames
      PROVE  frame.kind = "DurableThrough" /\ frame.value \in Nat /\ frame = Marker(frame.value)
  BY DEF MarkerFrames, Marker
<1> QED
  BY <1>1, <1>2, <1>3, <1>4 DEF Frames

\* The frames that the log writes.
LEMMA FramesMade ==
    /\ \A r \in LogRecords : \A part \in 1 .. FramesIn(r) :
         /\ RecordFrame(r, part) \in Frames
         /\ RecordFrame(r, part).kind = "Record"
         /\ RecordFrame(r, part).record = r /\ RecordFrame(r, part).part = part
    /\ \A n \in Nat :
         /\ EpochFrame(n) \in Frames /\ EpochFrame(n).kind = "EpochAllocation"
         /\ EpochFrame(n).value = n
         /\ Marker(n) \in Frames /\ Marker(n).kind = "DurableThrough" /\ Marker(n).value = n
<1>1. ASSUME NEW r \in LogRecords, NEW part \in 1 .. FramesIn(r)
      PROVE  /\ RecordFrame(r, part) \in Frames
             /\ RecordFrame(r, part).kind = "Record"
             /\ RecordFrame(r, part).record = r /\ RecordFrame(r, part).part = part
  <2>1. part \in Nat \ {0} /\ part <= FramesIn(r)
    BY FramesInType
  <2> QED
    BY <2>1 DEF RecordFrame, Frames, RecordFrames
<1> QED
  BY <1>1 DEF EpochFrame, Marker, Frames, EpochFrames, MarkerFrames

\* The elements of a sequence of frames.
LEMMA FramesElements ==
    ASSUME NEW s \in Seq(Frames)
    PROVE  /\ Len(s) \in Nat
           /\ DOMAIN s = 1 .. Len(s)
           /\ \A i \in 1 .. Len(s) : s[i] \in Frames
  BY LenProperties

\* The first n frames.
LEMMA PrefixElements ==
    ASSUME NEW s \in Seq(Frames), NEW n \in 0 .. Len(s)
    PROVE  /\ SubSeq(s, 1, n) \in Seq(Frames)
           /\ Len(SubSeq(s, 1, n)) = n
           /\ \A i \in 1 .. n : SubSeq(s, 1, n)[i] = s[i]
<1>1. \A i \in 1 .. n : s[i] \in Frames
  BY FramesElements
<1>2. /\ SubSeq(s, 1, n) \in Seq(Frames)
      /\ Len(SubSeq(s, 1, n)) = IF 1 <= n THEN n - 1 + 1 ELSE 0
      /\ \A i \in 1 .. n - 1 + 1 : SubSeq(s, 1, n)[i] = s[1 + i - 1]
  BY <1>1, SubSeqProperties
<1> QED
  BY <1>2, FramesElements

\* What the kinds of frames are found at.
LEMMA OfElements ==
    ASSUME NEW s \in Seq(Frames), NEW k
    PROVE  /\ \A i : i \in Of(s, k) <=> i \in 1 .. Len(s) /\ s[i].kind = k
           /\ \A i : i \in Ends(s) <=>
                /\ i \in 1 .. Len(s) /\ s[i].kind = "Record"
                /\ s[i].part = FramesIn(s[i].record)
           /\ Of(s, k) \in SUBSET (1 .. Len(s)) /\ Ends(s) \in SUBSET (1 .. Len(s))
  BY FramesElements DEF Of, Ends

----------------------------------------------------------------------------
(* Counting indices                                                         *)

\* How many indices a set has, and how many of them come before one.
LEMMA Counted ==
    ASSUME NEW n \in Nat, NEW E \in SUBSET (1 .. n)
    PROVE  /\ IsFiniteSet(E) /\ Cardinality(E) \in Nat
           /\ E = {} <=> Cardinality(E) = 0
           /\ \A i :
                /\ Before(E, i) \in SUBSET (1 .. n)
                /\ Cardinality(Before(E, i)) \in Nat
                /\ Cardinality(Before(E, i)) <= Cardinality(E)
           /\ \A i \in Int : i > n => Before(E, i) = E
           /\ \A i, j \in Int : i <= j =>
                Cardinality(Before(E, i)) <= Cardinality(Before(E, j))
           /\ \A i \in E : Cardinality(Before(E, i)) < Cardinality(E)
           /\ \A i \in E, j \in Int : i < j =>
                Cardinality(Before(E, i)) < Cardinality(Before(E, j))
<1>1. \A F \in SUBSET (1 .. n) : IsFiniteSet(F) /\ Cardinality(F) \in Nat
  <2>1. IsFiniteSet(1 .. n)
    BY FS_Interval
  <2> QED
    BY <2>1, FS_Subset, FS_CardinalityType
<1>2. \A i : Before(E, i) \in SUBSET (1 .. n) /\ Before(E, i) \in SUBSET E
  BY DEF Before
<1>3. ASSUME NEW i \in Int, i > n
      PROVE  Before(E, i) = E
  <2>1. \A j \in E : j < i
    BY <1>3
  <2> QED
    BY <2>1 DEF Before
<1>4. ASSUME NEW F \in SUBSET (1 .. n), NEW G \in SUBSET F
      PROVE  Cardinality(G) <= Cardinality(F) /\ (G # F => Cardinality(G) < Cardinality(F))
  <2>1. IsFiniteSet(F) /\ Cardinality(F) \in Nat /\ Cardinality(G) \in Nat
    BY <1>1
  <2>2. Cardinality(G) <= Cardinality(F) /\ (Cardinality(F) = Cardinality(G) => F = G)
    BY <2>1, FS_Subset
  <2> QED
    BY <2>1, <2>2
<1>5. ASSUME NEW i \in Int, NEW j \in Int, i <= j
      PROVE  Before(E, i) \in SUBSET Before(E, j)
  <2>1. \A k \in E : k < i => k < j
    BY <1>5
  <2> QED
    BY <2>1 DEF Before
<1>6. \A i \in E : i \notin Before(E, i) /\ i \in Int
  BY DEF Before
<1>7. \A i \in E, j \in Int : i < j => i \in Before(E, j)
  BY DEF Before
<1>8. E = {} <=> Cardinality(E) = 0
  BY <1>1, FS_EmptySet
<1>9. ASSUME NEW i
      PROVE  Cardinality(Before(E, i)) <= Cardinality(E) /\ Cardinality(Before(E, i)) \in Nat
  BY <1>1, <1>2, <1>4
<1>10. \A i, j \in Int : i <= j => Cardinality(Before(E, i)) <= Cardinality(Before(E, j))
  BY <1>2, <1>4, <1>5
<1>11. \A i \in E : Cardinality(Before(E, i)) < Cardinality(E)
  BY <1>2, <1>4, <1>6
<1>12. ASSUME NEW i \in E, NEW j \in Int, i < j
       PROVE  Cardinality(Before(E, i)) < Cardinality(Before(E, j))
  <2>1. i \in Int /\ Before(E, i) \in SUBSET Before(E, j) /\ Before(E, i) # Before(E, j)
    BY <1>5, <1>6, <1>7, <1>12
  <2> QED
    BY <1>2, <1>4, <2>1
<1> QED
  BY <1>1, <1>2, <1>3, <1>8, <1>9, <1>10, <1>11, <1>12

\* Every rank is taken once.
LEMMA Ranks ==
    ASSUME NEW n \in Nat, NEW E \in SUBSET (1 .. n)
    PROVE  /\ \A m \in 1 .. Cardinality(E) : \E i \in E : Cardinality(Before(E, i)) = m - 1
           /\ \A i, j \in E : Cardinality(Before(E, i)) = Cardinality(Before(E, j)) => i = j
           /\ \A i, j \in E : i < j <=> Cardinality(Before(E, i)) < Cardinality(Before(E, j))
<1>1. /\ IsFiniteSet(E) /\ Cardinality(E) \in Nat
      /\ \A i \in E : i \in Int /\ Cardinality(Before(E, i)) \in Nat
                      /\ Cardinality(Before(E, i)) < Cardinality(E)
      /\ \A i, j \in E : i < j => Cardinality(Before(E, i)) < Cardinality(Before(E, j))
  BY Counted
<1>2. \A i, j \in E : Cardinality(Before(E, i)) = Cardinality(Before(E, j)) => i = j
  <2> SUFFICES ASSUME NEW i \in E, NEW j \in E,
                      Cardinality(Before(E, i)) = Cardinality(Before(E, j))
               PROVE  i = j
    OBVIOUS
  <2>1. ~(i < j) /\ ~(j < i)
    BY <1>1
  <2> QED
    BY <1>1, <2>1
<1>3. \A i, j \in E : i < j <=> Cardinality(Before(E, i)) < Cardinality(Before(E, j))
  <2> SUFFICES ASSUME NEW i \in E, NEW j \in E,
                      Cardinality(Before(E, i)) < Cardinality(Before(E, j))
               PROVE  i < j
    BY <1>1
  <2>1. ~(j < i) /\ i # j
    BY <1>1
  <2> QED
    BY <1>1, <2>1
<1>4. ASSUME NEW m \in 1 .. Cardinality(E)
      PROVE  \E i \in E : Cardinality(Before(E, i)) = m - 1
  <2> DEFINE T == 1 .. Cardinality(E)
             rank == [i \in E |-> Cardinality(Before(E, i)) + 1]
  <2>1. IsFiniteSet(T) /\ Cardinality(T) = Cardinality(E)
    BY <1>1, FS_Interval
  <2>2. rank \in [E -> T]
    BY <1>1
  <2>3. rank \in Injection(E, T)
    <3>1. \A i, j \in E : rank[i] = rank[j] => i = j
      BY <1>1, <1>2
    <3> QED
      BY <2>2, <3>1, Zenon DEF Injection, IsInjective
  <2>4. rank \in Surjection(E, T)
    BY <2>1, <2>3, FS_Injection
  <2>5. PICK i \in E : rank[i] = m
    BY <2>4 DEF Surjection
  <2> QED
    BY <1>1, <2>5
<1> QED
  BY <1>2, <1>3, <1>4

\* As many have a rank below m.
LEMMA RankedBelow ==
    ASSUME NEW n \in Nat, NEW E \in SUBSET (1 .. n), NEW m \in 0 .. Cardinality(E)
    PROVE  Cardinality({i \in E : Cardinality(Before(E, i)) < m}) = m
<1>1. Cardinality(E) \in Nat
  BY Counted
<1>2. CASE m = Cardinality(E)
  <2>1. {i \in E : Cardinality(Before(E, i)) < m} = E
    BY <1>2, Counted
  <2> QED
    BY <1>2, <2>1
<1>3. CASE m # Cardinality(E)
  <2>1. PICK l \in 1 .. Cardinality(E) : l = m + 1
    BY <1>1, <1>3
  <2>2. PICK k \in E : Cardinality(Before(E, k)) = l - 1
    BY <2>1, Ranks
  <2>3. Cardinality(Before(E, k)) = m
    BY <2>1, <2>2
  <2>4. \A i \in E : Cardinality(Before(E, i)) < m <=> i < k
    BY <2>3, Ranks
  <2>5. {i \in E : Cardinality(Before(E, i)) < m} = Before(E, k)
    BY <2>4 DEF Before
  <2> QED
    BY <2>3, <2>5
<1> QED
  BY <1>2, <1>3

----------------------------------------------------------------------------
(* Sequences that begin alike                                               *)

\* The first n frames of two sequences are the same.
Alike(s, t, n) == n <= Len(s) /\ n <= Len(t) /\ \A i \in 1 .. n : s[i] = t[i]

\* They count the same frames up to there.
LEMMA SharedCounts ==
    ASSUME NEW s \in Seq(Frames), NEW t \in Seq(Frames), NEW n \in Nat, Alike(s, t, n)
    PROVE  \A i \in 1 .. n + 1 :
             /\ Before(Ends(s), i) = Before(Ends(t), i)
             /\ \A k : Before(Of(s, k), i) = Before(Of(t, k), i)
<1> SUFFICES ASSUME NEW i \in 1 .. n + 1
             PROVE  /\ Before(Ends(s), i) = Before(Ends(t), i)
                    /\ \A k : Before(Of(s, k), i) = Before(Of(t, k), i)
  OBVIOUS
<1>1. /\ Len(s) \in Nat /\ Len(t) \in Nat /\ n <= Len(s) /\ n <= Len(t)
      /\ \A j \in 1 .. n : s[j] = t[j]
  BY FramesElements DEF Alike
<1>2. \A j \in Int : j < i => (j \in 1 .. Len(s) <=> j \in 1 .. n) /\ (j \in 1 .. Len(t) <=> j \in 1 .. n)
  BY <1>1
<1>3. \A j : j \in Before(Ends(s), i) <=> j \in Before(Ends(t), i)
  <2>1. \A j : j \in Before(Ends(s), i) <=>
           j \in 1 .. n /\ j < i /\ s[j].kind = "Record" /\ s[j].part = FramesIn(s[j].record)
    BY <1>1, <1>2, OfElements DEF Before
  <2>2. \A j : j \in Before(Ends(t), i) <=>
           j \in 1 .. n /\ j < i /\ t[j].kind = "Record" /\ t[j].part = FramesIn(t[j].record)
    BY <1>1, <1>2, OfElements DEF Before
  <2> QED
    BY <1>1, <2>1, <2>2
<1>4. ASSUME NEW k
      PROVE  Before(Of(s, k), i) = Before(Of(t, k), i)
  <2>1. \A j : j \in Before(Of(s, k), i) <=> j \in 1 .. n /\ j < i /\ s[j].kind = k
    BY <1>1, <1>2, OfElements DEF Before
  <2>2. \A j : j \in Before(Of(t, k), i) <=> j \in 1 .. n /\ j < i /\ t[j].kind = k
    BY <1>1, <1>2, OfElements DEF Before
  <2>3. \A j : j \in Before(Of(s, k), i) <=> j \in Before(Of(t, k), i)
    BY <1>1, <2>1, <2>2
  <2> QED
    BY <2>3
<1>5. \A k : Before(Of(s, k), i) = Before(Of(t, k), i)
  BY <1>4
<1>6. Before(Ends(s), i) = Before(Ends(t), i)
  BY <1>3
<1> QED
  BY <1>5, <1>6

\* So each of the first frames is as sound in one as in the other.
LEMMA SharedSound ==
    ASSUME NEW f \in Files, NEW s \in Seq(Frames), NEW t \in Seq(Frames), NEW n \in Nat,
           Alike(s, t, n), NEW i \in 1 .. n, SoundAt(f, s, i)
    PROVE  SoundAt(f, t, i)
<1>1. /\ Len(s) \in Nat /\ Len(t) \in Nat /\ n <= Len(s) /\ n <= Len(t)
      /\ \A j \in 1 .. n : s[j] = t[j]
  BY FramesElements DEF Alike
<1>2. /\ Before(Ends(s), i) = Before(Ends(t), i)
      /\ \A k : Before(Of(s, k), i) = Before(Of(t, k), i)
  BY <1>1, SharedCounts
<1>3. s[i] = t[i] /\ (i > 1 => s[i - 1] = t[i - 1])
  <2>1. i > 1 => i - 1 \in 1 .. n
    OBVIOUS
  <2> QED
    BY <1>1, <2>1
<1>4. \A k : \A j \in Before(Of(t, k), i) : s[j] = t[j]
  BY <1>1, OfElements DEF Before
<1>5. \A j \in Before(Ends(t), i) : s[j] = t[j]
  BY <1>1, OfElements DEF Before
<1>6. GroupAt(t, i)
  BY <1>3 DEF SoundAt, GroupAt
<1>7. PositionAt(f, t, i) /\ EpochAt(f, t, i) /\ OwnerAt(f, t, i)
  BY <1>2, <1>3 DEF SoundAt, PositionAt, EpochAt, OwnerAt
<1>8. CommitAt(t, i)
  BY <1>2, <1>3, <1>4 DEF SoundAt, CommitAt
<1>9. MarkerAt(f, t, i)
  BY <1>2, <1>3, <1>4, <1>5 DEF SoundAt, MarkerAt
<1> QED
  BY <1>6, <1>7, <1>8, <1>9 DEF SoundAt

\* A sequence is sound when each of its frames is.
LEMMA SoundLocally ==
    ASSUME NEW f \in Files, NEW s \in Seq(Frames)
    PROVE  Sound(f, s) <=> \A i \in 1 .. Len(s) : SoundAt(f, s, i)
<1>1. /\ Len(s) \in Nat /\ \A i \in 1 .. Len(s) : s[i] \in Frames
      /\ \A k : \A i : i \in Of(s, k) <=> i \in 1 .. Len(s) /\ s[i].kind = k
  BY FramesElements, OfElements
<1>2. ASSUME Sound(f, s), NEW i \in 1 .. Len(s)
      PROVE  SoundAt(f, s, i)
  <2>1. s[i].kind = "Record" => i \in Of(s, "Record")
    BY <1>1
  <2>2. GroupAt(s, i)
    <3>1. (s[i].kind = "Record" /\ s[i].part > 1) =>
             (i > 1 /\ s[i - 1] = RecordFrame(s[i].record, s[i].part - 1))
      BY <1>2, <2>1 DEF Sound, GroupsContiguous
    <3>2. ASSUME i > 1, s[i - 1].kind = "Record", s[i - 1].part < FramesIn(s[i - 1].record)
          PROVE  s[i] = RecordFrame(s[i - 1].record, s[i - 1].part + 1)
      <4>1. i - 1 \in Of(s, "Record") /\ i - 1 < Len(s) /\ (i - 1) + 1 = i
        BY <1>1, <3>2
      <4>2. \A l \in Of(s, "Record") :
               s[l].part < FramesIn(s[l].record) /\ l < Len(s)
                  => s[l + 1] = RecordFrame(s[l].record, s[l].part + 1)
        BY <1>2 DEF Sound, GroupsContiguous
      <4>3. s[(i - 1) + 1] = RecordFrame(s[i - 1].record, s[i - 1].part + 1)
        BY <3>2, <4>1, <4>2
      <4> QED
        BY <4>1, <4>3
    <3> QED
      BY <3>1, <3>2 DEF GroupAt
  <2>3. PositionAt(f, s, i)
    BY <1>2, <2>1 DEF Sound, PositionsContiguous, PositionAt
  <2>4. EpochAt(f, s, i)
    BY <1>1, <1>2 DEF Sound, EpochsContiguous, EpochAt
  <2>5. OwnerAt(f, s, i)
    BY <1>2, <2>1 DEF Sound, OwnersAllocated, OwnerAt
  <2>6. CommitAt(s, i)
    <3> SUFFICES ASSUME s[i].kind = "Record", s[i].record.kind = "Commit",
                        NEW j \in Before(Of(s, "Record"), i),
                        s[j].record.kind = "Commit", s[j].record.by = s[i].record.by
                 PROVE  FALSE
      BY DEF CommitAt
    <3>1. j \in Of(s, "Record") /\ j < i
      BY DEF Before
    <3>2. j = i
      BY <1>2, <2>1, <3>1 DEF Sound, CommitsOnce
    <3> QED
      BY <3>1, <3>2
  <2>7. MarkerAt(f, s, i)
    BY <1>1, <1>2 DEF Sound, MarkersAdvance, MarkerAt
  <2> QED
    BY <2>2, <2>3, <2>4, <2>5, <2>6, <2>7 DEF SoundAt
<1>3. ASSUME \A i \in 1 .. Len(s) : SoundAt(f, s, i)
      PROVE  Sound(f, s)
  <2>1. GroupsContiguous(s)
    <3> SUFFICES ASSUME NEW i \in Of(s, "Record")
                 PROVE  /\ s[i].part > 1 => i > 1 /\ s[i - 1] = RecordFrame(s[i].record, s[i].part - 1)
                        /\ (s[i].part < FramesIn(s[i].record) /\ i < Len(s)) =>
                              s[i + 1] = RecordFrame(s[i].record, s[i].part + 1)
      BY DEF GroupsContiguous
    <3>1. i \in 1 .. Len(s) /\ s[i].kind = "Record" /\ GroupAt(s, i)
      BY <1>1, <1>3 DEF SoundAt
    <3>2. s[i].part > 1 => i > 1 /\ s[i - 1] = RecordFrame(s[i].record, s[i].part - 1)
      BY <3>1 DEF GroupAt
    <3>3. ASSUME s[i].part < FramesIn(s[i].record), i < Len(s)
          PROVE  s[i + 1] = RecordFrame(s[i].record, s[i].part + 1)
      <4>1. PICK l \in 1 .. Len(s) : l = i + 1
        BY <1>1, <3>1, <3>3
      <4>2. GroupAt(s, l) /\ l > 1 /\ l - 1 = i
        BY <1>3, <3>1, <4>1 DEF SoundAt
      <4>3. s[l] = RecordFrame(s[i].record, s[i].part + 1)
        BY <3>1, <3>3, <4>2 DEF GroupAt
      <4> QED
        BY <4>1, <4>3
    <3> QED
      BY <3>2, <3>3
  <2>2. PositionsContiguous(f, s)
    BY <1>1, <1>3 DEF SoundAt, PositionsContiguous, PositionAt
  <2>3. EpochsContiguous(f, s)
    BY <1>1, <1>3 DEF SoundAt, EpochsContiguous, EpochAt
  <2>4. OwnersAllocated(f, s)
    BY <1>1, <1>3 DEF SoundAt, OwnersAllocated, OwnerAt
  <2>5. CommitsOnce(s)
    <3> SUFFICES ASSUME NEW i \in Of(s, "Record"), NEW j \in Of(s, "Record"),
                        s[i].record.kind = "Commit", s[j].record.kind = "Commit",
                        s[i].record.by = s[j].record.by
                 PROVE  i = j
      BY DEF CommitsOnce
    <3>1. i \in 1 .. Len(s) /\ j \in 1 .. Len(s) /\ s[i].kind = "Record" /\ s[j].kind = "Record"
      BY <1>1
    <3>2. CommitAt(s, i) /\ CommitAt(s, j)
      BY <1>3, <3>1 DEF SoundAt
    <3>3. ~(j < i)
      BY <3>1, <3>2 DEF CommitAt, Before
    <3>4. ~(i < j)
      BY <3>1, <3>2 DEF CommitAt, Before
    <3> QED
      BY <3>1, <3>3, <3>4
  <2>6. MarkersAdvance(f, s)
    BY <1>1, <1>3 DEF SoundAt, MarkersAdvance, MarkerAt
  <2> QED
    BY <2>1, <2>2, <2>3, <2>4, <2>5, <2>6 DEF Sound
<1> QED
  BY <1>2, <1>3

\* More frames are sound at the end of a sound sequence when each of them is.
LEMMA SoundGrows ==
    ASSUME NEW f \in Files, NEW s \in Seq(Frames), NEW t \in Seq(Frames), Sound(f, s),
           Alike(s, t, Len(s)), \A i \in Len(s) + 1 .. Len(t) : SoundAt(f, t, i)
    PROVE  Sound(f, t)
<1>1. Len(s) \in Nat /\ Len(t) \in Nat /\ Len(s) <= Len(t)
  BY FramesElements DEF Alike
<1>2. \A i \in 1 .. Len(s) : SoundAt(f, s, i)
  BY SoundLocally
<1>3. \A i \in 1 .. Len(s) : SoundAt(f, t, i)
  BY <1>1, <1>2, SharedSound
<1>4. \A i \in 1 .. Len(t) : SoundAt(f, t, i)
  BY <1>1, <1>3
<1> QED
  BY <1>4, SoundLocally

----------------------------------------------------------------------------
(* What a sound sequence of frames says                                     *)

\* The numbers of a header.
LEMMA HeaderNumbers ==
    ASSUME NEW f \in Files
    PROVE  /\ f.generation \in Nat /\ f.first \in Nat /\ f.highWater \in Nat
           /\ f.epoch \in Nat /\ f.frames \in Seq(Frames) /\ f.synced \in Nat
           /\ CompletedBefore(f) \in Nat /\ DurableBefore(f) \in Nat
           /\ f.first # 0 => CompletedBefore(f) = f.first - 1 /\ DurableBefore(f) = 0
           /\ f.first = 0 => CompletedBefore(f) = f.highWater /\ DurableBefore(f) = f.highWater
           /\ DurableBefore(f) <= CompletedBefore(f)
           /\ DurableBefore(f) # CompletedBefore(f) => DurableBefore(f) = 0
<1>1. /\ f.generation \in Nat /\ f.first \in Nat /\ f.highWater \in Nat
      /\ f.epoch \in Nat /\ f.frames \in Seq(Frames) /\ f.synced \in Nat
  BY DEF Files
<1> QED
  BY <1>1 DEF CompletedBefore, DurableBefore

\* The numbers of a sequence of frames.
LEMMA FrameNumbers ==
    ASSUME NEW f \in Files, NEW s \in Seq(Frames)
    PROVE  /\ Cardinality(Ends(s)) \in Nat /\ IsFiniteSet(Ends(s))
           /\ LastCompleted(f, s) = CompletedBefore(f) + Cardinality(Ends(s))
           /\ LastCompleted(f, s) \in Nat
           /\ AllocatedEpoch(f, s) = f.epoch + Cardinality(Of(s, "EpochAllocation"))
           /\ AllocatedEpoch(f, s) \in Nat
           /\ \A i :
                /\ Cardinality(Before(Ends(s), i)) \in Nat
                /\ Cardinality(Before(Ends(s), i)) <= Cardinality(Ends(s))
                /\ Cardinality(Before(Of(s, "EpochAllocation"), i)) \in Nat
                /\ f.epoch + Cardinality(Before(Of(s, "EpochAllocation"), i)) <= AllocatedEpoch(f, s)
<1>1. /\ Len(s) \in Nat /\ Ends(s) \in SUBSET (1 .. Len(s))
      /\ Of(s, "EpochAllocation") \in SUBSET (1 .. Len(s))
  BY FramesElements, OfElements
<1>2. /\ IsFiniteSet(Ends(s)) /\ Cardinality(Ends(s)) \in Nat
      /\ \A i : /\ Cardinality(Before(Ends(s), i)) \in Nat
                /\ Cardinality(Before(Ends(s), i)) <= Cardinality(Ends(s))
  BY <1>1, Counted
<1> DEFINE O == Of(s, "EpochAllocation")
<1>3. /\ Cardinality(O) \in Nat
      /\ \A i : /\ Cardinality(Before(O, i)) \in Nat
                /\ Cardinality(Before(O, i)) <= Cardinality(O)
  <2>1. O \in SUBSET (1 .. Len(s))
    BY <1>1
  <2> HIDE DEF O
  <2> QED
    BY <1>1, <2>1, Counted
<1>4. CompletedBefore(f) \in Nat /\ f.epoch \in Nat
  BY HeaderNumbers
<1>5. AllocatedEpoch(f, s) = f.epoch + Cardinality(O)
  BY DEF AllocatedEpoch
<1> HIDE DEF O
<1>6. AllocatedEpoch(f, s) \in Nat
  BY <1>3, <1>4, <1>5
<1>7. ASSUME NEW i
      PROVE  f.epoch + Cardinality(Before(O, i)) <= AllocatedEpoch(f, s)
  <2>1. Cardinality(Before(O, i)) \in Nat /\ Cardinality(Before(O, i)) <= Cardinality(O)
    BY <1>3
  <2> QED
    BY <1>3, <1>4, <1>5, <2>1
<1>8. LastCompleted(f, s) = CompletedBefore(f) + Cardinality(Ends(s)) /\ LastCompleted(f, s) \in Nat
  BY <1>2, <1>4 DEF LastCompleted
<1> QED
  BY <1>2, <1>3, <1>5, <1>6, <1>7, <1>8 DEF O

\* The ends of the records stand in the order of their positions, without a gap.
LEMMA Positioned ==
    ASSUME NEW f \in Files, NEW s \in Seq(Frames), Sound(f, s)
    PROVE  /\ \A i \in Ends(s) :
                /\ s[i].record \in LogRecords
                /\ s[i].record.at = CompletedBefore(f) + Cardinality(Before(Ends(s), i)) + 1
                /\ s[i].record.at \in CompletedBefore(f) + 1 .. LastCompleted(f, s)
           /\ \A i, j \in Ends(s) : s[i].record.at = s[j].record.at => i = j
           /\ \A i, j \in Ends(s) : i < j <=> s[i].record.at < s[j].record.at
           /\ \A n \in 1 .. Cardinality(Ends(s)) :
                \E i \in Ends(s) : s[i].record.at = CompletedBefore(f) + n
<1> DEFINE E == Ends(s)  CB == CompletedBefore(f)
           rank(i) == Cardinality(Before(E, i))
<1>1. /\ Len(s) \in Nat /\ E \in SUBSET (1 .. Len(s)) /\ Cardinality(E) \in Nat
      /\ CB \in Nat /\ LastCompleted(f, s) = CB + Cardinality(E)
  BY FramesElements, OfElements, HeaderNumbers, FrameNumbers
<1>2. \A i \in E : i \in Of(s, "Record") /\ s[i].record \in LogRecords
  BY FramesElements, OfElements, FrameKinds
<1>3. \A i \in E : s[i].record.at = CB + rank(i) + 1
  BY <1>2 DEF Sound, PositionsContiguous
<1> HIDE DEF E, CB
<1>4. /\ \A i \in E : rank(i) \in Nat /\ rank(i) < Cardinality(E)
      /\ \A i, j \in E : rank(i) = rank(j) => i = j
      /\ \A i, j \in E : i < j <=> rank(i) < rank(j)
      /\ \A m \in 1 .. Cardinality(E) : \E i \in E : rank(i) = m - 1
  <2>1. \A i \in E : rank(i) \in Nat /\ rank(i) < Cardinality(E)
    <3>1. /\ \A i : Cardinality(Before(E, i)) \in Nat
          /\ \A i \in E : Cardinality(Before(E, i)) < Cardinality(E)
      BY <1>1, Counted
    <3> QED
      BY <3>1
  <2> QED
    BY <1>1, <2>1, Ranks
<1> HIDE DEF rank
<1>5. \A i \in E : s[i].record.at \in CB + 1 .. LastCompleted(f, s)
  BY <1>1, <1>3, <1>4
<1>6. \A i, j \in E : s[i].record.at = s[j].record.at => i = j
  BY <1>1, <1>3, <1>4
<1>7. \A i, j \in E : i < j <=> s[i].record.at < s[j].record.at
  BY <1>1, <1>3, <1>4
<1>8. ASSUME NEW n \in 1 .. Cardinality(E)
      PROVE  \E i \in E : s[i].record.at = CB + n
  <2>1. PICK i \in E : rank(i) = n - 1
    BY <1>4
  <2> QED
    BY <1>1, <1>3, <2>1
<1> QED
  BY <1>2, <1>3, <1>5, <1>6, <1>7, <1>8 DEF E, CB, rank

\* The last durable position is that of the last marker, or of the header.
LEMMA DurablePositions ==
    ASSUME NEW f \in Files, NEW s \in Seq(Frames), Sound(f, s)
    PROVE  /\ LastDurable(f, s) \in DurableBefore(f) .. LastCompleted(f, s)
           /\ LastDurable(f, s) \in Nat
           /\ \/ LastDurable(f, s) = DurableBefore(f)
              \/ \E i \in Of(s, "DurableThrough") : s[i].value = LastDurable(f, s)
           /\ \A i \in Of(s, "DurableThrough") :
                s[i].value \in Nat /\ s[i].value <= LastDurable(f, s)
<1> DEFINE M == {s[i].value : i \in Of(s, "DurableThrough")}
           S == {DurableBefore(f)} \cup M
<1>1. /\ LastCompleted(f, s) \in Nat /\ DurableBefore(f) \in Nat
      /\ LastCompleted(f, s) = CompletedBefore(f) + Cardinality(Ends(s))
      /\ DurableBefore(f) <= CompletedBefore(f) /\ Cardinality(Ends(s)) \in Nat
      /\ CompletedBefore(f) \in Nat
  BY HeaderNumbers, FrameNumbers
<1>2. ASSUME NEW i \in Of(s, "DurableThrough")
      PROVE  s[i].value \in DurableBefore(f) + 1 .. LastCompleted(f, s)
  <2>1. s[i].value > DurableBefore(f)
    BY DEF Sound, MarkersAdvance
  <2>2. PICK j \in Before(Ends(s), i) : s[j].record.at = s[i].value
    BY DEF Sound, MarkersAdvance
  <2>3. s[j].record.at \in CompletedBefore(f) + 1 .. LastCompleted(f, s)
    BY <2>2, Positioned DEF Before
  <2> QED
    BY <1>1, <2>1, <2>2, <2>3
<1>3. S \in SUBSET (0 .. LastCompleted(f, s)) /\ S # {}
  <2>1. \A q \in M : q \in 0 .. LastCompleted(f, s)
    BY <1>1, <1>2
  <2>2. DurableBefore(f) \in 0 .. LastCompleted(f, s)
    BY <1>1
  <2> QED
    BY <2>1, <2>2
<1>4. LastDurable(f, s) = Latest(S)
  BY DEF LastDurable
<1>5. DurableBefore(f) \in S /\ \A i \in Of(s, "DurableThrough") : s[i].value \in S
  OBVIOUS
<1>6. \A q \in S : q = DurableBefore(f) \/ \E i \in Of(s, "DurableThrough") : s[i].value = q
  OBVIOUS
<1> HIDE DEF S, M
<1>7. Latest(S) \in S /\ \A q \in S : q <= Latest(S)
  BY <1>1, <1>3, LatestIsLast DEF IsLatest
<1>8. LastDurable(f, s) \in 0 .. LastCompleted(f, s) /\ DurableBefore(f) <= LastDurable(f, s)
  BY <1>3, <1>4, <1>5, <1>7
<1>9. \A i \in Of(s, "DurableThrough") : s[i].value \in Nat /\ s[i].value <= LastDurable(f, s)
  BY <1>1, <1>2, <1>4, <1>5, <1>7
<1> QED
  BY <1>1, <1>4, <1>6, <1>7, <1>8, <1>9

\* Only one position is the last durable one.
LEMMA DurableIs ==
    ASSUME NEW f \in Files, NEW s \in Seq(Frames), Sound(f, s), NEW d \in Nat,
           DurableBefore(f) <= d,
           d = DurableBefore(f) \/ \E i \in Of(s, "DurableThrough") : s[i].value = d,
           \A i \in Of(s, "DurableThrough") : s[i].value <= d
    PROVE  LastDurable(f, s) = d
<1>1. d <= LastDurable(f, s)
  BY DurablePositions, HeaderNumbers
<1>2. LastDurable(f, s) <= d
  BY DurablePositions, HeaderNumbers
<1> QED
  BY <1>1, <1>2, DurablePositions

\* The durable records are the first ones.
LEMMA DurableCount ==
    ASSUME NEW f \in Files, NEW s \in Seq(Frames), Sound(f, s)
    PROVE  /\ LastDurable(f, s) > CompletedBefore(f) =>
                DurableLen(f, s) = LastDurable(f, s) - CompletedBefore(f)
           /\ LastDurable(f, s) <= CompletedBefore(f) => DurableLen(f, s) = 0
           /\ DurableLen(f, s) \in 0 .. Cardinality(Ends(s))
           /\ \A n \in 1 .. Cardinality(Ends(s)) :
                n <= DurableLen(f, s) <=> CompletedBefore(f) + n <= LastDurable(f, s)
<1> DEFINE E == Ends(s)  CB == CompletedBefore(f)  last == LastDurable(f, s)
           m == IF last > CB THEN last - CB ELSE 0
<1>1. /\ Len(s) \in Nat /\ E \in SUBSET (1 .. Len(s)) /\ Cardinality(E) \in Nat
      /\ CB \in Nat /\ LastCompleted(f, s) = CB + Cardinality(E)
  BY FramesElements, OfElements, HeaderNumbers, FrameNumbers
<1>2. last \in Nat /\ last <= CB + Cardinality(E)
  BY <1>1, DurablePositions, HeaderNumbers
<1>3. m \in 0 .. Cardinality(E)
  BY <1>1, <1>2
<1>4. \A i \in E : Cardinality(Before(E, i)) \in Nat
  BY FrameNumbers
<1>5. \A i \in E : s[i].record.at = CB + Cardinality(Before(E, i)) + 1
  BY Positioned
<1>6. DurableLen(f, s) = Cardinality({i \in E : s[i].record.at <= last})
  BY DEF DurableLen
<1> HIDE DEF E, CB, last
<1>7. \A i \in E : s[i].record.at <= last <=> Cardinality(Before(E, i)) < m
  BY <1>1, <1>2, <1>4, <1>5
<1> HIDE DEF m
<1>8. {i \in E : s[i].record.at <= last} = {i \in E : Cardinality(Before(E, i)) < m}
  BY <1>7
<1>9. DurableLen(f, s) = m
  BY <1>1, <1>3, <1>6, <1>8, RankedBelow
<1> USE DEF m
<1> QED
  BY <1>1, <1>2, <1>3, <1>9 DEF E, CB, last

\* The records are those of the ends, each at its position.
LEMMA RecordsRead ==
    ASSUME NEW f \in Files, NEW s \in Seq(Frames), Sound(f, s)
    PROVE  /\ Records(s) \in Seq(LogRecords) /\ Len(Records(s)) = Cardinality(Ends(s))
           /\ \A n \in 1 .. Len(Records(s)) :
                /\ Records(s)[n].at = CompletedBefore(f) + n
                /\ \E i \in Ends(s) : Records(s)[n] = s[i].record
           /\ \A i \in Ends(s) :
                /\ s[i].record.at - CompletedBefore(f) \in 1 .. Len(Records(s))
                /\ Records(s)[s[i].record.at - CompletedBefore(f)] = s[i].record
<1> DEFINE E == Ends(s)  CB == CompletedBefore(f)
<1>1. /\ Len(s) \in Nat /\ E \in SUBSET (1 .. Len(s)) /\ Cardinality(E) \in Nat /\ CB \in Nat
      /\ LastCompleted(f, s) = CB + Cardinality(E)
  BY FramesElements, OfElements, HeaderNumbers, FrameNumbers
<1>2. /\ \A i \in E : Cardinality(Before(E, i)) \in Nat
      /\ \A i \in E : s[i].record \in LogRecords
                      /\ s[i].record.at = CB + Cardinality(Before(E, i)) + 1
                      /\ s[i].record.at \in CB + 1 .. LastCompleted(f, s)
  BY FrameNumbers, Positioned
<1>3. \A n \in 1 .. Cardinality(E) : NthEnd(s, n) \in E /\ Cardinality(Before(E, NthEnd(s, n))) = n - 1
  <2> SUFFICES ASSUME NEW n \in 1 .. Cardinality(E)
               PROVE  NthEnd(s, n) \in E /\ Cardinality(Before(E, NthEnd(s, n))) = n - 1
    OBVIOUS
  <2>1. NthEnd(s, n) = CHOOSE i \in E : Cardinality(Before(E, i)) = n - 1
    BY DEF NthEnd
  <2> HIDE DEF E
  <2>2. \E i \in E : Cardinality(Before(E, i)) = n - 1
    BY <1>1, Ranks
  <2> QED
    BY <2>1, <2>2
<1>4. Records(s) = [n \in 1 .. Cardinality(E) |-> s[NthEnd(s, n)].record]
  BY DEF Records
<1> HIDE DEF E, CB
<1>5. Records(s) \in [1 .. Cardinality(E) -> LogRecords]
  BY <1>2, <1>3, <1>4
<1>6. Records(s) \in Seq(LogRecords) /\ Len(Records(s)) = Cardinality(E)
  BY <1>1, <1>4, <1>5, SeqDef, LenProperties
<1>7. \A n \in 1 .. Cardinality(E) : Records(s)[n] = s[NthEnd(s, n)].record
  BY <1>4
<1>8. ASSUME NEW n \in 1 .. Cardinality(E)
      PROVE  Records(s)[n].at = CB + n
  <2>1. Records(s)[n].at = CB + (n - 1) + 1
    BY <1>2, <1>3, <1>7
  <2> QED
    BY <1>1, <2>1
<1>9. ASSUME NEW i \in E
      PROVE  /\ s[i].record.at - CB \in 1 .. Cardinality(E)
             /\ Records(s)[s[i].record.at - CB] = s[i].record
  <2>1. PICK n \in Nat : n = s[i].record.at - CB /\ n \in 1 .. Cardinality(E)
                         /\ n - 1 = Cardinality(Before(E, i))
    BY <1>1, <1>2
  <2>2. NthEnd(s, n) \in E /\ Cardinality(Before(E, NthEnd(s, n))) = Cardinality(Before(E, i))
    BY <1>3, <2>1
  <2>3. NthEnd(s, n) = i
    BY <1>1, <2>2, Ranks
  <2> QED
    BY <1>7, <2>1, <2>3
<1> QED
  BY <1>3, <1>6, <1>7, <1>8, <1>9 DEF E, CB

\* Nothing else is the sequence of the records.
LEMMA RecordsAre ==
    ASSUME NEW f \in Files, NEW s \in Seq(Frames), Sound(f, s),
           NEW q \in Seq(LogRecords), Len(q) = Cardinality(Ends(s)),
           \A i \in Ends(s) : q[s[i].record.at - CompletedBefore(f)] = s[i].record
    PROVE  Records(s) = q
<1>1. /\ Records(s) \in Seq(LogRecords) /\ Len(Records(s)) = Len(q)
      /\ CompletedBefore(f) \in Nat /\ Len(q) \in Nat
  BY RecordsRead, HeaderNumbers, LenProperties
<1>2. ASSUME NEW n \in 1 .. Len(q)
      PROVE  Records(s)[n] = q[n]
  <2>1. PICK i \in Ends(s) : Records(s)[n] = s[i].record
    BY <1>1, RecordsRead
  <2>2. Records(s)[n].at = CompletedBefore(f) + n
    BY <1>1, RecordsRead
  <2>3. s[i].record.at - CompletedBefore(f) = n
    BY <1>1, <2>1, <2>2
  <2> QED
    BY <2>1, <2>3
<1> QED
  BY <1>1, <1>2, SeqEqual

\* When the header is met, in numbers.
LEMMA HeaderMetIs ==
    ASSUME NEW f \in Files, NEW s \in Seq(Frames), Sound(f, s)
    PROVE  HeaderMet(f, s) <=>
              /\ LastCompleted(f, s) >= f.highWater
              /\ LastDurable(f, s) >= f.highWater
              /\ f.first # 0 => DurableLen(f, s) > 0
<1>1. ASSUME f.first # 0, DurableLen(f, s) > 0
      PROVE  Head(Records(s)).at = f.first
  <2>1. /\ Records(s) \in Seq(LogRecords) /\ Len(Records(s)) = Cardinality(Ends(s))
        /\ DurableLen(f, s) \in 0 .. Cardinality(Ends(s)) /\ Cardinality(Ends(s)) \in Nat
    BY RecordsRead, DurableCount, FrameNumbers
  <2>2. 1 \in 1 .. Len(Records(s))
    BY <1>1, <2>1
  <2>3. Records(s)[1].at = CompletedBefore(f) + 1
    BY <2>2, RecordsRead
  <2>4. Head(Records(s)) = Records(s)[1]
    BY <2>1, <2>2, HeadTailProperties, EmptySeq
  <2>5. CompletedBefore(f) + 1 = f.first
    BY <1>1, HeaderNumbers
  <2> QED
    BY <2>3, <2>4, <2>5
<1> QED
  BY <1>1 DEF HeaderMet

\* What a beginning of a sound sequence says of it.
LEMMA PrefixNumbers ==
    ASSUME NEW f \in Files, NEW s \in Seq(Frames), NEW t \in Seq(Frames),
           Alike(s, t, Len(s)), Sound(f, t)
    PROVE  /\ Sound(f, s)
           /\ Ends(s) \in SUBSET Ends(t)
           /\ \A k : Of(s, k) \in SUBSET Of(t, k)
           /\ LastCompleted(f, s) <= LastCompleted(f, t)
           /\ LastDurable(f, s) <= LastDurable(f, t)
           /\ AllocatedEpoch(f, s) <= AllocatedEpoch(f, t)
           /\ Len(Records(s)) <= Len(Records(t))
           /\ \A n \in 1 .. Len(Records(s)) : Records(s)[n] = Records(t)[n]
           /\ DurableLen(f, s) <= DurableLen(f, t)
           /\ HeaderMet(f, s) => HeaderMet(f, t)
<1>1. /\ Len(s) \in Nat /\ Len(t) \in Nat /\ Len(s) <= Len(t)
      /\ \A i \in 1 .. Len(s) : t[i] = s[i]
      /\ Alike(t, s, Len(s))
  BY FramesElements DEF Alike
<1>2. Sound(f, s)
  <2>1. \A i \in 1 .. Len(s) : SoundAt(f, t, i)
    BY <1>1, SoundLocally
  <2>2. \A i \in 1 .. Len(s) : SoundAt(f, s, i)
    BY <1>1, <2>1, SharedSound
  <2> QED
    BY <2>2, SoundLocally
<1>3. Ends(s) \in SUBSET Ends(t) /\ \A i \in Ends(s) : t[i] = s[i]
  <2>1. ASSUME NEW i \in Ends(s)
        PROVE  i \in Ends(t) /\ t[i] = s[i]
    <3>1. i \in 1 .. Len(s) /\ s[i].kind = "Record" /\ s[i].part = FramesIn(s[i].record)
      BY OfElements
    <3>2. i \in 1 .. Len(t) /\ t[i] = s[i]
      BY <1>1, <3>1
    <3> QED
      BY <3>1, <3>2, OfElements
  <2> QED
    BY <2>1
<1>4. ASSUME NEW k
      PROVE  Of(s, k) \in SUBSET Of(t, k) /\ \A i \in Of(s, k) : t[i] = s[i]
  <2>1. ASSUME NEW i \in Of(s, k)
        PROVE  i \in Of(t, k) /\ t[i] = s[i]
    <3>1. i \in 1 .. Len(s) /\ s[i].kind = k
      BY OfElements
    <3>2. i \in 1 .. Len(t) /\ t[i] = s[i]
      BY <1>1, <3>1
    <3> QED
      BY <3>1, <3>2, OfElements
  <2> QED
    BY <2>1
<1>5. /\ IsFiniteSet(Ends(t)) /\ Cardinality(Ends(s)) \in Nat /\ Cardinality(Ends(t)) \in Nat
      /\ Cardinality(Ends(s)) <= Cardinality(Ends(t))
  BY <1>3, FrameNumbers, FS_Subset
<1>6. /\ Cardinality(Of(s, "EpochAllocation")) \in Nat
      /\ Cardinality(Of(t, "EpochAllocation")) \in Nat
      /\ Cardinality(Of(s, "EpochAllocation")) <= Cardinality(Of(t, "EpochAllocation"))
  <2>1. /\ Of(t, "EpochAllocation") \in SUBSET (1 .. Len(t))
        /\ Of(s, "EpochAllocation") \in SUBSET (1 .. Len(s))
        /\ Of(s, "EpochAllocation") \in SUBSET Of(t, "EpochAllocation")
    BY <1>4, OfElements
  <2>2. IsFiniteSet(1 .. Len(t)) /\ IsFiniteSet(1 .. Len(s))
    BY <1>1, FS_Interval
  <2>3. IsFiniteSet(Of(t, "EpochAllocation")) /\ IsFiniteSet(Of(s, "EpochAllocation"))
    BY <2>1, <2>2, FS_Subset
  <2> QED
    BY <2>1, <2>3, FS_Subset, FS_CardinalityType
<1>7. LastCompleted(f, s) <= LastCompleted(f, t) /\ AllocatedEpoch(f, s) <= AllocatedEpoch(f, t)
  BY <1>5, <1>6, HeaderNumbers DEF LastCompleted, AllocatedEpoch
<1>8. LastDurable(f, s) <= LastDurable(f, t)
  <2>1. CASE LastDurable(f, s) = DurableBefore(f)
    BY <2>1, DurablePositions, HeaderNumbers
  <2>2. CASE \E i \in Of(s, "DurableThrough") : s[i].value = LastDurable(f, s)
    <3>1. PICK i \in Of(s, "DurableThrough") : s[i].value = LastDurable(f, s)
      BY <2>2
    <3>2. i \in Of(t, "DurableThrough") /\ t[i] = s[i]
      BY <1>4
    <3> QED
      BY <3>1, <3>2, DurablePositions
  <2> QED
    BY <1>2, <2>1, <2>2, DurablePositions
<1>9. /\ Records(s) \in Seq(LogRecords) /\ Len(Records(s)) = Cardinality(Ends(s))
      /\ Records(t) \in Seq(LogRecords) /\ Len(Records(t)) = Cardinality(Ends(t))
      /\ Len(Records(s)) \in Nat /\ Len(Records(t)) \in Nat
      /\ Len(Records(s)) <= Len(Records(t))
  BY <1>2, <1>5, RecordsRead
<1>10. ASSUME NEW n \in 1 .. Len(Records(s))
       PROVE  Records(s)[n] = Records(t)[n]
  <2>1. PICK i \in Ends(s) : Records(s)[n] = s[i].record
    BY <1>2, RecordsRead
  <2>2. Records(s)[n].at = CompletedBefore(f) + n
    BY <1>2, RecordsRead
  <2>3. i \in Ends(t) /\ t[i].record = s[i].record
    BY <1>3
  <2>4. Records(t)[t[i].record.at - CompletedBefore(f)] = t[i].record
    BY <2>3, RecordsRead
  <2>5. t[i].record.at - CompletedBefore(f) = n
    BY <2>1, <2>2, <2>3, HeaderNumbers
  <2> QED
    BY <2>1, <2>3, <2>4, <2>5
<1>11. DurableLen(f, s) <= DurableLen(f, t)
  <2>1. /\ LastDurable(f, s) \in Nat /\ LastDurable(f, t) \in Nat /\ CompletedBefore(f) \in Nat
        /\ DurableLen(f, t) \in Nat
    BY <1>2, DurablePositions, HeaderNumbers, DurableCount
  <2>2. CASE LastDurable(f, s) <= CompletedBefore(f)
    <3>1. DurableLen(f, s) = 0
      BY <1>2, <2>2, DurableCount
    <3> QED
      BY <2>1, <3>1
  <2>3. CASE LastDurable(f, s) > CompletedBefore(f)
    <3>1. DurableLen(f, s) = LastDurable(f, s) - CompletedBefore(f)
      BY <1>2, <2>3, DurableCount
    <3>2. LastDurable(f, t) > CompletedBefore(f)
      BY <1>8, <2>1, <2>3
    <3>3. DurableLen(f, t) = LastDurable(f, t) - CompletedBefore(f)
      BY <3>2, DurableCount
    <3> QED
      BY <1>8, <2>1, <3>1, <3>3
  <2> QED
    BY <2>1, <2>2, <2>3
<1>12. HeaderMet(f, s) => HeaderMet(f, t)
  <2>1. /\ LastDurable(f, s) \in Nat /\ LastDurable(f, t) \in Nat
        /\ LastCompleted(f, s) \in Nat /\ LastCompleted(f, t) \in Nat
        /\ DurableLen(f, s) \in Nat /\ DurableLen(f, t) \in Nat /\ f.highWater \in Nat
    BY <1>2, DurablePositions, HeaderNumbers, FrameNumbers, DurableCount
  <2> QED
    BY <1>2, <1>7, <1>8, <1>11, <2>1, HeaderMetIs
<1> QED
  BY <1>2, <1>3, <1>4, <1>7, <1>8, <1>9, <1>10, <1>11, <1>12

----------------------------------------------------------------------------
(* Files with the same header                                               *)

SameHeader(f, g) ==
    /\ g.generation = f.generation /\ g.first = f.first
    /\ g.highWater = f.highWater /\ g.epoch = f.epoch

\* What is computed of frames depends on the header of their file only.
LEMMA HeaderOnly ==
    ASSUME NEW f, NEW g, SameHeader(f, g)
    PROVE  \A s : /\ CompletedBefore(g) = CompletedBefore(f)
                  /\ LastCompleted(g, s) = LastCompleted(f, s)
                  /\ LastDurable(g, s) = LastDurable(f, s)
                  /\ DurableLen(g, s) = DurableLen(f, s)
                  /\ AllocatedEpoch(g, s) = AllocatedEpoch(f, s)
                  /\ Sound(g, s) <=> Sound(f, s)
                  /\ HeaderMet(g, s) <=> HeaderMet(f, s)
<1> SUFFICES ASSUME NEW s
             PROVE  /\ CompletedBefore(g) = CompletedBefore(f)
                    /\ LastCompleted(g, s) = LastCompleted(f, s)
                    /\ LastDurable(g, s) = LastDurable(f, s)
                    /\ DurableLen(g, s) = DurableLen(f, s)
                    /\ AllocatedEpoch(g, s) = AllocatedEpoch(f, s)
                    /\ Sound(g, s) <=> Sound(f, s)
                    /\ HeaderMet(g, s) <=> HeaderMet(f, s)
  OBVIOUS
<1>1. /\ g.first = f.first /\ g.highWater = f.highWater /\ g.epoch = f.epoch
  BY DEF SameHeader
<1>2. CompletedBefore(g) = CompletedBefore(f) /\ DurableBefore(g) = DurableBefore(f)
  BY <1>1 DEF CompletedBefore, DurableBefore
<1>3. LastCompleted(g, s) = LastCompleted(f, s)
  BY <1>2 DEF LastCompleted
<1>4. LastDurable(g, s) = LastDurable(f, s)
  BY <1>2 DEF LastDurable
<1>5. DurableLen(g, s) = DurableLen(f, s)
  BY <1>4 DEF DurableLen
<1>6. AllocatedEpoch(g, s) = AllocatedEpoch(f, s)
  BY <1>1 DEF AllocatedEpoch
<1>7. Sound(g, s) <=> Sound(f, s)
  <2>1. PositionsContiguous(g, s) <=> PositionsContiguous(f, s)
    BY <1>2 DEF PositionsContiguous
  <2>2. EpochsContiguous(g, s) <=> EpochsContiguous(f, s)
    BY <1>1 DEF EpochsContiguous
  <2>3. OwnersAllocated(g, s) <=> OwnersAllocated(f, s)
    BY <1>1 DEF OwnersAllocated
  <2>4. MarkersAdvance(g, s) <=> MarkersAdvance(f, s)
    BY <1>2 DEF MarkersAdvance
  <2> QED
    BY <2>1, <2>2, <2>3, <2>4 DEF Sound
<1>8. HeaderMet(g, s) <=> HeaderMet(f, s)
  BY <1>1, <1>3, <1>4, <1>5 DEF HeaderMet
<1> QED
  BY <1>2, <1>3, <1>4, <1>5, <1>6, <1>7, <1>8

----------------------------------------------------------------------------
(* What is appended to a file                                               *)

\* The end of a sequence that no page group is open at.
LEMMA NothingPendingThere ==
    ASSUME NEW s \in Seq(Frames)
    PROVE  /\ PendingLen(s) = 0 /\ Len(s) > 0 /\ s[Len(s)].kind = "Record" =>
                s[Len(s)].part = FramesIn(s[Len(s)].record)
           /\ Len(s) = 0 => PendingLen(s) = 0
           /\ Len(s) > 0 /\ s[Len(s)].kind # "Record" => PendingLen(s) = 0
           /\ Len(s) > 0 /\ s[Len(s)].kind = "Record" =>
                IF s[Len(s)].part < FramesIn(s[Len(s)].record)
                THEN PendingLen(s) = s[Len(s)].part ELSE PendingLen(s) = 0
<1>1. Len(s) \in Nat /\ (Len(s) = 0 <=> s = <<>>)
  BY FramesElements, EmptySeq
<1>2. CASE Len(s) = 0
  BY <1>1, <1>2 DEF PendingLen
<1>3. CASE Len(s) > 0 /\ s[Len(s)].kind # "Record"
  BY <1>1, <1>3 DEF PendingLen
<1>4. CASE Len(s) > 0 /\ s[Len(s)].kind = "Record"
  <2> DEFINE last == s[Len(s)]
  <2>1. /\ last.part \in Nat \ {0} /\ FramesIn(last.record) \in Nat
        /\ last.part <= FramesIn(last.record)
    <3>1. last \in Frames /\ last.kind = "Record"
      BY <1>1, <1>4, FramesElements
    <3> HIDE DEF last
    <3>2. last.record \in LogRecords /\ last.part \in 1 .. FramesIn(last.record)
      BY <3>1, FrameKinds
    <3>3. FramesIn(last.record) \in Nat
      BY <3>2, FramesInType
    <3> QED
      BY <3>2, <3>3
  <2>2. PendingLen(s) = IF last.part < FramesIn(last.record) THEN last.part ELSE 0
    BY <1>1, <1>4 DEF PendingLen
  <2> QED
    BY <1>4, <2>1, <2>2
<1> QED
  BY <1>1, <1>2, <1>3, <1>4

\* The frames of each kind, when a sequence grows.
LEMMA GrownKinds ==
    ASSUME NEW s \in Seq(Frames), NEW t \in Seq(Frames), Alike(s, t, Len(s))
    PROVE  /\ \A k, i : i \in Of(t, k) <=>
                i \in Of(s, k) \/ (i \in Len(s) + 1 .. Len(t) /\ t[i].kind = k)
           /\ \A i : i \in Ends(t) <=>
                i \in Ends(s) \/ (i \in Len(s) + 1 .. Len(t) /\ t[i].kind = "Record"
                                    /\ t[i].part = FramesIn(t[i].record))
           /\ \A i \in Ends(s) : i \in 1 .. Len(s) /\ t[i] = s[i]
           /\ \A k : \A i \in Of(s, k) : i \in 1 .. Len(s) /\ t[i] = s[i]
           /\ Before(Ends(t), Len(s) + 1) = Ends(s)
           /\ \A k : Before(Of(t, k), Len(s) + 1) = Of(s, k)
<1>1. /\ Len(s) \in Nat /\ Len(t) \in Nat /\ Len(s) <= Len(t)
      /\ \A i \in 1 .. Len(s) : t[i] = s[i]
  BY FramesElements DEF Alike
<1>2. \A i : i \in 1 .. Len(t) <=> i \in 1 .. Len(s) \/ i \in Len(s) + 1 .. Len(t)
  BY <1>1
<1>3. ASSUME NEW k, NEW i
      PROVE  i \in Of(t, k) <=> i \in Of(s, k) \/ (i \in Len(s) + 1 .. Len(t) /\ t[i].kind = k)
  <2>1. i \in Of(t, k) <=> i \in 1 .. Len(t) /\ t[i].kind = k
    BY OfElements
  <2>2. i \in Of(s, k) <=> i \in 1 .. Len(s) /\ s[i].kind = k
    BY OfElements
  <2>3. i \in 1 .. Len(s) => t[i] = s[i]
    BY <1>1
  <2> QED
    BY <1>2, <2>1, <2>2, <2>3
<1>4. ASSUME NEW i
      PROVE  i \in Ends(t) <=>
                i \in Ends(s) \/ (i \in Len(s) + 1 .. Len(t) /\ t[i].kind = "Record"
                                    /\ t[i].part = FramesIn(t[i].record))
  <2>1. i \in Ends(t) <=> i \in 1 .. Len(t) /\ t[i].kind = "Record" /\ t[i].part = FramesIn(t[i].record)
    BY OfElements
  <2>2. i \in Ends(s) <=> i \in 1 .. Len(s) /\ s[i].kind = "Record" /\ s[i].part = FramesIn(s[i].record)
    BY OfElements
  <2>3. i \in 1 .. Len(s) => t[i] = s[i]
    BY <1>1
  <2> QED
    BY <1>2, <2>1, <2>2, <2>3
<1>5. \A i \in Ends(s) : i \in 1 .. Len(s) /\ t[i] = s[i]
  BY <1>1, OfElements
<1>6. ASSUME NEW k, NEW i \in Of(s, k) PROVE i \in 1 .. Len(s) /\ t[i] = s[i]
  BY <1>1, OfElements
<1>7. /\ Len(s) + 1 \in 1 .. Len(s) + 1
      /\ \A E \in SUBSET (1 .. Len(s)) : Before(E, Len(s) + 1) = E
  <2>1. Len(s) + 1 \in Int /\ Len(s) + 1 > Len(s) /\ Len(s) + 1 \in 1 .. Len(s) + 1
    BY <1>1
  <2>2. ASSUME NEW E \in SUBSET (1 .. Len(s)) PROVE Before(E, Len(s) + 1) = E
    <3>1. \A i \in Int : i > Len(s) => Before(E, i) = E
      BY <1>1, Counted
    <3> QED
      BY <2>1, <3>1
  <2> QED
    BY <2>1, <2>2
<1>8. Before(Ends(t), Len(s) + 1) = Ends(s)
  <2>1. Before(Ends(s), Len(s) + 1) = Before(Ends(t), Len(s) + 1)
    BY <1>1, <1>7, SharedCounts
  <2>2. Before(Ends(s), Len(s) + 1) = Ends(s)
    BY <1>7, OfElements
  <2> QED
    BY <2>1, <2>2
<1>9. ASSUME NEW k PROVE Before(Of(t, k), Len(s) + 1) = Of(s, k)
  <2>1. Before(Of(s, k), Len(s) + 1) = Before(Of(t, k), Len(s) + 1)
    BY <1>1, <1>7, SharedCounts
  <2>2. Of(s, k) \in SUBSET (1 .. Len(s))
    BY OfElements
  <2>3. Before(Of(s, k), Len(s) + 1) = Of(s, k)
    BY <1>7, <2>2
  <2> QED
    BY <2>1, <2>3
<1> QED
  BY <1>1, <1>3, <1>4, <1>5, <1>6, <1>8, <1>9

\* The frames t are s with the first n frames of the record r.
Begun(s, r, n, t) ==
    /\ Len(t) = Len(s) + n
    /\ \A i \in 1 .. Len(s) : t[i] = s[i]
    /\ \A m \in 1 .. n : t[Len(s) + m] = RecordFrame(r, m)


\* The first n frames of a group, which no other frame comes before the end of.
LEMMA GroupSound ==
    ASSUME NEW f \in Files, NEW s \in Seq(Frames), Sound(f, s), PendingLen(s) = 0,
           NEW r \in LogRecords, r.at = LastCompleted(f, s) + 1, r.by <= AllocatedEpoch(f, s),
           r.kind = "Commit" => CommitFrames(s, r.by) = {},
           NEW n \in 0 .. FramesIn(r), NEW t \in Seq(Frames), Begun(s, r, n, t)
    PROVE  /\ Sound(f, t)
           /\ \A i \in Len(s) + 1 .. Len(t) :
                t[i].kind = "Record" /\ t[i].record = r /\ t[i].part = i - Len(s)
<1> USE DEF Begun
<1>1. /\ Len(s) \in Nat /\ Len(t) \in Nat /\ FramesIn(r) \in Nat \ {0} /\ n \in Nat
      /\ r.kind = "Commit" => FramesIn(r) = 1
      /\ r.by \in Nat /\ n <= FramesIn(r) /\ Len(t) = Len(s) + n
  BY FramesElements, FramesInType
<1>2. ASSUME NEW i \in Len(s) + 1 .. Len(t)
      PROVE  /\ i - Len(s) \in 1 .. n /\ t[i] = RecordFrame(r, i - Len(s))
             /\ t[i].kind = "Record" /\ t[i].record = r /\ t[i].part = i - Len(s)
  <2>1. PICK m \in 1 .. n : m = i - Len(s)
    <3>1. i - Len(s) \in 1 .. n
      BY <1>1
    <3> QED
      BY <3>1
  <2>2. i = Len(s) + m /\ m \in 1 .. FramesIn(r)
    BY <1>1, <2>1
  <2>3. t[i] = RecordFrame(r, m)
    BY <2>2
  <2>4. RecordFrame(r, m).kind = "Record" /\ RecordFrame(r, m).record = r
        /\ RecordFrame(r, m).part = m
    BY <2>2, FramesMade
  <2> QED
    BY <2>1, <2>2, <2>3, <2>4
<1>3. Alike(s, t, Len(s))
  BY <1>1 DEF Alike
<1>4. ASSUME NEW i \in Len(s) + 1 .. Len(t)
      PROVE  /\ Before(Ends(t), i) = Ends(s)
             /\ Before(Of(t, "EpochAllocation"), i) = Of(s, "EpochAllocation")
  <2>1. \A j : j \in Ends(t) /\ j < i => j \in Ends(s)
    <3> SUFFICES ASSUME NEW j \in Ends(t), j < i, j \notin Ends(s) PROVE FALSE
      OBVIOUS
    <3>1. j \in Len(s) + 1 .. Len(t) /\ t[j].part = FramesIn(t[j].record)
      BY <1>1, <1>3, GrownKinds
    <3>2. j - Len(s) = FramesIn(r) /\ i - Len(s) <= n
      BY <1>2, <3>1
    <3> QED
      BY <1>1, <3>1, <3>2
  <2>2. \A j \in Ends(s) : j \in Ends(t) /\ j < i
    BY <1>1, <1>3, GrownKinds
  <2>3. \A j : j \in Of(t, "EpochAllocation") => j \in Of(s, "EpochAllocation")
    <3>1. \A j \in Len(s) + 1 .. Len(t) : t[j].kind # "EpochAllocation"
      BY <1>2
    <3>2. ASSUME NEW j \in Of(t, "EpochAllocation")
          PROVE  j \in Of(s, "EpochAllocation")
      <4>1. j \in Of(s, "EpochAllocation")
            \/ (j \in Len(s) + 1 .. Len(t) /\ t[j].kind = "EpochAllocation")
        BY <1>3, GrownKinds
      <4> QED
        BY <3>1, <4>1
    <3> QED
      BY <3>2
  <2>4. \A j \in Of(s, "EpochAllocation") : j \in Of(t, "EpochAllocation") /\ j < i
    BY <1>1, <1>3, GrownKinds
  <2>5. Before(Ends(t), i) = Ends(s)
    BY <2>1, <2>2 DEF Before
  <2>6. Before(Of(t, "EpochAllocation"), i) = Of(s, "EpochAllocation")
    BY <2>3, <2>4 DEF Before
  <2> QED
    BY <2>5, <2>6
<1>5. ASSUME NEW i \in Len(s) + 1 .. Len(t)
      PROVE  SoundAt(f, t, i)
  <2>1. /\ t[i] = RecordFrame(r, i - Len(s)) /\ t[i].kind = "Record" /\ t[i].record = r
        /\ t[i].part = i - Len(s) /\ i - Len(s) \in 1 .. n
    BY <1>2
  <2>2. GroupAt(t, i)
    <3>1. CASE i = Len(s) + 1
      <4>1. ~(t[i].part > 1)
        BY <1>1, <2>1, <3>1
      <4>2. ASSUME i > 1, t[i - 1].kind = "Record", t[i - 1].part < FramesIn(t[i - 1].record)
            PROVE  FALSE
        <5>1. i - 1 = Len(s) /\ Len(s) > 0 /\ Len(s) \in 1 .. Len(s)
          BY <1>1, <3>1, <4>2
        <5>2. t[i - 1] = s[Len(s)]
          BY <5>1
        <5>3. s[Len(s)].part = FramesIn(s[Len(s)].record)
          BY <4>2, <5>1, <5>2, NothingPendingThere
        <5>4. FramesIn(s[Len(s)].record) \in Nat
          BY <4>2, <5>1, <5>2, FramesElements, FrameKinds, FramesInType
        <5> QED
          BY <4>2, <5>2, <5>3, <5>4
      <4> QED
        BY <4>1, <4>2 DEF GroupAt
    <3>2. CASE i # Len(s) + 1
      <4>1. PICK j \in Len(s) + 1 .. Len(t) : j = i - 1
        BY <1>1, <3>2
      <4>2. t[j] = RecordFrame(r, j - Len(s)) /\ t[j].record = r /\ t[j].part = j - Len(s)
        BY <1>2
      <4>3. i > 1 /\ (i - Len(s)) - 1 = j - Len(s) /\ (j - Len(s)) + 1 = i - Len(s)
        BY <1>1, <4>1
      <4> QED
        BY <2>1, <4>1, <4>2, <4>3 DEF GroupAt
    <3> QED
      BY <3>1, <3>2
  <2>3. PositionAt(f, t, i)
    <3>1. r.at = CompletedBefore(f) + Cardinality(Ends(s)) + 1
      BY DEF LastCompleted
    <3> QED
      BY <1>4, <2>1, <3>1 DEF PositionAt
  <2>4. OwnerAt(f, t, i)
    BY <1>4, <2>1 DEF OwnerAt, AllocatedEpoch
  <2>5. CommitAt(t, i)
    <3> SUFFICES ASSUME r.kind = "Commit", NEW j \in Before(Of(t, "Record"), i),
                        t[j].record.kind = "Commit", t[j].record.by = r.by
                 PROVE  FALSE
      BY <2>1 DEF CommitAt
    <3>1. i = Len(s) + 1
      BY <1>1, <2>1
    <3>2. j \in Of(s, "Record")
      BY <1>1, <3>1, <1>3, GrownKinds
    <3>3. t[j] = s[j]
      BY <1>1, <3>2, <1>3, GrownKinds
    <3>4. j \in CommitFrames(s, r.by)
      BY <3>2, <3>3 DEF CommitFrames
    <3> QED
      BY <3>4
  <2>6. EpochAt(f, t, i) /\ MarkerAt(f, t, i)
    BY <2>1 DEF EpochAt, MarkerAt
  <2> QED
    BY <2>2, <2>3, <2>4, <2>5, <2>6 DEF SoundAt
<1> QED
  BY <1>2, <1>3, <1>5, SoundGrows

\* It says what the file said before, and the record once it is complete.
LEMMA GroupGrows ==
    ASSUME NEW f \in Files, NEW s \in Seq(Frames), Sound(f, s), PendingLen(s) = 0,
           NEW r \in LogRecords, r.at = LastCompleted(f, s) + 1, r.by <= AllocatedEpoch(f, s),
           r.kind = "Commit" => CommitFrames(s, r.by) = {},
           NEW n \in 0 .. FramesIn(r), NEW t \in Seq(Frames), Begun(s, r, n, t)
    PROVE  /\ Sound(f, t)
           /\ AllocatedEpoch(f, t) = AllocatedEpoch(f, s)
           /\ LastDurable(f, t) = LastDurable(f, s)
           /\ DurableLen(f, t) = DurableLen(f, s)
           /\ n < FramesIn(r) => LastCompleted(f, t) = LastCompleted(f, s)
                                 /\ Records(t) = Records(s)
           /\ n = FramesIn(r) => /\ LastCompleted(f, t) = LastCompleted(f, s) + 1
                                 /\ Records(t) = Append(Records(s), r)
                                 /\ PendingLen(t) = 0
           /\ \A by : CommitFrames(t, by) # {} =>
                CommitFrames(s, by) # {} \/ (r.kind = "Commit" /\ r.by = by)
           /\ \A k : k # "Record" => Of(t, k) = Of(s, k)
<1> USE DEF Begun
<1>1. /\ Len(s) \in Nat /\ Len(t) \in Nat /\ FramesIn(r) \in Nat \ {0} /\ n \in Nat
      /\ n <= FramesIn(r) /\ Len(t) = Len(s) + n /\ Alike(s, t, Len(s))
  BY FramesElements, FramesInType DEF Alike
<1>2. /\ Sound(f, t)
      /\ \A i \in Len(s) + 1 .. Len(t) :
            t[i].kind = "Record" /\ t[i].record = r /\ t[i].part = i - Len(s)
  BY GroupSound
<1>3. ASSUME NEW k, k # "Record"
      PROVE  Of(t, k) = Of(s, k)
  <2>1. \A i : i \in Of(t, k) <=> i \in Of(s, k)
    BY <1>1, <1>2, <1>3, GrownKinds
  <2> QED
    BY <2>1
<1>4. AllocatedEpoch(f, t) = AllocatedEpoch(f, s)
  BY <1>3 DEF AllocatedEpoch
<1>5. LastDurable(f, t) = LastDurable(f, s)
  <2>1. Of(t, "DurableThrough") = Of(s, "DurableThrough")
    BY <1>3
  <2>2. \A i \in Of(s, "DurableThrough") : t[i] = s[i]
    BY <1>1, GrownKinds
  <2>3. {t[i].value : i \in Of(t, "DurableThrough")} = {s[i].value : i \in Of(s, "DurableThrough")}
    BY <2>1, <2>2
  <2> QED
    BY <2>3 DEF LastDurable
<1>6. DurableLen(f, t) = DurableLen(f, s)
  BY <1>2, <1>5, DurableCount, DurablePositions, HeaderNumbers
<1>7. \A by : CommitFrames(t, by) # {} =>
                CommitFrames(s, by) # {} \/ (r.kind = "Commit" /\ r.by = by)
  <2> SUFFICES ASSUME NEW by, NEW i \in CommitFrames(t, by)
               PROVE  CommitFrames(s, by) # {} \/ (r.kind = "Commit" /\ r.by = by)
    OBVIOUS
  <2>1. i \in Of(t, "Record") /\ t[i].record.kind = "Commit" /\ t[i].record.by = by
    BY DEF CommitFrames
  <2>2. CASE i \in Of(s, "Record")
    <3>1. t[i] = s[i]
      BY <1>1, <2>2, GrownKinds
    <3>2. i \in CommitFrames(s, by)
      BY <2>1, <2>2, <3>1 DEF CommitFrames
    <3> QED
      BY <3>2
  <2>3. CASE i \notin Of(s, "Record")
    <3>1. i \in Len(s) + 1 .. Len(t)
      BY <1>1, <2>1, <2>3, GrownKinds
    <3> QED
      BY <1>2, <2>1, <3>1
  <2> QED
    BY <2>2, <2>3
<1>8. CASE n < FramesIn(r)
  <2>1. Ends(t) = Ends(s)
    <3>1. \A i \in Len(s) + 1 .. Len(t) : t[i].part # FramesIn(t[i].record)
      BY <1>1, <1>2, <1>8
    <3>2. ASSUME NEW i PROVE i \in Ends(t) <=> i \in Ends(s)
      <4>1. i \in Ends(t) <=>
                i \in Ends(s) \/ (i \in Len(s) + 1 .. Len(t) /\ t[i].kind = "Record"
                                    /\ t[i].part = FramesIn(t[i].record))
        BY <1>1, GrownKinds
      <4> QED
        BY <3>1, <4>1
    <3> QED
      BY <3>2
  <2>2. LastCompleted(f, t) = LastCompleted(f, s)
    BY <2>1 DEF LastCompleted
  <2>3. Records(t) = Records(s)
    <3>1. /\ Records(s) \in Seq(LogRecords) /\ Len(Records(s)) = Cardinality(Ends(t))
          /\ \A i \in Ends(s) : Records(s)[s[i].record.at - CompletedBefore(f)] = s[i].record
      BY <2>1, RecordsRead
    <3>2. \A i \in Ends(t) : t[i] = s[i] /\ i \in Ends(s)
      BY <1>1, <2>1, GrownKinds
    <3>3. \A i \in Ends(t) : Records(s)[t[i].record.at - CompletedBefore(f)] = t[i].record
      BY <3>1, <3>2
    <3> QED
      BY <1>2, <3>1, <3>3, RecordsAre
  <2> QED
    BY <1>2, <1>3, <1>4, <1>5, <1>6, <1>7, <1>8, <2>2, <2>3
<1>9. CASE n = FramesIn(r)
  <2>1. Ends(t) = Ends(s) \cup {Len(t)} /\ Len(t) \notin Ends(s)
    <3>1. Len(t) \in Len(s) + 1 .. Len(t)
      BY <1>1, <1>9
    <3>2. \A i \in Len(s) + 1 .. Len(t) : t[i].part = FramesIn(t[i].record) <=> i = Len(t)
      BY <1>1, <1>2, <1>9
    <3>3. ASSUME NEW i PROVE i \in Ends(t) <=> i \in Ends(s) \/ i = Len(t)
      <4>1. i \in Ends(t) <=>
                i \in Ends(s) \/ (i \in Len(s) + 1 .. Len(t) /\ t[i].kind = "Record"
                                    /\ t[i].part = FramesIn(t[i].record))
        BY <1>1, GrownKinds
      <4> QED
        BY <1>2, <3>1, <3>2, <4>1
    <3>4. \A i \in Ends(s) : i \in 1 .. Len(s)
      BY OfElements
    <3> QED
      BY <1>1, <3>1, <3>3, <3>4
  <2>2. Cardinality(Ends(t)) = Cardinality(Ends(s)) + 1 /\ Cardinality(Ends(s)) \in Nat
    BY <2>1, FrameNumbers, FS_AddElement
  <2>3. LastCompleted(f, t) = LastCompleted(f, s) + 1
    BY <2>2, HeaderNumbers DEF LastCompleted
  <2>4. Records(t) = Append(Records(s), r)
    <3> DEFINE q == Append(Records(s), r)
    <3>1. /\ Records(s) \in Seq(LogRecords) /\ Len(Records(s)) = Cardinality(Ends(s))
          /\ \A i \in Ends(s) :
               /\ s[i].record.at - CompletedBefore(f) \in 1 .. Len(Records(s))
               /\ Records(s)[s[i].record.at - CompletedBefore(f)] = s[i].record
      BY RecordsRead
    <3>2. /\ q \in Seq(LogRecords) /\ Len(q) = Cardinality(Ends(t))
          /\ q[Cardinality(Ends(t))] = r
          /\ \A m \in 1 .. Len(Records(s)) : q[m] = Records(s)[m]
      BY <2>2, <3>1, AppendProperties
    <3> HIDE DEF q
    <3>3. ASSUME NEW i \in Ends(t)
          PROVE  q[t[i].record.at - CompletedBefore(f)] = t[i].record
      <4>1. CASE i \in Ends(s)
        <5>1. t[i] = s[i]
          BY <1>1, <4>1, GrownKinds
        <5> QED
          BY <3>1, <3>2, <4>1, <5>1
      <4>2. CASE i = Len(t)
        <5>1. i \in Len(s) + 1 .. Len(t)
          BY <1>1, <1>9, <4>2
        <5>2. t[i].record = r
          BY <1>2, <5>1
        <5>3. r.at - CompletedBefore(f) = Cardinality(Ends(t))
          BY <2>2, HeaderNumbers DEF LastCompleted
        <5> QED
          BY <3>2, <5>2, <5>3
      <4> QED
        BY <2>1, <4>1, <4>2
    <3> QED
      BY <1>2, <3>2, <3>3, RecordsAre DEF q
  <2>5. PendingLen(t) = 0
    <3>1. Len(t) > 0 /\ t[Len(t)].kind = "Record" /\ t[Len(t)].part = FramesIn(t[Len(t)].record)
      <4>1. Len(t) \in Len(s) + 1 .. Len(t)
        BY <1>1, <1>9
      <4> QED
        BY <1>1, <1>2, <1>9, <4>1
    <3>2. FramesIn(t[Len(t)].record) \in Nat
      BY <1>1, <3>1, FramesElements, FrameKinds, FramesInType
    <3>3. ~(t[Len(t)].part < FramesIn(t[Len(t)].record))
      BY <3>1, <3>2
    <3> HIDE DEF Begun
    <3> QED
      BY <3>1, <3>3, NothingPendingThere
  <2>6. ~(n < FramesIn(r))
    BY <1>1, <1>9
  <2> QED
    BY <1>2, <1>3, <1>4, <1>5, <1>6, <1>7, <2>3, <2>4, <2>5, <2>6
<1>10. n < FramesIn(r) \/ n = FramesIn(r)
  BY <1>1
<1> QED
  BY <1>8, <1>9, <1>10

\* A frame that is not part of a record, where no page group is open.
LEMMA SingleSound ==
    ASSUME NEW f \in Files, NEW s \in Seq(Frames), Sound(f, s), PendingLen(s) = 0,
           NEW t \in Seq(Frames), Len(t) = Len(s) + 1, Alike(s, t, Len(s)),
           t[Len(t)].kind # "Record",
           EpochAt(f, t, Len(t)), MarkerAt(f, t, Len(t))
    PROVE  /\ Sound(f, t) /\ PendingLen(t) = 0
           /\ Ends(t) = Ends(s) /\ LastCompleted(f, t) = LastCompleted(f, s)
           /\ Records(t) = Records(s)
           /\ \A by : CommitFrames(t, by) = CommitFrames(s, by)
           /\ \A k : t[Len(t)].kind # k => Of(t, k) = Of(s, k)
           /\ \A k : t[Len(t)].kind = k => Of(t, k) = Of(s, k) \cup {Len(t)} /\ Len(t) \notin Of(s, k)
<1>1. /\ Len(s) \in Nat /\ Len(t) \in Nat /\ Len(t) - 1 = Len(s) /\ Len(t) > 0
      /\ \A i : i \in Len(s) + 1 .. Len(t) <=> i = Len(t)
  BY FramesElements
<1>2. GroupAt(t, Len(t))
  <2>1. ASSUME Len(t) > 1, t[Len(t) - 1].kind = "Record",
               t[Len(t) - 1].part < FramesIn(t[Len(t) - 1].record)
        PROVE  FALSE
    <3>1. Len(s) \in 1 .. Len(s) /\ t[Len(s)] = s[Len(s)]
      BY <1>1, <2>1 DEF Alike
    <3>2. s[Len(s)].kind = "Record" /\ s[Len(s)].part < FramesIn(s[Len(s)].record)
      BY <1>1, <2>1, <3>1
    <3>3. s[Len(s)].part = FramesIn(s[Len(s)].record)
      BY <1>1, <3>1, <3>2, NothingPendingThere
    <3>4. FramesIn(s[Len(s)].record) \in Nat
      BY <3>1, <3>2, FramesElements, FrameKinds, FramesInType
    <3> QED
      BY <3>2, <3>3, <3>4
  <2> QED
    BY <2>1 DEF GroupAt
<1>3. SoundAt(f, t, Len(t))
  BY <1>2 DEF SoundAt, PositionAt, OwnerAt, CommitAt
<1>4. Sound(f, t)
  BY <1>1, <1>3, SoundGrows
<1>5. PendingLen(t) = 0
  BY <1>1, NothingPendingThere
<1>6. ASSUME NEW k, t[Len(t)].kind # k
      PROVE  Of(t, k) = Of(s, k)
  <2>1. ASSUME NEW i PROVE i \in Of(t, k) <=> i \in Of(s, k)
    <3>1. i \in Of(t, k) <=> i \in Of(s, k) \/ (i \in Len(s) + 1 .. Len(t) /\ t[i].kind = k)
      BY GrownKinds
    <3> QED
      BY <1>1, <1>6, <3>1
  <2> QED
    BY <2>1
<1>7. ASSUME NEW k, t[Len(t)].kind = k
      PROVE  Of(t, k) = Of(s, k) \cup {Len(t)} /\ Len(t) \notin Of(s, k)
  <2>1. ASSUME NEW i PROVE i \in Of(t, k) <=> i \in Of(s, k) \/ i = Len(t)
    <3>1. i \in Of(t, k) <=> i \in Of(s, k) \/ (i \in Len(s) + 1 .. Len(t) /\ t[i].kind = k)
      BY GrownKinds
    <3> QED
      BY <1>1, <1>7, <3>1
  <2>2. Len(t) \notin Of(s, k)
    BY <1>1, OfElements
  <2> QED
    BY <2>1, <2>2
<1>8. Ends(t) = Ends(s)
  <2>1. ASSUME NEW i PROVE i \in Ends(t) <=> i \in Ends(s)
    <3>1. i \in Ends(t) <=>
                i \in Ends(s) \/ (i \in Len(s) + 1 .. Len(t) /\ t[i].kind = "Record"
                                    /\ t[i].part = FramesIn(t[i].record))
      BY GrownKinds
    <3> QED
      BY <1>1, <3>1
  <2> QED
    BY <2>1
<1>9. LastCompleted(f, t) = LastCompleted(f, s)
  BY <1>8 DEF LastCompleted
<1>10. Records(t) = Records(s)
  <2>1. /\ Records(s) \in Seq(LogRecords) /\ Len(Records(s)) = Cardinality(Ends(t))
        /\ \A i \in Ends(s) : Records(s)[s[i].record.at - CompletedBefore(f)] = s[i].record
    BY <1>8, RecordsRead
  <2>2. \A i \in Ends(t) : t[i] = s[i] /\ i \in Ends(s)
    BY <1>8, GrownKinds
  <2>3. \A i \in Ends(t) : Records(s)[t[i].record.at - CompletedBefore(f)] = t[i].record
    BY <2>1, <2>2
  <2> QED
    BY <1>4, <2>1, <2>3, RecordsAre
<1>11. ASSUME NEW by PROVE CommitFrames(t, by) = CommitFrames(s, by)
  <2>1. Of(t, "Record") = Of(s, "Record")
    BY <1>6
  <2>2. \A i \in Of(s, "Record") : t[i] = s[i]
    BY GrownKinds
  <2> QED
    BY <2>1, <2>2 DEF CommitFrames
<1> QED
  BY <1>4, <1>5, <1>6, <1>7, <1>8, <1>9, <1>10, <1>11

\* The frame of the next epoch.
LEMMA EpochGrows ==
    ASSUME NEW f \in Files, NEW s \in Seq(Frames), Sound(f, s), PendingLen(s) = 0,
           NEW t \in Seq(Frames), Len(t) = Len(s) + 1, Alike(s, t, Len(s)),
           t[Len(t)] = EpochFrame(AllocatedEpoch(f, s) + 1)
    PROVE  /\ Sound(f, t) /\ PendingLen(t) = 0
           /\ LastCompleted(f, t) = LastCompleted(f, s)
           /\ Records(t) = Records(s)
           /\ LastDurable(f, t) = LastDurable(f, s)
           /\ DurableLen(f, t) = DurableLen(f, s)
           /\ AllocatedEpoch(f, t) = AllocatedEpoch(f, s) + 1
           /\ \A by : CommitFrames(t, by) = CommitFrames(s, by)
<1>1. /\ t[Len(t)].kind = "EpochAllocation" /\ t[Len(t)].value = AllocatedEpoch(f, s) + 1
      /\ AllocatedEpoch(f, s) \in Nat
  BY FrameNumbers, FramesMade
<1>2. Len(s) + 1 = Len(t) /\ Before(Of(t, "EpochAllocation"), Len(t)) = Of(s, "EpochAllocation")
  BY GrownKinds
<1>3. EpochAt(f, t, Len(t)) /\ MarkerAt(f, t, Len(t))
  BY <1>1, <1>2 DEF EpochAt, MarkerAt, AllocatedEpoch
<1>4. /\ Sound(f, t) /\ PendingLen(t) = 0
      /\ LastCompleted(f, t) = LastCompleted(f, s) /\ Records(t) = Records(s)
      /\ \A by : CommitFrames(t, by) = CommitFrames(s, by)
      /\ Of(t, "DurableThrough") = Of(s, "DurableThrough")
      /\ Of(t, "EpochAllocation") = Of(s, "EpochAllocation") \cup {Len(t)}
      /\ Len(t) \notin Of(s, "EpochAllocation")
  BY <1>1, <1>3, SingleSound
<1>5. AllocatedEpoch(f, t) = AllocatedEpoch(f, s) + 1
  <2>1. /\ Of(s, "EpochAllocation") \in SUBSET (1 .. Len(s)) /\ Len(s) \in Nat
    BY OfElements, FramesElements
  <2>2. IsFiniteSet(Of(s, "EpochAllocation"))
    BY <2>1, Counted
  <2>3. Cardinality(Of(t, "EpochAllocation")) = Cardinality(Of(s, "EpochAllocation")) + 1
    BY <1>4, <2>2, FS_AddElement
  <2>4. Cardinality(Of(s, "EpochAllocation")) \in Nat
    BY <2>2, FS_CardinalityType
  <2> QED
    BY <2>3, <2>4, HeaderNumbers DEF AllocatedEpoch
<1>6. LastDurable(f, t) = LastDurable(f, s)
  <2>1. \A i \in Of(s, "DurableThrough") : t[i] = s[i]
    BY GrownKinds
  <2>2. {t[i].value : i \in Of(t, "DurableThrough")} = {s[i].value : i \in Of(s, "DurableThrough")}
    BY <1>4, <2>1
  <2> QED
    BY <2>2 DEF LastDurable
<1>7. DurableLen(f, t) = DurableLen(f, s)
  BY <1>4, <1>6, DurableCount, DurablePositions, HeaderNumbers
<1> QED
  BY <1>4, <1>5, <1>6, <1>7

\* A marker above the last one, at a position that is completed.
LEMMA MarkerGrows ==
    ASSUME NEW f \in Files, NEW s \in Seq(Frames), Sound(f, s), PendingLen(s) = 0,
           NEW p \in CompletedBefore(f) + 1 .. LastCompleted(f, s), p > LastDurable(f, s),
           NEW t \in Seq(Frames), Len(t) = Len(s) + 1, Alike(s, t, Len(s)),
           t[Len(t)] = Marker(p)
    PROVE  /\ Sound(f, t) /\ PendingLen(t) = 0
           /\ LastCompleted(f, t) = LastCompleted(f, s)
           /\ Records(t) = Records(s)
           /\ LastDurable(f, t) = p
           /\ DurableLen(f, t) = p - CompletedBefore(f)
           /\ AllocatedEpoch(f, t) = AllocatedEpoch(f, s)
           /\ \A by : CommitFrames(t, by) = CommitFrames(s, by)
<1>1. /\ CompletedBefore(f) \in Nat /\ LastCompleted(f, s) \in Nat /\ p \in Nat
      /\ Cardinality(Ends(s)) \in Nat /\ LastDurable(f, s) \in Nat /\ DurableBefore(f) \in Nat
      /\ LastCompleted(f, s) = CompletedBefore(f) + Cardinality(Ends(s))
      /\ DurableBefore(f) <= CompletedBefore(f)
  BY HeaderNumbers, FrameNumbers, DurablePositions
<1>2. t[Len(t)].kind = "DurableThrough" /\ t[Len(t)].value = p
  BY <1>1, FramesMade
<1>3. /\ Len(s) + 1 = Len(t) /\ Before(Of(t, "DurableThrough"), Len(t)) = Of(s, "DurableThrough")
      /\ Before(Ends(t), Len(t)) = Ends(s)
      /\ \A i \in Of(s, "DurableThrough") : t[i] = s[i]
      /\ \A i \in Ends(s) : t[i] = s[i]
  BY GrownKinds
<1>4. \A i \in Of(s, "DurableThrough") : s[i].value < p
  BY <1>1, DurablePositions
<1>5. \E j \in Ends(s) : s[j].record.at = p
  <2>1. p - CompletedBefore(f) \in 1 .. Cardinality(Ends(s)) /\ CompletedBefore(f) + (p - CompletedBefore(f)) = p
    BY <1>1
  <2> QED
    BY <2>1, Positioned
<1>6. EpochAt(f, t, Len(t)) /\ MarkerAt(f, t, Len(t))
  <2>1. \E j \in Before(Ends(t), Len(t)) : t[j].record.at = p
    BY <1>3, <1>5
  <2>2. \A j \in Before(Of(t, "DurableThrough"), Len(t)) : t[j].value < p
    BY <1>3, <1>4
  <2>3. p > DurableBefore(f)
    BY <1>1
  <2> QED
    BY <1>2, <2>1, <2>2, <2>3 DEF EpochAt, MarkerAt
<1>7. /\ Sound(f, t) /\ PendingLen(t) = 0
      /\ LastCompleted(f, t) = LastCompleted(f, s) /\ Records(t) = Records(s)
      /\ \A by : CommitFrames(t, by) = CommitFrames(s, by)
      /\ Of(t, "EpochAllocation") = Of(s, "EpochAllocation")
      /\ Of(t, "DurableThrough") = Of(s, "DurableThrough") \cup {Len(t)}
  BY <1>2, <1>6, SingleSound
<1>8. AllocatedEpoch(f, t) = AllocatedEpoch(f, s)
  BY <1>7 DEF AllocatedEpoch
<1>9. LastDurable(f, t) = p
  <2>1. \A i \in Of(t, "DurableThrough") : t[i].value <= p
    <3> SUFFICES ASSUME NEW i \in Of(t, "DurableThrough") PROVE t[i].value <= p
      OBVIOUS
    <3>1. CASE i = Len(t)
      BY <1>1, <1>2, <3>1
    <3>2. CASE i \in Of(s, "DurableThrough")
      BY <1>1, <1>3, <3>2, DurablePositions
    <3> QED
      BY <1>7, <3>1, <3>2
  <2>2. Len(t) \in Of(t, "DurableThrough") /\ t[Len(t)].value = p /\ DurableBefore(f) <= p
    BY <1>1, <1>2, <1>7
  <2> QED
    BY <1>1, <1>7, <2>1, <2>2, DurableIs
<1>10. DurableLen(f, t) = p - CompletedBefore(f)
  <2>1. LastDurable(f, t) > CompletedBefore(f)
    BY <1>1, <1>9
  <2> QED
    BY <1>7, <1>9, <2>1, DurableCount
<1> QED
  BY <1>7, <1>8, <1>9, <1>10

----------------------------------------------------------------------------
(* What can be read of a file                                               *)

\* All frames of a file but a torn one at its end are complete.
LEMMA CompleteReads ==
    ASSUME NEW f \in Files, TornIsLast(f.frames)
    PROVE  /\ CompleteFrames(f) \in Seq(Frames)
           /\ Alike(CompleteFrames(f), f.frames, Len(CompleteFrames(f)))
           /\ ~EndsTorn(f.frames) => CompleteFrames(f) = f.frames
           /\ \A i \in 1 .. Len(CompleteFrames(f)) : CompleteFrames(f)[i].kind # "Torn"
           /\ \A i \in 1 .. Len(f.frames) : i \notin 1 .. Len(CompleteFrames(f)) =>
                i = Len(CompleteFrames(f)) + 1 /\ f.frames[i].kind = "Torn"
           /\ Of(CompleteFrames(f), "Malformed") = Of(f.frames, "Malformed")
<1> DEFINE C == CompleteFrames(f)
<1>1. f.frames \in Seq(Frames) /\ Len(f.frames) \in Nat
  BY HeaderNumbers, FramesElements
<1>2. CASE EndsTorn(f.frames)
  <2>1. Len(f.frames) > 0 /\ f.frames[Len(f.frames)].kind = "Torn"
    BY <1>1, <1>2, EmptySeq DEF EndsTorn
  <2>2. C = SubSeq(f.frames, 1, Len(f.frames) - 1) /\ Len(f.frames) - 1 \in 0 .. Len(f.frames)
    BY <1>1, <1>2, <2>1 DEF CompleteFrames
  <2> HIDE DEF C
  <2>3. /\ C \in Seq(Frames) /\ Len(C) = Len(f.frames) - 1
        /\ \A i \in 1 .. Len(f.frames) - 1 : C[i] = f.frames[i]
    BY <1>1, <2>2, PrefixElements
  <2>4. Alike(C, f.frames, Len(C))
    BY <1>1, <2>3 DEF Alike
  <2>5. \A i \in 1 .. Len(C) : C[i].kind # "Torn"
    BY <1>1, <2>3 DEF TornIsLast
  <2>6. \A i \in 1 .. Len(f.frames) : i \notin 1 .. Len(C) =>
                i = Len(C) + 1 /\ f.frames[i].kind = "Torn"
    BY <1>1, <2>1, <2>3
  <2>7. \A i : i \in Of(C, "Malformed") <=> i \in Of(f.frames, "Malformed")
    <3>1. \A i : i \in Of(C, "Malformed") <=> i \in 1 .. Len(C) /\ C[i].kind = "Malformed"
      BY <2>3, OfElements
    <3>2. \A i : i \in Of(f.frames, "Malformed") <=>
              i \in 1 .. Len(f.frames) /\ f.frames[i].kind = "Malformed"
      BY <1>1, OfElements
    <3>3. \A i : i \in 1 .. Len(f.frames) <=> i \in 1 .. Len(C) \/ i = Len(f.frames)
      BY <1>1, <2>1, <2>3
    <3> QED
      BY <2>1, <2>3, <3>1, <3>2, <3>3
  <2>8. Of(C, "Malformed") = Of(f.frames, "Malformed")
    BY <2>7
  <2> QED
    BY <1>2, <2>3, <2>4, <2>5, <2>6, <2>8 DEF C
<1>3. CASE ~EndsTorn(f.frames)
  <2>1. C = f.frames
    BY <1>3 DEF CompleteFrames
  <2>2. \A i \in 1 .. Len(f.frames) : f.frames[i].kind # "Torn"
    <3> SUFFICES ASSUME NEW i \in 1 .. Len(f.frames), f.frames[i].kind = "Torn" PROVE FALSE
      OBVIOUS
    <3>1. i = Len(f.frames) /\ f.frames # <<>>
      BY <1>1, EmptySeq DEF TornIsLast
    <3> QED
      BY <1>3, <3>1 DEF EndsTorn
  <2> QED
    BY <1>1, <2>1, <2>2 DEF Alike
<1> QED
  BY <1>2, <1>3

\* A file is read up to its first frame that cannot be: none, unless it lost
\* one.
LEMMA FileReads ==
    ASSUME NEW f \in Files, TornIsLast(f.frames)
    PROVE  /\ Readable(f) \in Seq(Frames)
           /\ Alike(Readable(f), CompleteFrames(f), Len(Readable(f)))
           /\ Alike(Readable(f), f.frames, Len(Readable(f)))
           /\ \A i \in 1 .. Len(Readable(f)) : Readable(f)[i].kind \notin {"Torn", "Malformed"}
           /\ ~Lost(f) => Readable(f) = CompleteFrames(f)
           /\ Lost(f) => /\ Len(Readable(f)) + 1 <= Len(CompleteFrames(f))
                         /\ CompleteFrames(f)[Len(Readable(f)) + 1].kind = "Malformed"
<1> DEFINE C == CompleteFrames(f)  R == Readable(f)  lost == Of(C, "Malformed")
<1>1. /\ C \in Seq(Frames) /\ Len(C) \in Nat /\ Alike(C, f.frames, Len(C))
      /\ Lost(f) <=> lost # {}
      /\ \A i \in 1 .. Len(C) : C[i].kind # "Torn"
  BY CompleteReads, FramesElements DEF Lost
<1>2. R = SubSeq(C, 1, IF lost = {} THEN Len(C) ELSE Earliest(lost) - 1)
  BY DEF Readable
<1>3. \A i : i \in lost <=> i \in 1 .. Len(C) /\ C[i].kind = "Malformed"
  BY <1>1, OfElements
<1> HIDE DEF C, R, lost
<1>4. CASE lost = {}
  <2>1. R = C
    BY <1>1, <1>2, <1>4, SubSeqFull
  <2> QED
    BY <1>1, <1>3, <1>4, <2>1 DEF C, R, Alike
<1>5. CASE lost # {}
  <2> DEFINE e == Earliest(lost)
  <2>1. lost \in SUBSET Nat
    BY <1>3
  <2>2. e \in lost /\ \A q \in lost : e <= q
    BY <1>5, <2>1, EarliestIsFirst DEF IsEarliest
  <2>3. R = SubSeq(C, 1, e - 1)
    BY <1>2, <1>5
  <2> HIDE DEF e
  <2>4. e \in 1 .. Len(C) /\ C[e].kind = "Malformed" /\ e - 1 \in 0 .. Len(C)
    BY <1>1, <1>3, <2>2
  <2>5. /\ R \in Seq(Frames) /\ Len(R) = e - 1 /\ \A i \in 1 .. e - 1 : R[i] = C[i]
    BY <1>1, <2>3, <2>4, PrefixElements
  <2>6. \A i \in 1 .. Len(R) : R[i].kind \notin {"Torn", "Malformed"}
    <3> SUFFICES ASSUME NEW i \in 1 .. Len(R) PROVE R[i].kind \notin {"Torn", "Malformed"}
      OBVIOUS
    <3>1. i \in 1 .. Len(C) /\ ~(e <= i) /\ R[i] = C[i]
      BY <1>1, <2>4, <2>5
    <3> QED
      BY <1>1, <1>3, <2>2, <3>1
  <2>7. Alike(R, C, Len(R)) /\ Alike(R, f.frames, Len(R))
    BY <1>1, <2>4, <2>5 DEF Alike
  <2>8. Len(R) + 1 <= Len(C) /\ C[Len(R) + 1].kind = "Malformed"
    <3>1. Len(R) + 1 = e
      BY <2>4, <2>5
    <3> QED
      BY <1>1, <2>4, <3>1
  <2> QED
    BY <1>1, <1>5, <2>5, <2>6, <2>7, <2>8 DEF C, R
<1> QED
  BY <1>4, <1>5

\* What is there for good is the synchronized beginning of what is read.
LEMMA SureReads ==
    ASSUME NEW f \in Files, TornIsLast(f.frames)
    PROVE  /\ Sure(f) \in Seq(Frames)
           /\ Alike(Sure(f), Readable(f), Len(Sure(f)))
           /\ f.synced <= Len(Readable(f)) => Len(Sure(f)) = f.synced
           /\ f.synced >= Len(Readable(f)) => Sure(f) = Readable(f)
<1>1. Readable(f) \in Seq(Frames) /\ Len(Readable(f)) \in Nat /\ f.synced \in Nat
  BY FileReads, FramesElements, HeaderNumbers
<1> DEFINE S == {Len(Readable(f)), f.synced}  n == Earliest(S)
<1>2. S \in SUBSET Nat /\ S # {}
  BY <1>1
<1>3. n \in S /\ \A q \in S : n <= q
  BY <1>2, EarliestIsFirst DEF IsEarliest
<1>4. Sure(f) = SubSeq(Readable(f), 1, n)
  BY DEF Sure, SureFrames
<1>5. n \in 0 .. Len(Readable(f)) /\ n <= f.synced /\ (n = Len(Readable(f)) \/ n = f.synced)
  BY <1>1, <1>3
<1> HIDE DEF n
<1>6. /\ Sure(f) \in Seq(Frames) /\ Len(Sure(f)) = n
      /\ \A i \in 1 .. n : Sure(f)[i] = Readable(f)[i]
  BY <1>1, <1>4, <1>5, PrefixElements
<1>7. Alike(Sure(f), Readable(f), Len(Sure(f)))
  BY <1>1, <1>5, <1>6 DEF Alike
<1>8. f.synced <= Len(Readable(f)) => Len(Sure(f)) = f.synced
  BY <1>1, <1>5, <1>6
<1>9. f.synced >= Len(Readable(f)) => n = Len(Readable(f))
  BY <1>1, <1>5
<1>10. n = Len(Readable(f)) => Sure(f) = Readable(f)
  BY <1>1, <1>4, SubSeqFull
<1> QED
  BY <1>6, <1>7, <1>8, <1>9, <1>10

\* Everything is read up to the first frame that is torn or lost.
LEMMA ReadsAtLeast ==
    ASSUME NEW f \in Files, TornIsLast(f.frames), NEW n \in 0 .. Len(f.frames),
           \A i \in 1 .. n : f.frames[i].kind \notin {"Torn", "Malformed"}
    PROVE  n <= Len(Readable(f))
<1> DEFINE C == CompleteFrames(f)  R == Readable(f)
<1>1. /\ C \in Seq(Frames) /\ Len(C) \in Nat /\ R \in Seq(Frames) /\ Len(R) \in Nat
      /\ Len(f.frames) \in Nat
  BY CompleteReads, FileReads, FramesElements, HeaderNumbers
<1>2. n <= Len(C)
  <2> SUFFICES ASSUME n > Len(C) PROVE FALSE
    BY <1>1
  <2>1. n \in 1 .. Len(f.frames) /\ n \notin 1 .. Len(C) /\ n \in 1 .. n
    BY <1>1
  <2>2. f.frames[n].kind = "Torn"
    BY <2>1, CompleteReads
  <2> QED
    BY <2>1, <2>2
<1>3. CASE Lost(f)
  <2> SUFFICES ASSUME n > Len(R) PROVE FALSE
    BY <1>1
  <2>1. Len(R) + 1 \in 1 .. n
    BY <1>1
  <2>2. C[Len(R) + 1].kind = "Malformed" /\ Len(R) + 1 <= Len(C)
    BY <1>3, FileReads
  <2>3. C[Len(R) + 1] = f.frames[Len(R) + 1]
    BY <1>1, <1>2, <2>1, <2>2, CompleteReads DEF Alike
  <2> QED
    BY <2>1, <2>2, <2>3
<1>4. CASE ~Lost(f)
  BY <1>2, <1>4, FileReads
<1> QED
  BY <1>3, <1>4

\* A file of complete frames, and perhaps part of another.
LEMMA ReadsAre ==
    ASSUME NEW f \in Files, NEW s \in Seq(Frames),
           \A i \in 1 .. Len(s) : s[i].kind \notin {"Torn", "Malformed"},
           f.frames = s \/ f.frames = s \o <<Torn>>
    PROVE  /\ TornIsLast(f.frames) /\ ~Lost(f)
           /\ CompleteFrames(f) = s /\ Readable(f) = s
           /\ Len(s) <= Len(f.frames)
           /\ f.frames = s => ~EndsTorn(f.frames)
<1>1. Len(s) \in Nat /\ f.frames \in Seq(Frames) /\ Len(f.frames) \in Nat
  BY FramesElements, HeaderNumbers
<1>2. /\ Len(s) <= Len(f.frames) /\ \A i \in 1 .. Len(s) : f.frames[i] = s[i]
      /\ \A i \in 1 .. Len(f.frames) : i \notin 1 .. Len(s) =>
            i = Len(f.frames) /\ i = Len(s) + 1 /\ f.frames[i].kind = "Torn"
  <2>1. CASE f.frames = s
    BY <1>1, <2>1
  <2>2. CASE f.frames = s \o <<Torn>>
    <3>1. <<Torn>> \in Seq(Frames) /\ Len(<<Torn>>) = 1 /\ <<Torn>>[1] = Torn
      BY FrameKinds
    <3>2. /\ Len(f.frames) = Len(s) + 1
          /\ \A i \in 1 .. Len(s) + 1 :
               f.frames[i] = IF i <= Len(s) THEN s[i] ELSE <<Torn>>[i - Len(s)]
      BY <2>2, <3>1, ConcatProperties
    <3>3. f.frames[Len(s) + 1] = Torn
      BY <1>1, <3>1, <3>2
    <3>4. \A i \in 1 .. Len(s) : f.frames[i] = s[i]
      BY <1>1, <3>2
    <3>5. \A i \in 1 .. Len(f.frames) : i \notin 1 .. Len(s) => i = Len(s) + 1
      BY <1>1, <3>2
    <3> QED
      BY <1>1, <3>2, <3>3, <3>4, <3>5, FrameKinds
  <2> QED
    BY <2>1, <2>2
<1>3. TornIsLast(f.frames)
  BY <1>2 DEF TornIsLast
<1>4. ~Lost(f)
  <2>1. \A i \in 1 .. Len(f.frames) : f.frames[i].kind # "Malformed"
    BY <1>2
  <2> QED
    BY <1>1, <2>1, OfElements DEF Lost
<1>5. Readable(f) = s
  <2> DEFINE R == Readable(f)
  <2>1. R \in Seq(Frames) /\ Len(R) \in Nat /\ Alike(R, f.frames, Len(R))
        /\ \A i \in 1 .. Len(R) : R[i].kind \notin {"Torn", "Malformed"}
    BY <1>3, FileReads, FramesElements
  <2>2. Len(s) <= Len(R)
    BY <1>1, <1>2, <1>3, ReadsAtLeast
  <2> HIDE DEF R
  <2>3. Len(R) <= Len(s)
    <3> SUFFICES ASSUME Len(R) > Len(s) PROVE FALSE
      BY <1>1, <2>1
    <3>1. Len(R) \in 1 .. Len(R) /\ Len(R) \in 1 .. Len(f.frames) /\ Len(R) \notin 1 .. Len(s)
      BY <1>1, <2>1 DEF Alike
    <3>2. R[Len(R)] = f.frames[Len(R)]
      BY <2>1, <3>1 DEF Alike
    <3> QED
      BY <1>2, <2>1, <3>1, <3>2
  <2>4. Len(R) = Len(s) /\ \A i \in 1 .. Len(s) : R[i] = s[i]
    BY <1>1, <1>2, <2>1, <2>2, <2>3 DEF Alike
  <2>5. R = s
    BY <2>1, <2>4, SeqEqual
  <2> QED
    BY <2>5 DEF R
<1>6. f.frames = s => ~EndsTorn(f.frames)
  <2> SUFFICES ASSUME f.frames = s, EndsTorn(s) PROVE FALSE
    OBVIOUS
  <2>1. s # <<>> /\ s[Len(s)].kind = "Torn"
    BY DEF EndsTorn
  <2>2. Len(s) \in 1 .. Len(s)
    BY <1>1, <2>1, EmptySeq
  <2> QED
    BY <2>1, <2>2
<1> QED
  BY <1>2, <1>3, <1>4, <1>5, <1>6, FileReads

----------------------------------------------------------------------------
(* What the calls do to a file                                              *)

SoundFile(f) == f \in Files /\ f.synced <= Len(f.frames) /\ FileSound(f)

\* A file that an open adapter may append to.
Appendable(f) ==
    SoundFile(f) /\ ~Lost(f) /\ ~EndsTorn(f.frames) /\ PendingLen(f.frames) = 0

\* A file that may be appended to is read whole.
LEMMA AppendableReads ==
    ASSUME NEW f, Appendable(f)
    PROVE  /\ f \in Files /\ TornIsLast(f.frames)
           /\ CompleteFrames(f) = f.frames /\ Readable(f) = f.frames
           /\ Sound(f, f.frames) /\ Sound(f, Sure(f)) /\ HeaderMet(f, Sure(f))
           /\ Sure(f) \in Seq(Frames) /\ Len(Sure(f)) = f.synced
           /\ Alike(Sure(f), f.frames, Len(Sure(f)))
           /\ \A i \in 1 .. Len(f.frames) : f.frames[i].kind \notin {"Torn", "Malformed"}
           /\ f.frames \in Seq(Frames) /\ Len(f.frames) \in Nat /\ f.synced \in Nat
           /\ f.synced <= Len(f.frames)
<1>1. f \in Files /\ TornIsLast(f.frames) /\ f.synced <= Len(f.frames)
      /\ HeaderMet(f, Sure(f)) /\ ~Lost(f) /\ ~EndsTorn(f.frames) /\ Sound(f, Readable(f))
  BY DEF Appendable, SoundFile, FileSound
<1>2. CompleteFrames(f) = f.frames /\ Readable(f) = f.frames
  BY <1>1, CompleteReads, FileReads
<1>3. f.frames \in Seq(Frames) /\ Len(f.frames) \in Nat /\ f.synced \in Nat
  BY <1>1, HeaderNumbers, FramesElements
<1>4. /\ Sure(f) \in Seq(Frames) /\ Len(Sure(f)) = f.synced
      /\ Alike(Sure(f), f.frames, Len(Sure(f)))
  BY <1>1, <1>2, SureReads
<1>5. \A i \in 1 .. Len(f.frames) : f.frames[i].kind \notin {"Torn", "Malformed"}
  BY <1>1, <1>2, FileReads
<1>6. Sound(f, Sure(f))
  BY <1>1, <1>2, <1>3, <1>4, PrefixNumbers
<1> QED
  BY <1>1, <1>2, <1>3, <1>4, <1>5, <1>6

\* What is permanent in one file is permanent in the other.
LEMMA SureGrows ==
    ASSUME NEW f \in Files, NEW g \in Files, SameHeader(f, g),
           NEW s \in Seq(Frames), NEW t \in Seq(Frames), s = Sure(f), t = Sure(g),
           Alike(s, t, Len(s)), Sound(f, t)
    PROVE  /\ HeaderMet(f, s) => HeaderMet(g, t)
           /\ AllocatedEpoch(f, s) <= AllocatedEpoch(g, t)
           /\ DurableLen(f, s) <= DurableLen(g, t)
           /\ \A by : CommittedIn(f, by) => CommittedIn(g, by)
<1>1. /\ HeaderMet(f, s) => HeaderMet(g, t)
      /\ AllocatedEpoch(f, s) <= AllocatedEpoch(g, t)
      /\ DurableLen(f, s) <= DurableLen(g, t)
      /\ LastDurable(f, s) <= LastDurable(g, t)
      /\ Sound(f, s) /\ Sound(g, t)
  BY PrefixNumbers, HeaderOnly
<1>2. ASSUME NEW by, CommittedIn(f, by)
      PROVE  CommittedIn(g, by)
  <2>1. PICK i \in CommitFrames(s, by) : s[i].record.at <= LastDurable(f, s)
    BY <1>2 DEF CommittedIn
  <2>2. i \in Of(s, "Record") /\ s[i].record.kind = "Commit" /\ s[i].record.by = by
    BY DEF CommitFrames
  <2>3. i \in Of(t, "Record") /\ t[i] = s[i]
    <3>1. Of(s, "Record") \in SUBSET Of(t, "Record")
      BY PrefixNumbers
    <3>2. i \in 1 .. Len(s)
      BY <2>2, OfElements
    <3> QED
      BY <2>2, <3>1, <3>2 DEF Alike
  <2>4. i \in CommitFrames(t, by)
    BY <2>2, <2>3 DEF CommitFrames
  <2>5. s[i].record.at \in Nat /\ LastDurable(f, s) \in Nat /\ LastDurable(g, t) \in Nat
    <3>1. s[i] \in Frames
      BY <2>2, OfElements, FramesElements
    <3>2. s[i].record \in LogRecords
      BY <2>2, <3>1, OfElements, FrameKinds
    <3> QED
      BY <1>1, <3>2, DurablePositions, FramesInType
  <2>6. t[i].record.at <= LastDurable(g, t)
    BY <1>1, <2>1, <2>3, <2>5
  <2> QED
    BY <2>4, <2>6 DEF CommittedIn
<1> QED
  BY <1>1, <1>2

\* A file that has lost an end of what was not permanent, and made the rest permanent.
Settles(f, g) ==
    /\ SameHeader(f, g) /\ TornIsLast(g.frames)
    /\ Alike(Readable(g), Readable(f), Len(Readable(g)))
    /\ Alike(Sure(f), Sure(g), Len(Sure(f)))

\* A file that settles another keeps all that was permanent in it.
LEMMA SettlesKeeps ==
    ASSUME NEW f, NEW g \in Files, SoundFile(f), g.synced <= Len(g.frames), Settles(f, g)
    PROVE  /\ SoundFile(g)
           /\ AllocatedEpoch(f, Sure(f)) <= AllocatedEpoch(g, Sure(g))
           /\ \A by : CommittedIn(f, by) => CommittedIn(g, by)
           /\ DurableLen(f, Sure(f)) <= DurableLen(g, Sure(g))
           /\ DurableLen(g, Sure(g)) <= Len(Records(Readable(g)))
           /\ Len(Records(Readable(g))) <= Len(Records(Readable(f)))
           /\ \A n \in 1 .. Len(Records(Readable(g))) :
                Records(Readable(g))[n] = Records(Readable(f))[n]
<1>1. /\ f \in Files /\ TornIsLast(f.frames) /\ Sound(f, Readable(f)) /\ HeaderMet(f, Sure(f))
      /\ SameHeader(f, g) /\ TornIsLast(g.frames)
      /\ Alike(Readable(g), Readable(f), Len(Readable(g)))
      /\ Alike(Sure(f), Sure(g), Len(Sure(f)))
  BY DEF SoundFile, FileSound, Settles
<1>2. /\ Readable(f) \in Seq(Frames) /\ Readable(g) \in Seq(Frames)
      /\ Sure(f) \in Seq(Frames) /\ Sure(g) \in Seq(Frames)
      /\ Alike(Sure(g), Readable(g), Len(Sure(g)))
  BY <1>1, FileReads, SureReads
<1>3. /\ Sound(f, Readable(g))
      /\ Len(Records(Readable(g))) <= Len(Records(Readable(f)))
      /\ \A n \in 1 .. Len(Records(Readable(g))) :
           Records(Readable(g))[n] = Records(Readable(f))[n]
  BY <1>1, <1>2, PrefixNumbers
<1>4. Sound(f, Sure(g)) /\ Len(Records(Sure(g))) <= Len(Records(Readable(g)))
  BY <1>1, <1>2, <1>3, PrefixNumbers
<1>5. /\ HeaderMet(g, Sure(g))
      /\ AllocatedEpoch(f, Sure(f)) <= AllocatedEpoch(g, Sure(g))
      /\ DurableLen(f, Sure(f)) <= DurableLen(g, Sure(g))
      /\ \A by : CommittedIn(f, by) => CommittedIn(g, by)
  BY <1>1, <1>2, <1>4, SureGrows
<1>6. SoundFile(g)
  BY <1>1, <1>3, <1>5, HeaderOnly DEF SoundFile, FileSound
<1>7. DurableLen(g, Sure(g)) <= Len(Records(Readable(g)))
  <2>1. Sound(g, Sure(g)) /\ Sound(g, Readable(g))
    BY <1>1, <1>3, <1>4, HeaderOnly
  <2>2. /\ DurableLen(g, Sure(g)) \in 0 .. Cardinality(Ends(Sure(g)))
        /\ Len(Records(Sure(g))) = Cardinality(Ends(Sure(g)))
        /\ Len(Records(Readable(g))) = Cardinality(Ends(Readable(g)))
        /\ Cardinality(Ends(Sure(g))) \in Nat /\ Cardinality(Ends(Readable(g))) \in Nat
    BY <1>2, <2>1, DurableCount, RecordsRead, FrameNumbers
  <2> QED
    BY <1>4, <2>2
<1> QED
  BY <1>3, <1>5, <1>6, <1>7

\* A file with more frames at its end, none of them permanent yet.
LEMMA GrownFile ==
    ASSUME NEW f, Appendable(f), NEW g \in Files, SameHeader(f, g), g.synced = f.synced,
           NEW t \in Seq(Frames), Alike(f.frames, t, Len(f.frames)), Sound(f, t),
           \A i \in Len(f.frames) + 1 .. Len(t) : t[i].kind \notin {"Torn", "Malformed"},
           g.frames = t \/ g.frames = t \o <<Torn>>
    PROVE  /\ SoundFile(g) /\ ~Lost(g)
           /\ CompleteFrames(g) = t /\ Readable(g) = t /\ Sure(g) = Sure(f)
           /\ g.frames = t => ~EndsTorn(g.frames)
           /\ AllocatedEpoch(g, Sure(g)) = AllocatedEpoch(f, Sure(f))
           /\ DurableLen(g, Sure(g)) = DurableLen(f, Sure(f))
           /\ \A by : CommittedIn(f, by) => CommittedIn(g, by)
<1>1. /\ f \in Files /\ Sound(f, Sure(f)) /\ HeaderMet(f, Sure(f))
      /\ f.frames \in Seq(Frames) /\ Len(f.frames) \in Nat /\ f.synced \in Nat
      /\ f.synced <= Len(f.frames)
      /\ Sure(f) \in Seq(Frames) /\ Len(Sure(f)) = f.synced
      /\ Alike(Sure(f), f.frames, Len(Sure(f)))
      /\ \A i \in 1 .. Len(f.frames) : f.frames[i].kind \notin {"Torn", "Malformed"}
  BY AppendableReads
<1>2. Len(t) \in Nat /\ Len(f.frames) <= Len(t) /\ \A i \in 1 .. Len(f.frames) : f.frames[i] = t[i]
  BY FramesElements DEF Alike
<1>3. \A i \in 1 .. Len(t) : t[i].kind \notin {"Torn", "Malformed"}
  BY <1>1, <1>2
<1>4. /\ TornIsLast(g.frames) /\ ~Lost(g) /\ CompleteFrames(g) = t /\ Readable(g) = t
      /\ Len(t) <= Len(g.frames) /\ (g.frames = t => ~EndsTorn(g.frames))
      /\ Len(g.frames) \in Nat
  BY <1>3, ReadsAre, HeaderNumbers, FramesElements
<1>5. Sure(g) = Sure(f)
  <2>1. Sure(g) \in Seq(Frames) /\ Len(Sure(g)) = f.synced /\ Alike(Sure(g), t, Len(Sure(g)))
    BY <1>1, <1>2, <1>4, SureReads
  <2>2. \A i \in 1 .. f.synced : Sure(g)[i] = Sure(f)[i]
    BY <1>1, <1>2, <2>1 DEF Alike
  <2> QED
    BY <1>1, <2>1, <2>2, SeqEqual
<1>6. /\ Sound(g, t) /\ HeaderMet(g, Sure(g))
      /\ AllocatedEpoch(g, Sure(g)) = AllocatedEpoch(f, Sure(f))
      /\ DurableLen(g, Sure(g)) = DurableLen(f, Sure(f))
      /\ LastDurable(g, Sure(g)) = LastDurable(f, Sure(f))
  BY <1>1, <1>5, HeaderOnly
<1>7. SoundFile(g)
  BY <1>1, <1>2, <1>4, <1>6 DEF SoundFile, FileSound
<1>8. \A by : CommittedIn(f, by) => CommittedIn(g, by)
  BY <1>5, <1>6 DEF CommittedIn
<1> QED
  BY <1>4, <1>5, <1>6, <1>7, <1>8

\* What a file keeps of another: all that is permanent, and nothing that was not there.
Keeps(f, g) ==
    /\ SoundFile(g)
    /\ AllocatedEpoch(f, Sure(f)) <= AllocatedEpoch(g, Sure(g))
    /\ \A by : CommittedIn(f, by) => CommittedIn(g, by)
    /\ \A by : CommitFrames(g.frames, by) # {} => CommitFrames(f.frames, by) # {}
    /\ DurableLen(f, Sure(f)) <= DurableLen(g, Sure(g))
    /\ DurableLen(g, Sure(g)) <= Len(Records(Readable(g)))
    /\ Len(Records(Readable(g))) <= Len(Records(Readable(f)))
    /\ \A n \in 1 .. Len(Records(Readable(g))) :
         Records(Readable(g))[n] = Records(Readable(f))[n]

\* Its records are among those of the other.
FromFile(s, t) ==
    \A i \in 1 .. Len(t) : t[i].kind = "Record" => i \in 1 .. Len(s) /\ t[i] = s[i]

\* Its commit records are the other's too.
LEMMA CommitsFrom ==
    ASSUME NEW s \in Seq(Frames), NEW t \in Seq(Frames), FromFile(s, t), NEW by,
           CommitFrames(t, by) # {}
    PROVE  CommitFrames(s, by) # {}
<1>1. PICK i \in CommitFrames(t, by) : TRUE
  OBVIOUS
<1>2. i \in Of(t, "Record") /\ t[i].record.kind = "Commit" /\ t[i].record.by = by
  BY <1>1 DEF CommitFrames
<1>3. i \in 1 .. Len(s) /\ t[i] = s[i] /\ s[i].kind = "Record"
  BY <1>2, OfElements DEF FromFile
<1>4. i \in CommitFrames(s, by)
  BY <1>2, <1>3, OfElements DEF CommitFrames
<1> QED
  BY <1>4

\* The same with the records of commits, when no frame of a record is new.
LEMMA SettledKeeps ==
    ASSUME NEW f, NEW g \in Files, SoundFile(f), g.synced <= Len(g.frames), Settles(f, g),
           FromFile(f.frames, g.frames)
    PROVE  Keeps(f, g)
<1>1. f.frames \in Seq(Frames) /\ g.frames \in Seq(Frames)
  BY HeaderNumbers DEF SoundFile
<1> QED
  BY <1>1, SettlesKeeps, CommitsFrom DEF Keeps

\* sync_all.
LEMMA SyncedFile ==
    ASSUME NEW f \in Files
    PROVE  /\ Synced(f) \in Files /\ SameHeader(f, Synced(f))
           /\ Synced(f).frames = f.frames /\ Synced(f).synced = Len(f.frames)
           /\ CompleteFrames(Synced(f)) = CompleteFrames(f) /\ Readable(Synced(f)) = Readable(f)
<1>1. Len(f.frames) \in Nat
  BY HeaderNumbers, FramesElements
<1>2. /\ Synced(f) \in Files /\ SameHeader(f, Synced(f))
      /\ Synced(f).frames = f.frames /\ Synced(f).synced = Len(f.frames)
  BY <1>1 DEF Synced, Files, SameHeader
<1>3. CompleteFrames(Synced(f)) = CompleteFrames(f)
  BY <1>2 DEF CompleteFrames
<1> QED
  BY <1>2, <1>3 DEF Readable

\* sync_all keeps a file, and makes all that is read of it permanent.
LEMMA SyncedKeeps ==
    ASSUME NEW f, SoundFile(f)
    PROVE  /\ Keeps(f, Synced(f)) /\ Sure(Synced(f)) = Readable(f)
           /\ Lost(Synced(f)) <=> Lost(f)
           /\ Appendable(f) => Appendable(Synced(f))
<1> DEFINE g == Synced(f)
<1>1. f \in Files /\ TornIsLast(f.frames)
  BY DEF SoundFile, FileSound
<1>2. /\ g \in Files /\ SameHeader(f, g) /\ g.frames = f.frames /\ g.synced = Len(f.frames)
      /\ Readable(g) = Readable(f)
  BY <1>1, SyncedFile
<1> HIDE DEF g
<1>3. f.frames \in Seq(Frames) /\ Len(f.frames) \in Nat /\ Readable(f) \in Seq(Frames)
      /\ Len(Readable(f)) \in Nat /\ Len(Readable(f)) <= Len(f.frames)
  BY <1>1, HeaderNumbers, FileReads, FramesElements DEF Alike
<1>4. Sure(g) = Readable(f)
  BY <1>1, <1>2, <1>3, SureReads
<1>5. Settles(f, g)
  <2>1. Alike(Readable(g), Readable(f), Len(Readable(g)))
    BY <1>2, <1>3 DEF Alike
  <2>2. Alike(Sure(f), Sure(g), Len(Sure(f)))
    BY <1>1, <1>4, SureReads
  <2> QED
    BY <1>1, <1>2, <2>1, <2>2 DEF Settles
<1>6. FromFile(f.frames, g.frames)
  BY <1>2 DEF FromFile
<1>7. Keeps(f, g)
  BY <1>2, <1>3, <1>5, <1>6, SettledKeeps
<1>8. (Lost(g) <=> Lost(f)) /\ (Appendable(f) => Appendable(g))
  BY <1>2, <1>7 DEF Lost, Appendable, Keeps
<1> QED
  BY <1>4, <1>7, <1>8 DEF g

\* A page group that is open at the end is nothing yet.
LEMMA PendingIs ==
    ASSUME NEW f \in Files, NEW s \in Seq(Frames), Sound(f, s)
    PROVE  /\ PendingLen(s) \in 0 .. Len(s)
           /\ \A i \in Len(s) - PendingLen(s) + 1 .. Len(s) :
                /\ s[i].kind = "Record" /\ s[i].record.kind # "Commit"
                /\ s[i].part < FramesIn(s[i].record)
                /\ s[i].part = i - (Len(s) - PendingLen(s))
<1> DEFINE p == PendingLen(s)  r == s[Len(s)].record
<1>1. Len(s) \in Nat
  BY FramesElements
<1>2. CASE p = 0
  BY <1>1, <1>2
<1>3. CASE p # 0
  <2>1. Len(s) > 0 /\ s[Len(s)].kind = "Record" /\ s[Len(s)].part < FramesIn(r) /\ p = s[Len(s)].part
    BY <1>1, <1>3, NothingPendingThere
  <2>2. /\ r \in LogRecords /\ p \in Nat \ {0} /\ FramesIn(r) \in Nat /\ r.kind # "Commit"
        /\ s[Len(s)] = RecordFrame(r, p) /\ p < FramesIn(r)
    <3>1. s[Len(s)] \in Frames
      BY <1>1, <2>1, FramesElements
    <3>2. r \in LogRecords /\ s[Len(s)].part \in 1 .. FramesIn(r) /\ s[Len(s)] = RecordFrame(r, s[Len(s)].part)
      BY <2>1, <3>1, FrameKinds
    <3> QED
      BY <2>1, <3>2, FramesInType
  <2> HIDE DEF p, r
  <2> DEFINE P(m) == Len(s) - m >= 1 /\ s[Len(s) - m] = RecordFrame(r, p - m)
             Bad == {m \in 0 .. p - 1 : ~P(m)}
  <2>3. Bad = {}
    <3> SUFFICES ASSUME Bad # {} PROVE FALSE
      OBVIOUS
    <3>1. Bad \in SUBSET Nat
      BY <2>2
    <3>2. PICK b \in Bad : \A c \in Bad : b <= c
      BY <3>1, EarliestExists DEF IsEarliest
    <3>3. b # 0
      <4>1. Len(s) - 0 = Len(s) /\ p - 0 = p
        BY <1>1, <2>2
      <4>2. P(0)
        <5>1. Len(s) - 0 >= 1
          BY <1>1, <2>1, <4>1
        <5>2. s[Len(s) - 0] = s[Len(s)] /\ RecordFrame(r, p - 0) = RecordFrame(r, p)
          BY <4>1
        <5> QED
          BY <2>2, <5>1, <5>2
      <4> QED
        BY <3>2, <4>2
    <3>4. PICK a \in 0 .. p - 1 : a = b - 1 /\ a + 1 = b
      BY <2>2, <3>2, <3>3
    <3>5. P(a)
      <4>1. ~(b <= a)
        BY <3>4
      <4>2. a \notin Bad
        BY <3>2, <4>1
      <4> QED
        BY <3>4, <4>2
    <3>6. PICK i \in 1 .. Len(s) : i = Len(s) - a /\ i - 1 = Len(s) - b
      BY <1>1, <2>2, <3>4, <3>5
    <3>7. s[i] = RecordFrame(r, p - a) /\ p - a \in 1 .. FramesIn(r) /\ p - a > 1
          /\ (p - a) - 1 = p - b
      BY <2>2, <3>2, <3>4, <3>5, <3>6
    <3>8. s[i].kind = "Record" /\ s[i].part = p - a /\ s[i].record = r
      BY <2>2, <3>7, FramesMade
    <3>9. GroupAt(s, i)
      BY SoundLocally DEF SoundAt
    <3>10. i > 1 /\ s[i - 1] = RecordFrame(r, (p - a) - 1)
      BY <3>7, <3>8, <3>9 DEF GroupAt
    <3>11. P(b)
      BY <1>1, <3>6, <3>7, <3>10
    <3> QED
      BY <3>2, <3>11
  <2>4. \A m \in 0 .. p - 1 : P(m)
    BY <2>3
  <2>5. p <= Len(s)
    <3>1. P(p - 1)
      BY <2>2, <2>4
    <3> QED
      BY <1>1, <2>2, <3>1
  <2>6. ASSUME NEW i \in Len(s) - p + 1 .. Len(s)
        PROVE  /\ s[i].kind = "Record" /\ s[i].record.kind # "Commit"
               /\ s[i].part < FramesIn(s[i].record)
               /\ s[i].part = i - (Len(s) - p)
    <3>1. PICK m \in 0 .. p - 1 : m = Len(s) - i /\ i = Len(s) - m /\ p - m = i - (Len(s) - p)
      <4>1. Len(s) - i \in 0 .. p - 1
        BY <1>1, <2>2, <2>5
      <4>2. i = Len(s) - (Len(s) - i) /\ p - (Len(s) - i) = i - (Len(s) - p)
        BY <1>1, <2>2
      <4> QED
        BY <4>1, <4>2
    <3>2. s[i] = RecordFrame(r, p - m)
      BY <2>4, <3>1
    <3>3. PICK q \in 1 .. FramesIn(r) : q = p - m /\ q < FramesIn(r)
      <4>1. p - m \in 1 .. FramesIn(r) /\ p - m < FramesIn(r)
        BY <2>2
      <4> QED
        BY <4>1
    <3>4. s[i].kind = "Record" /\ s[i].record = r /\ s[i].part = q
      BY <2>2, <3>2, <3>3, FramesMade
    <3> QED
      BY <2>2, <3>1, <3>3, <3>4
  <2> QED
    BY <1>1, <2>2, <2>5, <2>6 DEF p
<1> QED
  BY <1>2, <1>3

\* An unfinished page group at the end counts for nothing.
LEMMA WithoutPending ==
    ASSUME NEW f \in Files, NEW s \in Seq(Frames), Sound(f, s),
           NEW t \in Seq(Frames), Len(t) = Len(s) - PendingLen(s), Alike(t, s, Len(t))
    PROVE  /\ Sound(f, t) /\ PendingLen(t) = 0
           /\ Records(t) = Records(s)
           /\ LastCompleted(f, t) = LastCompleted(f, s)
           /\ LastDurable(f, t) = LastDurable(f, s)
           /\ DurableLen(f, t) = DurableLen(f, s)
           /\ AllocatedEpoch(f, t) = AllocatedEpoch(f, s)
           /\ \A by : CommitFrames(t, by) = CommitFrames(s, by)
           /\ PendingLen(s) = 0 => t = s
<1> DEFINE p == PendingLen(s)  n == Len(s) - p
<1>1. /\ Len(s) \in Nat /\ p \in 0 .. Len(s) /\ n \in 0 .. Len(s)
      /\ \A i \in n + 1 .. Len(s) :
                /\ s[i].kind = "Record" /\ s[i].record.kind # "Commit"
                /\ s[i].part < FramesIn(s[i].record) /\ s[i].part = i - n
  <2>1. Len(s) \in Nat
    BY FramesElements
  <2>2. p \in 0 .. Len(s) /\ n \in 0 .. Len(s)
    BY <2>1, PendingIs
  <2> QED
    BY <2>1, <2>2, PendingIs
<1>2. Len(t) = n
  OBVIOUS
<1> HIDE DEF p, n
<1>3. t \in Seq(Frames) /\ Len(t) = n /\ \A i \in 1 .. n : t[i] = s[i]
  BY <1>2 DEF Alike
<1>4. Alike(t, s, Len(t))
  OBVIOUS
<1>5. Sound(f, t)
  BY <1>3, <1>4, PrefixNumbers
<1>6. PendingLen(t) = 0
  <2> SUFFICES ASSUME PendingLen(t) # 0 PROVE FALSE
    OBVIOUS
  <2>1. n > 0 /\ t[n].kind = "Record" /\ t[n].part < FramesIn(t[n].record)
    <3>1. n \in Nat
      BY <1>1
    <3> QED
      BY <1>3, <3>1, NothingPendingThere
  <2>2. n \in 1 .. Len(s) /\ t[n] = s[n]
    BY <1>1, <1>3, <2>1
  <2>3. /\ s[n] \in Frames /\ s[n].record \in LogRecords /\ s[n].part \in 1 .. FramesIn(s[n].record)
        /\ FramesIn(s[n].record) \in Nat
    BY <2>1, <2>2, FramesElements, FrameKinds, FramesInType
  <2>4. CASE n = Len(s)
    <3>1. p = s[n].part /\ p = 0
      <4>1. PendingLen(s) = s[n].part
        BY <1>1, <2>1, <2>2, <2>4, NothingPendingThere
      <4> QED
        BY <1>1, <2>4, <4>1 DEF p, n
    <3> QED
      BY <2>3, <3>1
  <2>5. CASE n # Len(s)
    <3>1. PICK i \in n + 1 .. Len(s) : i = n + 1 /\ i \in 1 .. Len(s) /\ i - 1 = n /\ i > 1
      BY <1>1, <2>1, <2>5
    <3>2. GroupAt(s, i)
      BY <3>1, SoundLocally DEF SoundAt
    <3>3. s[i] = RecordFrame(s[n].record, s[n].part + 1)
      BY <2>1, <2>2, <3>1, <3>2 DEF GroupAt
    <3>4. s[i].part = s[n].part + 1
      <4>1. s[n].part + 1 \in 1 .. FramesIn(s[n].record)
        BY <2>1, <2>2, <2>3
      <4> QED
        BY <2>3, <3>3, <4>1, FramesMade
    <3>5. s[i].part = 1
      <4>1. s[i].part = i - n
        BY <1>1
      <4> QED
        BY <1>1, <3>1, <4>1
    <3> QED
      BY <2>3, <3>4, <3>5
  <2> QED
    BY <2>4, <2>5
<1>7. /\ \A i : i \in 1 .. Len(s) <=> i \in 1 .. Len(t) \/ i \in n + 1 .. Len(s)
      /\ \A i \in 1 .. Len(t) : t[i] = s[i]
      /\ \A i \in n + 1 .. Len(s) : i \notin 1 .. Len(t)
  BY <1>1, <1>3
<1>8. Ends(t) = Ends(s)
  <2>1. ASSUME NEW i PROVE i \in Ends(t) <=> i \in Ends(s)
    <3>1. i \in Ends(t) <=> i \in 1 .. Len(t) /\ t[i].kind = "Record" /\ t[i].part = FramesIn(t[i].record)
      BY <1>3, OfElements
    <3>2. i \in Ends(s) <=> i \in 1 .. Len(s) /\ s[i].kind = "Record" /\ s[i].part = FramesIn(s[i].record)
      BY OfElements
    <3>3. i \in n + 1 .. Len(s) => s[i].part # FramesIn(s[i].record)
      <4> SUFFICES ASSUME i \in n + 1 .. Len(s) PROVE s[i].part # FramesIn(s[i].record)
        OBVIOUS
      <4>1. s[i].part < FramesIn(s[i].record) /\ s[i].part \in Int /\ s[i].kind = "Record"
        BY <1>1
      <4>2. FramesIn(s[i].record) \in Nat
        BY <1>7, <4>1, FramesElements, FrameKinds, FramesInType
      <4> QED
        BY <4>1, <4>2
    <3> QED
      BY <1>7, <3>1, <3>2, <3>3
  <2> QED
    BY <2>1
<1>9. ASSUME NEW k, k # "Record" PROVE Of(t, k) = Of(s, k)
  <2>1. ASSUME NEW i PROVE i \in Of(t, k) <=> i \in Of(s, k)
    <3>1. i \in Of(t, k) <=> i \in 1 .. Len(t) /\ t[i].kind = k
      BY <1>3, OfElements
    <3>2. i \in Of(s, k) <=> i \in 1 .. Len(s) /\ s[i].kind = k
      BY OfElements
    <3>3. i \in n + 1 .. Len(s) => s[i].kind # k
      BY <1>1, <1>9
    <3> QED
      BY <1>7, <3>1, <3>2, <3>3
  <2> QED
    BY <2>1
<1>10. LastCompleted(f, t) = LastCompleted(f, s) /\ AllocatedEpoch(f, t) = AllocatedEpoch(f, s)
  BY <1>8, <1>9 DEF LastCompleted, AllocatedEpoch
<1>11. LastDurable(f, t) = LastDurable(f, s)
  <2>1. \A i \in Of(t, "DurableThrough") : t[i] = s[i]
    BY <1>3, OfElements
  <2>2. {t[i].value : i \in Of(t, "DurableThrough")} = {s[i].value : i \in Of(s, "DurableThrough")}
    BY <1>9, <2>1
  <2> QED
    BY <2>2 DEF LastDurable
<1>12. DurableLen(f, t) = DurableLen(f, s)
  BY <1>3, <1>5, <1>11, DurableCount, DurablePositions, HeaderNumbers
<1>13. Records(t) = Records(s)
  <2>1. Len(Records(s)) = Cardinality(Ends(t)) /\ Records(s) \in Seq(LogRecords)
        /\ \A i \in Ends(s) : Records(s)[s[i].record.at - CompletedBefore(f)] = s[i].record
    BY <1>8, RecordsRead
  <2>2. \A i \in Ends(t) : t[i] = s[i] /\ i \in Ends(s)
    BY <1>3, <1>8, OfElements
  <2>3. \A i \in Ends(t) : Records(s)[t[i].record.at - CompletedBefore(f)] = t[i].record
    BY <2>1, <2>2
  <2> QED
    BY <1>3, <1>5, <2>1, <2>3, RecordsAre
<1>14. ASSUME NEW by PROVE CommitFrames(t, by) = CommitFrames(s, by)
  <2>1. ASSUME NEW i PROVE i \in CommitFrames(t, by) <=> i \in CommitFrames(s, by)
    <3>1. i \in CommitFrames(t, by) <=> i \in 1 .. Len(t) /\ t[i].kind = "Record"
                                  /\ t[i].record.kind = "Commit" /\ t[i].record.by = by
      BY <1>3, OfElements DEF CommitFrames
    <3>2. i \in CommitFrames(s, by) <=> i \in 1 .. Len(s) /\ s[i].kind = "Record"
                                  /\ s[i].record.kind = "Commit" /\ s[i].record.by = by
      BY OfElements DEF CommitFrames
    <3> QED
      BY <1>1, <1>7, <3>1, <3>2
  <2> QED
    BY <2>1
<1>15. p = 0 => t = s
  <2>1. p = 0 => n = Len(s)
    BY <1>1 DEF n
  <2> QED
    BY <1>1, <1>3, <2>1, SeqEqual
<1> QED
  BY <1>3, <1>4, <1>5, <1>6, <1>10, <1>11, <1>12, <1>13, <1>14, <1>15 DEF p

\* The repair at open takes away a torn frame and an open page group.
LEMMA RepairedFile ==
    ASSUME NEW f \in Files, TornIsLast(f.frames), ~Lost(f), Sound(f, CompleteFrames(f))
    PROVE  /\ Repaired(f) \in Files /\ SameHeader(f, Repaired(f))
           /\ Repaired(f).synced = Len(Repaired(f).frames)
           /\ Len(Repaired(f).frames) = Len(CompleteFrames(f)) - PendingLen(CompleteFrames(f))
           /\ Alike(Repaired(f).frames, CompleteFrames(f), Len(Repaired(f).frames))
<1> DEFINE C == CompleteFrames(f)  n == Len(C) - PendingLen(C)  t == SubSeq(C, 1, n)
<1>1. C \in Seq(Frames) /\ Len(C) \in Nat
  BY CompleteReads, FramesElements
<1>2. Repaired(f) = Synced([f EXCEPT !.frames = t])
  BY DEF Repaired
<1>3. n \in 0 .. Len(C)
  <2> HIDE DEF C
  <2>1. PendingLen(C) \in 0 .. Len(C)
    BY <1>1, PendingIs DEF C
  <2> QED
    BY <1>1, <2>1
<1> HIDE DEF C, n
<1>4. t \in Seq(Frames) /\ Len(t) = n /\ \A i \in 1 .. n : t[i] = C[i]
  BY <1>1, <1>3, PrefixElements
<1> HIDE DEF t
<1>5. /\ [f EXCEPT !.frames = t] \in Files /\ [f EXCEPT !.frames = t].frames = t
      /\ SameHeader(f, [f EXCEPT !.frames = t])
  BY <1>4 DEF Files, SameHeader
<1>6. /\ Repaired(f) \in Files /\ SameHeader([f EXCEPT !.frames = t], Repaired(f))
      /\ Repaired(f).frames = t /\ Repaired(f).synced = Len(t)
  BY <1>2, <1>5, SyncedFile
<1>7. SameHeader(f, Repaired(f))
  BY <1>5, <1>6 DEF SameHeader
<1>8. Alike(t, C, Len(t))
  BY <1>1, <1>3, <1>4 DEF Alike
<1> QED
  BY <1>4, <1>6, <1>7, <1>8 DEF C, n

\* The repair of an open keeps every record, and leaves a file that may be
\* appended to.
LEMMA RepairedKeeps ==
    ASSUME NEW f, SoundFile(f), ~Lost(f), NEW g, g = Repaired(Synced(f))
    PROVE  /\ Keeps(f, g) /\ Appendable(g) /\ SameHeader(f, g)
           /\ g.synced = Len(g.frames) /\ Sure(g) = g.frames
           /\ Records(g.frames) = Records(CompleteFrames(f))
           /\ LastCompleted(g, g.frames) = LastCompleted(f, CompleteFrames(f))
           /\ DurableLen(g, g.frames) = DurableLen(f, CompleteFrames(f))
           /\ AllocatedEpoch(g, g.frames) = AllocatedEpoch(f, CompleteFrames(f))
<1> DEFINE h == Synced(f)
<1>1. /\ f \in Files /\ TornIsLast(f.frames) /\ Sound(f, Readable(f)) /\ HeaderMet(f, Sure(f))
      /\ f.synced <= Len(f.frames)
  BY DEF SoundFile, FileSound
<1>2. /\ h \in Files /\ SameHeader(f, h) /\ h.frames = f.frames
      /\ CompleteFrames(h) = CompleteFrames(f)
  BY <1>1, SyncedFile
<1>3. ~Lost(h)
  BY <1>2 DEF Lost
<1>4. g = Repaired(h)
  OBVIOUS
<1> HIDE DEF h
<1> DEFINE s == CompleteFrames(f)  t == g.frames
<1>5. s \in Seq(Frames) /\ Readable(f) = s /\ Sound(f, s) /\ Alike(s, f.frames, Len(s))
      /\ Len(s) \in Nat
      /\ \A i \in 1 .. Len(s) : s[i].kind \notin {"Torn", "Malformed"}
  BY <1>1, CompleteReads, FileReads, FramesElements
<1>6. Sound(h, s)
  BY <1>2, <1>5, HeaderOnly
<1>7. /\ g \in Files /\ SameHeader(h, g) /\ g.synced = Len(t)
      /\ Len(t) = Len(s) - PendingLen(s) /\ Alike(t, s, Len(t))
  BY <1>1, <1>2, <1>3, <1>4, <1>6, RepairedFile
<1>8. SameHeader(f, g)
  BY <1>2, <1>7 DEF SameHeader
<1>9. t \in Seq(Frames) /\ Len(t) \in Nat
  BY <1>7, HeaderNumbers, FramesElements
<1> HIDE DEF s, t
<1>10. /\ Sound(f, t) /\ PendingLen(t) = 0
       /\ Records(t) = Records(s)
       /\ LastCompleted(f, t) = LastCompleted(f, s)
       /\ LastDurable(f, t) = LastDurable(f, s)
       /\ DurableLen(f, t) = DurableLen(f, s)
       /\ AllocatedEpoch(f, t) = AllocatedEpoch(f, s)
       /\ \A by : CommitFrames(t, by) = CommitFrames(s, by)
  BY <1>1, <1>5, <1>7, <1>9, WithoutPending
<1>11. \A i \in 1 .. Len(t) : t[i].kind \notin {"Torn", "Malformed"}
  BY <1>5, <1>7, <1>9 DEF Alike
<1>12. /\ TornIsLast(t) /\ ~Lost(g) /\ Readable(g) = t /\ ~EndsTorn(t)
  BY <1>7, <1>9, <1>11, ReadsAre DEF t
<1>13. Sure(g) = t
  BY <1>7, <1>9, <1>12, SureReads DEF t
<1>14. /\ Sound(g, t) /\ LastCompleted(g, t) = LastCompleted(f, s)
       /\ DurableLen(g, t) = DurableLen(f, s) /\ AllocatedEpoch(g, t) = AllocatedEpoch(f, s)
       /\ LastDurable(g, t) = LastDurable(f, s)
  BY <1>8, <1>10, HeaderOnly
<1>15. /\ Sure(f) \in Seq(Frames) /\ Alike(Sure(f), s, Len(Sure(f)))
  BY <1>1, <1>5, SureReads
<1>16. HeaderMet(g, t)
  <2>1. HeaderMet(f, s)
    BY <1>1, <1>5, <1>15, PrefixNumbers
  <2>2. HeaderMet(f, t)
    BY <1>1, <1>5, <1>9, <1>10, <2>1, HeaderMetIs
  <2> QED
    BY <1>8, <2>2, HeaderOnly
<1>17. SoundFile(g)
  <2>1. g.synced <= Len(g.frames)
    BY <1>7, <1>9 DEF t
  <2> QED
    BY <1>7, <1>12, <1>13, <1>14, <1>16, <2>1 DEF SoundFile, FileSound, t
<1>18. AllocatedEpoch(f, Sure(f)) <= AllocatedEpoch(g, Sure(g)) /\ DurableLen(f, Sure(f)) <= DurableLen(g, Sure(g))
  BY <1>1, <1>5, <1>13, <1>14, <1>15, PrefixNumbers
<1>19. ASSUME NEW by, CommittedIn(f, by) PROVE CommittedIn(g, by)
  <2>1. PICK i \in CommitFrames(Sure(f), by) : Sure(f)[i].record.at <= LastDurable(f, Sure(f))
    BY <1>19 DEF CommittedIn
  <2>2. i \in 1 .. Len(Sure(f)) /\ Sure(f)[i].kind = "Record"
        /\ Sure(f)[i].record.kind = "Commit" /\ Sure(f)[i].record.by = by
    BY <1>15, OfElements DEF CommitFrames
  <2>3. i \in 1 .. Len(s) /\ s[i] = Sure(f)[i]
    BY <1>5, <1>15, <2>2, FramesElements DEF Alike
  <2>4. i \in CommitFrames(s, by)
    BY <1>5, <2>2, <2>3, OfElements DEF CommitFrames
  <2>5. i \in CommitFrames(t, by)
    BY <1>10, <2>4
  <2>6. i \in 1 .. Len(t)
    BY <1>9, <2>5, OfElements DEF CommitFrames
  <2>7. t[i] = s[i]
    BY <1>7, <2>6 DEF Alike, t
  <2>8. s[i].record.at \in Nat
    BY <1>5, <2>2, <2>3, FramesElements, FrameKinds, FramesInType
  <2>9. LastDurable(f, Sure(f)) <= LastDurable(f, s) /\ LastDurable(f, s) \in Nat
        /\ LastDurable(f, Sure(f)) \in Nat
    BY <1>1, <1>5, <1>15, PrefixNumbers, DurablePositions
  <2>10. t[i].record.at <= LastDurable(g, t)
    BY <1>14, <2>1, <2>3, <2>7, <2>8, <2>9
  <2> QED
    BY <1>13, <2>5, <2>10 DEF CommittedIn
<1>20. ASSUME NEW by, CommitFrames(t, by) # {} PROVE CommitFrames(f.frames, by) # {}
  <2>1. PICK i \in CommitFrames(s, by) : TRUE
    BY <1>10, <1>20
  <2>2. i \in 1 .. Len(s) /\ s[i].kind = "Record" /\ s[i].record.kind = "Commit" /\ s[i].record.by = by
    BY <1>5, OfElements DEF CommitFrames
  <2>3. i \in 1 .. Len(f.frames) /\ f.frames[i] = s[i] /\ f.frames \in Seq(Frames)
    BY <1>1, <1>5, <2>2, HeaderNumbers, FramesElements DEF Alike
  <2>4. i \in CommitFrames(f.frames, by)
    BY <2>2, <2>3, OfElements DEF CommitFrames
  <2> QED
    BY <2>4
<1>21. DurableLen(g, Sure(g)) <= Len(Records(t))
  BY <1>7, <1>9, <1>13, <1>14, DurableCount, RecordsRead, FrameNumbers
<1>22. /\ Len(Records(t)) <= Len(Records(s))
       /\ \A n \in 1 .. Len(Records(t)) : Records(t)[n] = Records(s)[n]
  BY <1>1, <1>5, <1>10, RecordsRead, FrameNumbers
<1>23. Keeps(f, g)
  BY <1>5, <1>12, <1>17, <1>18, <1>19, <1>20, <1>21, <1>22 DEF Keeps, t
<1>24. Appendable(g)
  BY <1>10, <1>12, <1>17 DEF Appendable, t
<1> QED
  BY <1>7, <1>8, <1>10, <1>13, <1>14, <1>23, <1>24 DEF s, t

----------------------------------------------------------------------------
(* A power loss                                                             *)

\* The frames up to the last that is kept, with those before it that are not in their place.
Survivors(f, kept) ==
    [i \in 1 .. Latest(kept \cup {f.synced}) |->
        IF i <= f.synced \/ i \in kept THEN f.frames[i] ELSE Malformed]

\* The frames that survive a power loss are those that were synchronized, and
\* some others.
LEMMA SurvivorsElements ==
    ASSUME NEW f \in Files, f.synced <= Len(f.frames),
           NEW kept \in SUBSET (f.synced + 1 .. Len(f.frames))
    PROVE  /\ Survivors(f, kept) \in Seq(Frames)
           /\ Len(Survivors(f, kept)) \in f.synced .. Len(f.frames)
           /\ \A i \in 1 .. Len(Survivors(f, kept)) :
                Survivors(f, kept)[i] = f.frames[i] \/ Survivors(f, kept)[i] = Malformed
           /\ \A i \in 1 .. f.synced : Survivors(f, kept)[i] = f.frames[i]
<1> DEFINE S == kept \cup {f.synced}  n == Latest(S)
<1>1. /\ f.frames \in Seq(Frames) /\ Len(f.frames) \in Nat /\ f.synced \in Nat
      /\ \A i \in 1 .. Len(f.frames) : f.frames[i] \in Frames
  BY HeaderNumbers, FramesElements
<1>2. S \in SUBSET (0 .. Len(f.frames)) /\ S # {}
  <2>1. f.synced \in 0 .. Len(f.frames)
    BY <1>1
  <2>2. \A q \in kept : q \in 0 .. Len(f.frames)
    BY <1>1
  <2> QED
    BY <2>1, <2>2
<1>3. n \in S /\ \A q \in S : q <= n
  BY <1>1, <1>2, LatestIsLast DEF IsLatest
<1>4. n \in f.synced .. Len(f.frames) /\ n \in Nat
  BY <1>1, <1>2, <1>3
<1> HIDE DEF n
<1>5. Survivors(f, kept) =
        [i \in 1 .. n |-> IF i <= f.synced \/ i \in kept THEN f.frames[i] ELSE Malformed]
  BY DEF Survivors, n
<1>6. Survivors(f, kept) \in [1 .. n -> Frames]
  BY <1>1, <1>4, <1>5, FrameKinds
<1>7. Survivors(f, kept) \in Seq(Frames) /\ Len(Survivors(f, kept)) = n
  BY <1>4, <1>5, <1>6, SeqDef, LenProperties
<1>8. \A i \in 1 .. n : Survivors(f, kept)[i] = f.frames[i] \/ Survivors(f, kept)[i] = Malformed
  BY <1>5
<1>9. \A i \in 1 .. f.synced : Survivors(f, kept)[i] = f.frames[i]
  BY <1>1, <1>4, <1>5
<1> QED
  BY <1>4, <1>7, <1>8, <1>9

\* A power loss leaves survivors, and perhaps part of a frame after them.
LEMMA PowerLossElements ==
    ASSUME NEW f \in Files, f.synced <= Len(f.frames), NEW g \in AfterPowerLoss(f)
    PROVE  \E kept \in SUBSET (f.synced + 1 .. Len(f.frames)), tail \in {<<>>, <<Torn>>} :
              /\ g \in Files /\ SameHeader(f, g) /\ g.synced = Len(g.frames)
              /\ g.frames = Survivors(f, kept) \o tail
              /\ Len(Survivors(f, kept)) = Len(f.frames) => tail = <<>>
<1> DEFINE Image(kept) ==
            LET length == Latest(kept \cup {f.synced}) IN
            [i \in 1 .. length |->
                IF i <= f.synced \/ i \in kept THEN f.frames[i] ELSE Malformed]
           Tails(frames) == IF Len(frames) < Len(f.frames) THEN {<<>>, <<Torn>>} ELSE {<<>>}
<1>1. PICK kept \in SUBSET (f.synced + 1 .. Len(f.frames)) :
        g \in {Synced([f EXCEPT !.frames = Image(kept) \o tail]) : tail \in Tails(Image(kept))}
  BY DEF AfterPowerLoss
<1>2. PICK tail \in Tails(Image(kept)) : g = Synced([f EXCEPT !.frames = Image(kept) \o tail])
  BY <1>1
<1>3. Image(kept) = Survivors(f, kept)
  BY DEF Survivors
<1> HIDE DEF Image
<1>4. tail \in {<<>>, <<Torn>>}
  BY <1>2
<1>5. g = Synced([f EXCEPT !.frames = Survivors(f, kept) \o tail])
  BY <1>2, <1>3
<1>6. Len(f.frames) \in Nat
  BY HeaderNumbers, FramesElements
<1>7. Len(Survivors(f, kept)) = Len(f.frames) => tail = <<>>
  BY <1>2, <1>3, <1>6
<1>8. <<>> \in Seq(Frames) /\ <<Torn>> \in Seq(Frames)
  BY FrameKinds
<1> DEFINE s == Survivors(f, kept) \o tail
<1>9. s \in Seq(Frames)
  BY <1>4, <1>8, SurvivorsElements, ConcatProperties
<1> HIDE DEF s
<1>10. /\ [f EXCEPT !.frames = s] \in Files /\ [f EXCEPT !.frames = s].frames = s
       /\ SameHeader(f, [f EXCEPT !.frames = s])
  BY <1>9 DEF Files, SameHeader
<1>11. g = Synced([f EXCEPT !.frames = s])
  BY <1>5 DEF s
<1>12. g \in Files /\ g.frames = s /\ g.synced = Len(g.frames) /\ SameHeader([f EXCEPT !.frames = s], g)
  BY <1>10, <1>11, SyncedFile
<1>13. SameHeader(f, g)
  BY <1>10, <1>12 DEF SameHeader
<1> QED
  BY <1>4, <1>7, <1>12, <1>13 DEF s

\* What can be read after it is a beginning of what could be read before, at least as
\* long as the part that was permanent.
LEMMA PowerLossKeeps ==
    ASSUME NEW f, SoundFile(f), NEW g \in AfterPowerLoss(f)
    PROVE  Keeps(f, g) /\ g.synced = Len(g.frames) /\ SameHeader(f, g)
<1>1. f \in Files /\ f.synced <= Len(f.frames) /\ TornIsLast(f.frames)
  BY DEF SoundFile, FileSound
<1>2. PICK kept \in SUBSET (f.synced + 1 .. Len(f.frames)), tail \in {<<>>, <<Torn>>} :
              /\ g \in Files /\ SameHeader(f, g) /\ g.synced = Len(g.frames)
              /\ g.frames = Survivors(f, kept) \o tail
              /\ Len(Survivors(f, kept)) = Len(f.frames) => tail = <<>>
  BY <1>1, PowerLossElements
<1> DEFINE s == Survivors(f, kept)
<1>3. /\ s \in Seq(Frames) /\ Len(s) \in f.synced .. Len(f.frames)
      /\ \A i \in 1 .. Len(s) : s[i] = f.frames[i] \/ s[i] = Malformed
      /\ \A i \in 1 .. f.synced : s[i] = f.frames[i]
  BY <1>1, SurvivorsElements
<1>4. g.frames = s \o tail /\ (Len(s) = Len(f.frames) => tail = <<>>)
  BY <1>2
<1> HIDE DEF s
<1>5. /\ f.frames \in Seq(Frames) /\ Len(f.frames) \in Nat /\ f.synced \in Nat
      /\ g.frames \in Seq(Frames) /\ Len(g.frames) \in Nat /\ Len(s) \in Nat
  BY <1>1, <1>2, <1>3, HeaderNumbers, FramesElements
<1>6. /\ Len(s) <= Len(g.frames) /\ \A i \in 1 .. Len(s) : g.frames[i] = s[i]
      /\ \A i \in 1 .. Len(g.frames) : i \notin 1 .. Len(s) =>
            i = Len(g.frames) /\ g.frames[i].kind = "Torn" /\ tail = <<Torn>>
  <2>1. CASE tail = <<>>
    <3>1. g.frames = s
      BY <1>3, <1>4, <2>1, ConcatEmptySeq
    <3> QED
      BY <1>5, <3>1
  <2>2. CASE tail = <<Torn>>
    <3>1. <<Torn>> \in Seq(Frames) /\ Len(<<Torn>>) = 1 /\ <<Torn>>[1] = Torn
      BY FrameKinds
    <3>2. /\ Len(g.frames) = Len(s) + 1
          /\ \A i \in 1 .. Len(s) + 1 :
               g.frames[i] = IF i <= Len(s) THEN s[i] ELSE <<Torn>>[i - Len(s)]
      BY <1>3, <1>4, <2>2, <3>1, ConcatProperties
    <3>3. g.frames[Len(s) + 1] = Torn
      BY <1>5, <3>1, <3>2
    <3>4. \A i \in 1 .. Len(s) : g.frames[i] = s[i]
      BY <1>5, <3>2
    <3>5. \A i \in 1 .. Len(g.frames) : i \notin 1 .. Len(s) => i = Len(s) + 1
      BY <1>5, <3>2
    <3> QED
      BY <1>5, <2>2, <3>2, <3>3, <3>4, <3>5, FrameKinds
  <2> QED
    BY <1>2, <2>1, <2>2
<1>7. Malformed.kind = "Malformed" /\ Torn.kind = "Torn"
  BY FrameKinds
<1>8. TornIsLast(g.frames)
  <2> SUFFICES ASSUME NEW i \in 1 .. Len(g.frames), g.frames[i].kind = "Torn", i # Len(g.frames)
               PROVE  FALSE
    BY DEF TornIsLast
  <2>1. i \in 1 .. Len(s) /\ i \in 1 .. Len(f.frames) /\ f.frames[i].kind = "Torn"
    BY <1>3, <1>5, <1>6, <1>7
  <2>2. i = Len(f.frames)
    BY <1>1, <2>1 DEF TornIsLast
  <2>3. Len(s) = Len(f.frames)
    BY <1>3, <1>5, <2>1, <2>2
  <2>4. g.frames = s
    BY <1>3, <1>4, <2>3, ConcatEmptySeq
  <2> QED
    BY <1>5, <2>1, <2>2, <2>3, <2>4
<1> DEFINE R == Readable(g)  Q == Readable(f)
<1>9. /\ R \in Seq(Frames) /\ Len(R) \in Nat /\ Alike(R, g.frames, Len(R))
      /\ \A i \in 1 .. Len(R) : R[i].kind \notin {"Torn", "Malformed"}
      /\ Q \in Seq(Frames) /\ Len(Q) \in Nat /\ Alike(Q, f.frames, Len(Q))
      /\ \A i \in 1 .. Len(Q) : Q[i].kind \notin {"Torn", "Malformed"}
  BY <1>1, <1>2, <1>8, FileReads, FramesElements
<1>10. Len(R) <= Len(f.frames) /\ \A i \in 1 .. Len(R) : R[i] = f.frames[i]
  <2>1. ASSUME NEW i \in 1 .. Len(R) PROVE i \in 1 .. Len(s) /\ R[i] = f.frames[i]
    <3>1. i \in 1 .. Len(g.frames) /\ R[i] = g.frames[i]
      BY <1>5, <1>9 DEF Alike
    <3>2. i \in 1 .. Len(s)
      BY <1>6, <1>9, <3>1
    <3> QED
      BY <1>3, <1>6, <1>7, <1>9, <3>1, <3>2
  <2>2. Len(R) > 0 => Len(R) \in 1 .. Len(R)
    BY <1>9
  <2> QED
    BY <1>3, <1>5, <1>9, <2>1, <2>2
<1>11. Alike(R, Q, Len(R))
  <2>1. Len(R) <= Len(Q)
    <3>1. \A i \in 1 .. Len(R) : f.frames[i].kind \notin {"Torn", "Malformed"}
      BY <1>9, <1>10
    <3>2. Len(R) \in 0 .. Len(f.frames)
      BY <1>5, <1>9, <1>10
    <3> QED
      BY <1>1, <3>1, <3>2, ReadsAtLeast
  <2> QED
    BY <1>9, <1>10, <2>1 DEF Alike
<1>12. Sure(g) = R
  BY <1>2, <1>5, <1>8, <1>9, SureReads DEF Alike
<1> DEFINE S == Sure(f)
<1>13. /\ S \in Seq(Frames) /\ Len(S) \in Nat /\ Alike(S, Q, Len(S)) /\ Len(S) <= f.synced
  <2>1. S \in Seq(Frames) /\ Len(S) \in Nat /\ Alike(S, Q, Len(S))
        /\ (f.synced <= Len(Q) => Len(S) = f.synced) /\ (f.synced >= Len(Q) => S = Q)
    BY <1>1, SureReads, FramesElements
  <2> QED
    BY <1>5, <1>9, <2>1
<1> HIDE DEF R, Q, S
<1>14. Alike(S, R, Len(S))
  <2>1. \A i \in 1 .. Len(S) : S[i] = f.frames[i] /\ S[i].kind \notin {"Torn", "Malformed"}
    BY <1>9, <1>13 DEF Alike
  <2>2. \A i \in 1 .. Len(S) : i \in 1 .. f.synced /\ i \in 1 .. Len(s)
    BY <1>3, <1>5, <1>13
  <2>3. \A i \in 1 .. Len(S) : g.frames[i] = f.frames[i]
    BY <1>3, <1>6, <2>2
  <2>4. Len(S) \in 0 .. Len(g.frames)
    BY <1>3, <1>5, <1>6, <1>13
  <2>5. Len(S) <= Len(R)
    BY <1>2, <1>8, <2>1, <2>3, <2>4, ReadsAtLeast DEF R
  <2> QED
    BY <1>9, <1>13, <2>1, <2>3, <2>5 DEF Alike
<1>15. Settles(f, g)
  BY <1>2, <1>8, <1>11, <1>12, <1>14 DEF Settles, R, Q, S
<1>16. FromFile(f.frames, g.frames)
  <2> SUFFICES ASSUME NEW i \in 1 .. Len(g.frames), g.frames[i].kind = "Record"
               PROVE  i \in 1 .. Len(f.frames) /\ g.frames[i] = f.frames[i]
    BY DEF FromFile
  <2>1. i \in 1 .. Len(s)
    BY <1>6
  <2> QED
    BY <1>3, <1>5, <1>6, <1>7, <2>1
<1>17. g.synced <= Len(g.frames)
  BY <1>2, <1>5
<1> QED
  BY <1>2, <1>15, <1>16, <1>17, SettledKeeps

----------------------------------------------------------------------------
(* Writes                                                                   *)

\* The file g is f with t for its frames, and nothing more of it permanent.
Written(f, g, t) ==
    /\ g \in Files /\ SameHeader(f, g) /\ g.synced = f.synced
    /\ t \in Seq(Frames) /\ Alike(f.frames, t, Len(f.frames))
    /\ g.frames = t \/ g.frames = t \o <<Torn>>

\* A write that succeeds adds its frames.
LEMMA WrittenAll ==
    ASSUME NEW f \in Files, NEW u \in Seq(Frames)
    PROVE  /\ Written(f, Extended(f, u), Extended(f, u).frames)
           /\ Extended(f, u).frames = f.frames \o u
           /\ Len(Extended(f, u).frames) = Len(f.frames) + Len(u)
           /\ \A m \in 1 .. Len(u) : Extended(f, u).frames[Len(f.frames) + m] = u[m]
<1> DEFINE g == Extended(f, u)  t == f.frames \o u
<1>1. f.frames \in Seq(Frames) /\ Len(f.frames) \in Nat /\ Len(u) \in Nat
  BY HeaderNumbers, FramesElements
<1>2. t \in Seq(Frames) /\ Len(t) = Len(f.frames) + Len(u)
      /\ (\A i \in 1 .. Len(f.frames) : t[i] = f.frames[i])
      /\ (\A m \in 1 .. Len(u) : t[Len(f.frames) + m] = u[m])
  BY <1>1
<1>3. g = [f EXCEPT !.frames = t]
  BY DEF Extended
<1> HIDE DEF t
<1>4. g \in Files /\ g.frames = t /\ g.synced = f.synced /\ SameHeader(f, g)
  BY <1>2, <1>3 DEF Files, SameHeader
<1>5. Alike(f.frames, t, Len(f.frames))
  BY <1>1, <1>2 DEF Alike
<1> QED
  BY <1>2, <1>4, <1>5 DEF Written, t

\* One that fails adds some of them, and perhaps part of the next.
LEMMA WrittenPart ==
    ASSUME NEW f \in Files, NEW u \in Seq(Frames), NEW g \in Interrupted(f, u)
    PROVE  \E n \in 0 .. Len(u) - 1, t \in Seq(Frames) :
              /\ Written(f, g, t)
              /\ Len(t) = Len(f.frames) + n
              /\ \A m \in 1 .. n : t[Len(f.frames) + m] = u[m]
<1>1. f.frames \in Seq(Frames) /\ Len(f.frames) \in Nat /\ Len(u) \in Nat
  BY HeaderNumbers, FramesElements
<1>2. PICK n \in 0 .. Len(u) - 1, end \in {<<>>, <<Torn>>} : g = Extended(f, SubSeq(u, 1, n) \o end)
  BY DEF Interrupted
<1> DEFINE v == SubSeq(u, 1, n)  t == f.frames \o v
<1>3. v \in Seq(Frames) /\ Len(v) = n /\ (\A m \in 1 .. n : v[m] = u[m])
  BY <1>1, PrefixElements
<1> HIDE DEF v
<1>4. t \in Seq(Frames) /\ Len(t) = Len(f.frames) + n
      /\ (\A i \in 1 .. Len(f.frames) : t[i] = f.frames[i])
      /\ (\A m \in 1 .. n : t[Len(f.frames) + m] = v[m])
  BY <1>1, <1>3
<1>5. Alike(f.frames, t, Len(f.frames))
  BY <1>1, <1>4 DEF Alike
<1>6. v \o end \in Seq(Frames) /\ <<Torn>> \in Seq(Frames)
  <2>1. Torn \in Frames
    BY FrameKinds
  <2>2. <<Torn>> \in Seq(Frames)
    BY <2>1
  <2>3. <<>> \in Seq(Frames)
    OBVIOUS
  <2>4. end \in Seq(Frames)
    BY <2>2, <2>3
  <2> QED
    BY <1>3, <2>2, <2>4
<1>7. g \in Files /\ SameHeader(f, g) /\ g.synced = f.synced /\ g.frames = f.frames \o (v \o end)
  BY <1>2, <1>6, WrittenAll DEF v, Written
<1>8. g.frames = t \/ g.frames = t \o <<Torn>>
  <2>1. CASE end = <<>>
    <3>1. v \o end = v
      BY <1>3, <2>1
    <3> QED
      BY <1>7, <3>1
  <2>2. CASE end = <<Torn>>
    <3>1. f.frames \o (v \o <<Torn>>) = (f.frames \o v) \o <<Torn>>
      <4>1. <<Torn>> \in Seq(Frames)
        BY <1>6
      <4>2. f.frames \in Seq(Frames) /\ v \in Seq(Frames)
        BY <1>1, <1>3
      <4>3. \A a, b, c \in Seq(Frames) : (a \o b) \o c = a \o (b \o c)
        BY ConcatAssociative
      <4>4. (f.frames \o v) \o <<Torn>> = f.frames \o (v \o <<Torn>>)
        BY <4>1, <4>2, <4>3, Zenon
      <4> QED
        BY <4>4
    <3> QED
      BY <1>7, <2>2, <3>1
  <2> QED
    BY <2>1, <2>2
<1>9. Written(f, g, t)
  BY <1>4, <1>5, <1>7, <1>8 DEF Written
<1>10. \A m \in 1 .. n : t[Len(f.frames) + m] = u[m]
  BY <1>3, <1>4
<1> HIDE DEF t
<1> QED
  BY <1>4, <1>9, <1>10

\* A torn frame or a new one that is no record does not take a commit record with it.
LEMMA WrittenKeeps ==
    ASSUME NEW f, Appendable(f), NEW g, NEW t, Written(f, g, t), Sound(f, t),
           \A i \in Len(f.frames) + 1 .. Len(t) : t[i].kind \notin {"Torn", "Malformed"},
           Records(t) = Records(f.frames),
           \A by : CommitFrames(t, by) # {} => CommitFrames(f.frames, by) # {}
    PROVE  Keeps(f, g) /\ ~Lost(g)
<1>1. /\ f \in Files /\ f.frames \in Seq(Frames) /\ Len(f.frames) \in Nat
      /\ Readable(f) = f.frames /\ Sound(f, Sure(f)) /\ Sure(f) \in Seq(Frames)
      /\ Alike(Sure(f), f.frames, Len(Sure(f))) /\ Sound(f, f.frames)
  BY AppendableReads
<1>2. /\ g \in Files /\ SameHeader(f, g) /\ g.synced = f.synced
      /\ t \in Seq(Frames) /\ Alike(f.frames, t, Len(f.frames))
      /\ g.frames = t \/ g.frames = t \o <<Torn>>
  BY DEF Written
<1>3. /\ SoundFile(g) /\ ~Lost(g) /\ Readable(g) = t
      /\ AllocatedEpoch(g, Sure(g)) = AllocatedEpoch(f, Sure(f))
      /\ DurableLen(g, Sure(g)) = DurableLen(f, Sure(f))
      /\ \A by : CommittedIn(f, by) => CommittedIn(g, by)
  BY <1>2, GrownFile
<1>4. /\ Records(Readable(g)) = Records(Readable(f))
      /\ DurableLen(f, Sure(f)) \in Nat /\ AllocatedEpoch(f, Sure(f)) \in Nat
      /\ Len(Records(Readable(f))) \in Nat
      /\ DurableLen(f, Sure(f)) <= Len(Records(Readable(f)))
  <2>1. DurableLen(f, Sure(f)) \in 0 .. Cardinality(Ends(Sure(f)))
    BY <1>1, DurableCount
  <2>2. Len(Records(Sure(f))) = Cardinality(Ends(Sure(f))) /\ Records(Sure(f)) \in Seq(LogRecords)
    BY <1>1, RecordsRead
  <2>3. Len(Records(Sure(f))) <= Len(Records(f.frames))
    BY <1>1, PrefixNumbers
  <2>4. Len(Records(f.frames)) \in Nat /\ Cardinality(Ends(Sure(f))) \in Nat
    BY <1>1, RecordsRead, FrameNumbers
  <2> QED
    BY <1>1, <1>3, <2>1, <2>2, <2>3, <2>4, FrameNumbers
<1>5. ASSUME NEW by, CommitFrames(g.frames, by) # {}
      PROVE  CommitFrames(f.frames, by) # {}
  <2>1. FromFile(t, g.frames)
    <3>1. Len(t) \in Nat
      BY <1>2, FramesElements
    <3>2. CASE g.frames = t
      BY <3>2 DEF FromFile
    <3>3. CASE g.frames = t \o <<Torn>>
      <4>1. Len(g.frames) = Len(t) + 1 /\ g.frames[Len(t) + 1] = Torn
            /\ \A i \in 1 .. Len(t) : g.frames[i] = t[i]
        BY <1>2, <3>1, <3>3
      <4>2. SUFFICES ASSUME NEW i \in 1 .. Len(g.frames), g.frames[i].kind = "Record"
                     PROVE  i \in 1 .. Len(t) /\ g.frames[i] = t[i]
        BY DEF FromFile
      <4>3. i # Len(t) + 1
        BY <4>1, <4>2, FrameKinds
      <4> QED
        BY <3>1, <4>1, <4>3
    <3> QED
      BY <1>2, <3>2, <3>3
  <2>2. g.frames \in Seq(Frames)
    BY <1>2, HeaderNumbers
  <2>3. CommitFrames(t, by) # {}
    BY <1>2, <1>5, <2>1, <2>2, CommitsFrom
  <2> QED
    BY <2>3
<1> QED
  BY <1>3, <1>4, <1>5 DEF Keeps

\* The frames of a record are its parts in order.
LEMMA GroupFrames ==
    ASSUME NEW r \in LogRecords
    PROVE  /\ FramesOf(r) \in Seq(Frames) /\ Len(FramesOf(r)) = FramesIn(r)
           /\ \A m \in 1 .. FramesIn(r) : FramesOf(r)[m] = RecordFrame(r, m)
<1>1. FramesIn(r) \in Nat
  BY FramesInType
<1>2. \A m \in 1 .. FramesIn(r) : RecordFrame(r, m) \in Frames
  BY FramesMade
<1> HIDE DEF RecordFrame
<1>3. FramesOf(r) = [part \in 1 .. FramesIn(r) |-> RecordFrame(r, part)]
  BY DEF FramesOf
<1> QED
  BY <1>1, <1>2, <1>3

\* What keeps a file that keeps another keeps that one.
LEMMA KeepsTransitive ==
    ASSUME NEW f, NEW g, NEW h, SoundFile(f), Keeps(f, g), Keeps(g, h)
    PROVE  Keeps(f, h)
<1>1. ASSUME NEW e, SoundFile(e)
      PROVE  /\ AllocatedEpoch(e, Sure(e)) \in Nat
             /\ DurableLen(e, Sure(e)) \in Nat
             /\ Len(Records(Readable(e))) \in Nat
  <2>1. e \in Files /\ TornIsLast(e.frames) /\ Sound(e, Readable(e))
    BY <1>1 DEF SoundFile, FileSound
  <2>2. Sure(e) \in Seq(Frames) /\ Readable(e) \in Seq(Frames)
        /\ Alike(Sure(e), Readable(e), Len(Sure(e)))
    BY <2>1, SureReads, FileReads
  <2>3. Sound(e, Sure(e))
    BY <2>1, <2>2, PrefixNumbers
  <2>4. DurableLen(e, Sure(e)) \in 0 .. Cardinality(Ends(Sure(e)))
    BY <2>1, <2>2, <2>3, DurableCount
  <2>5. Len(Records(Readable(e))) = Cardinality(Ends(Readable(e)))
    BY <2>1, <2>2, RecordsRead
  <2> QED
    BY <2>1, <2>2, <2>4, <2>5, FrameNumbers
<1>2. SoundFile(g) /\ SoundFile(h)
  BY DEF Keeps
<1>3. /\ AllocatedEpoch(f, Sure(f)) <= AllocatedEpoch(h, Sure(h))
      /\ DurableLen(f, Sure(f)) <= DurableLen(h, Sure(h))
      /\ DurableLen(h, Sure(h)) <= Len(Records(Readable(h)))
      /\ Len(Records(Readable(h))) <= Len(Records(Readable(f)))
  BY <1>1, <1>2 DEF Keeps
<1>4. /\ \A by : CommittedIn(f, by) => CommittedIn(h, by)
      /\ \A by : CommitFrames(h.frames, by) # {} => CommitFrames(f.frames, by) # {}
  BY DEF Keeps
<1>5. ASSUME NEW n \in 1 .. Len(Records(Readable(h)))
      PROVE  Records(Readable(h))[n] = Records(Readable(f))[n]
  <2>1. n \in 1 .. Len(Records(Readable(g)))
    BY <1>1, <1>2 DEF Keeps
  <2> QED
    BY <2>1 DEF Keeps
<1> QED
  BY <1>2, <1>3, <1>4, <1>5 DEF Keeps

\* Nothing but volatile records awaits a sync_all.
LEMMA VolatileSure ==
    ASSUME NEW f, Appendable(f)
    PROVE  /\ AllocatedEpoch(f, Sure(f)) <= AllocatedEpoch(f, f.frames)
           /\ VolatileUnsynced(f) =>
                /\ AllocatedEpoch(f, Sure(f)) = AllocatedEpoch(f, f.frames)
                /\ LastDurable(f, Sure(f)) = LastDurable(f, f.frames)
                /\ DurableLen(f, Sure(f)) = DurableLen(f, f.frames)
<1> DEFINE s == Sure(f)  t == f.frames
<1>1. /\ f \in Files /\ t \in Seq(Frames) /\ s \in Seq(Frames) /\ Sound(f, t) /\ Sound(f, s)
      /\ Alike(s, t, Len(s)) /\ Len(s) = f.synced /\ f.synced \in Nat /\ Len(t) \in Nat
  BY AppendableReads
<1> HIDE DEF s, t
<1>2. AllocatedEpoch(f, s) <= AllocatedEpoch(f, t)
  BY <1>1, PrefixNumbers
<1>3. ASSUME VolatileUnsynced(f)
      PROVE  /\ AllocatedEpoch(f, s) = AllocatedEpoch(f, t)
             /\ LastDurable(f, s) = LastDurable(f, t)
             /\ DurableLen(f, s) = DurableLen(f, t)
  <2>1. ASSUME NEW k, k # "Record"
        PROVE  Of(s, k) = Of(t, k)
    <3>1. ASSUME NEW i, i \in Of(t, k)
          PROVE  i \in Of(s, k)
      <4>1. i \in 1 .. Len(t) /\ t[i].kind = k
        BY <1>1, <3>1, OfElements
      <4>2. ~(i > f.synced)
        BY <1>3, <2>1, <4>1 DEF VolatileUnsynced, t
      <4>3. i \in 1 .. Len(s)
        BY <1>1, <4>1, <4>2
      <4>4. s[i] = t[i]
        BY <1>1, <4>3 DEF Alike
      <4> QED
        BY <1>1, <4>1, <4>3, <4>4, OfElements
    <3>2. Of(s, k) \in SUBSET Of(t, k)
      BY <1>1, PrefixNumbers
    <3> QED
      BY <3>1, <3>2
  <2>2. AllocatedEpoch(f, s) = AllocatedEpoch(f, t)
    BY <2>1 DEF AllocatedEpoch
  <2>3. LastDurable(f, s) = LastDurable(f, t)
    <3> DEFINE d == LastDurable(f, t)
    <3>1. /\ d \in Nat /\ DurableBefore(f) <= d
          /\ d = DurableBefore(f) \/ \E i \in Of(t, "DurableThrough") : t[i].value = d
          /\ \A i \in Of(t, "DurableThrough") : t[i].value <= d
      BY <1>1, DurablePositions, HeaderNumbers
    <3> HIDE DEF d
    <3>2. Of(s, "DurableThrough") = Of(t, "DurableThrough")
      BY <2>1
    <3>3. \A i \in Of(s, "DurableThrough") : s[i] = t[i]
      <4>1. \A i \in Of(s, "DurableThrough") : i \in 1 .. Len(s)
        BY <1>1, OfElements
      <4> QED
        BY <1>1, <4>1 DEF Alike
    <3>4. d = DurableBefore(f) \/ \E i \in Of(s, "DurableThrough") : s[i].value = d
      BY <3>1, <3>2, <3>3
    <3>5. \A i \in Of(s, "DurableThrough") : s[i].value <= d
      BY <3>1, <3>2, <3>3
    <3>6. LastDurable(f, s) = d
      BY <1>1, <3>1, <3>4, <3>5, DurableIs
    <3> QED
      BY <3>6 DEF d
  <2>4. DurableLen(f, s) = DurableLen(f, t)
    <3>1. CompletedBefore(f) \in Nat /\ LastDurable(f, s) \in Nat
      BY <1>1, HeaderNumbers, DurablePositions
    <3> QED
      BY <1>1, <2>3, <3>1, DurableCount
  <2> QED
    BY <2>2, <2>3, <2>4
<1> QED
  BY <1>2, <1>3 DEF s, t

\* A record may be written next.
NextRecord(f, r) ==
    /\ r \in LogRecords
    /\ r.at = LastCompleted(f, f.frames) + 1 /\ r.by <= AllocatedEpoch(f, f.frames)
    /\ r.kind = "Commit" => CommitFrames(f.frames, r.by) = {}

\* A record that is not wholly written changes nothing that was there.
LEMMA RecordInterrupted ==
    ASSUME NEW f, Appendable(f), NEW r, NextRecord(f, r),
           NEW g \in Interrupted(f, FramesOf(r))
    PROVE  Keeps(f, g) /\ ~Lost(g)
<1>1. /\ f \in Files /\ f.frames \in Seq(Frames) /\ Len(f.frames) \in Nat
      /\ Sound(f, f.frames) /\ PendingLen(f.frames) = 0
  BY AppendableReads DEF Appendable
<1>2. /\ r \in LogRecords /\ FramesIn(r) \in Nat /\ (r.kind = "Commit" => FramesIn(r) = 1)
      /\ FramesOf(r) \in Seq(Frames) /\ Len(FramesOf(r)) = FramesIn(r)
      /\ \A m \in 1 .. FramesIn(r) : FramesOf(r)[m] = RecordFrame(r, m)
  BY FramesInType, GroupFrames DEF NextRecord
<1>3. PICK n \in 0 .. FramesIn(r) - 1, t \in Seq(Frames) :
         /\ Written(f, g, t) /\ Len(t) = Len(f.frames) + n
         /\ \A m \in 1 .. n : t[Len(f.frames) + m] = FramesOf(r)[m]
  <2>1. \E n \in 0 .. Len(FramesOf(r)) - 1, t \in Seq(Frames) :
           /\ Written(f, g, t) /\ Len(t) = Len(f.frames) + n
           /\ \A m \in 1 .. n : t[Len(f.frames) + m] = FramesOf(r)[m]
    BY <1>1, <1>2, WrittenPart
  <2> QED
    BY <1>2, <2>1
<1>4. Alike(f.frames, t, Len(f.frames)) /\ Len(t) \in Nat
  BY <1>3, FramesElements DEF Written
<1>5. n \in 0 .. FramesIn(r) /\ n < FramesIn(r) /\ Begun(f.frames, r, n, t)
  <2>1. n \in 0 .. FramesIn(r) /\ n < FramesIn(r)
    BY <1>2
  <2>2. ASSUME NEW m \in 1 .. n
        PROVE  t[Len(f.frames) + m] = RecordFrame(r, m)
    <3>1. m \in 1 .. FramesIn(r)
      BY <1>2, <2>1
    <3> QED
      BY <1>2, <1>3, <3>1
  <2> QED
    BY <1>3, <1>4, <2>1, <2>2 DEF Begun, Alike
<1>6. /\ Sound(f, t) /\ Records(t) = Records(f.frames)
      /\ \A by : CommitFrames(t, by) # {} =>
           CommitFrames(f.frames, by) # {} \/ (r.kind = "Commit" /\ r.by = by)
  BY <1>1, <1>2, <1>3, <1>5, GroupGrows DEF NextRecord
<1>7. \A i \in Len(f.frames) + 1 .. Len(t) : t[i].kind = "Record"
  <2>1. \A i \in Len(f.frames) + 1 .. Len(t) :
           t[i].kind = "Record" /\ t[i].record = r /\ t[i].part = i - Len(f.frames)
    <3>1. n \in 0 .. FramesIn(r) /\ Begun(f.frames, r, n, t)
      BY <1>5
    <3>2. /\ r \in LogRecords /\ r.at = LastCompleted(f, f.frames) + 1
          /\ r.by <= AllocatedEpoch(f, f.frames)
          /\ r.kind = "Commit" => CommitFrames(f.frames, r.by) = {}
      BY DEF NextRecord
    <3> QED
      BY <1>1, <3>1, <3>2, GroupSound
  <2> QED
    BY <2>1
<1>8. ASSUME NEW by, CommitFrames(t, by) # {}
      PROVE  CommitFrames(f.frames, by) # {}
  <2>1. CASE r.kind = "Commit"
    <3>1. Len(t) = Len(f.frames)
      BY <1>1, <1>2, <1>3, <2>1
    <3>2. FromFile(f.frames, t)
      BY <1>4, <3>1 DEF FromFile, Alike
    <3> QED
      BY <1>1, <1>8, <3>2, CommitsFrom
  <2>2. CASE r.kind # "Commit"
    BY <1>6, <1>8, <2>2
  <2> QED
    BY <2>1, <2>2
<1> QED
  BY <1>3, <1>6, <1>7, <1>8, WrittenKeeps

\* What a record that is written whole changes.
RecordAdded(f, r, g) ==
    /\ Appendable(g) /\ SameHeader(f, g) /\ Sure(g) = Sure(f)
    /\ Records(g.frames) = Append(Records(f.frames), r)
    /\ LastCompleted(g, g.frames) = LastCompleted(f, f.frames) + 1
    /\ LastDurable(g, g.frames) = LastDurable(f, f.frames)
    /\ DurableLen(g, g.frames) = DurableLen(f, f.frames)
    /\ AllocatedEpoch(g, g.frames) = AllocatedEpoch(f, f.frames)
    /\ AllocatedEpoch(g, Sure(g)) = AllocatedEpoch(f, Sure(f))
    /\ DurableLen(g, Sure(g)) = DurableLen(f, Sure(f))
    /\ \A by : CommittedIn(f, by) => CommittedIn(g, by)
    /\ \A by : CommitFrames(g.frames, by) # {} =>
         CommitFrames(f.frames, by) # {} \/ (r.kind = "Commit" /\ r.by = by)
    /\ VolatileUnsynced(f) => VolatileUnsynced(g)

\* append_commit and append_page_group: a record wholly written is added to the
\* file.
LEMMA RecordWritten ==
    ASSUME NEW f, Appendable(f), NEW r, NextRecord(f, r)
    PROVE  RecordAdded(f, r, Extended(f, FramesOf(r)))
<1> DEFINE g == Extended(f, FramesOf(r))
           t == g.frames  n == FramesIn(r)
<1>1. /\ f \in Files /\ f.frames \in Seq(Frames) /\ Len(f.frames) \in Nat
      /\ Sound(f, f.frames) /\ PendingLen(f.frames) = 0
  BY AppendableReads DEF Appendable
<1>2. /\ r \in LogRecords /\ n \in Nat
      /\ FramesOf(r) \in Seq(Frames) /\ Len(FramesOf(r)) = n
      /\ \A m \in 1 .. n : FramesOf(r)[m] = RecordFrame(r, m)
  BY FramesInType, GroupFrames DEF NextRecord
<1>3. /\ Written(f, g, t) /\ Len(t) = Len(f.frames) + n
      /\ \A m \in 1 .. n : t[Len(f.frames) + m] = FramesOf(r)[m]
  BY <1>1, <1>2, WrittenAll
<1>4. /\ t \in Seq(Frames) /\ Alike(f.frames, t, Len(f.frames)) /\ Len(t) \in Nat
      /\ g \in Files /\ SameHeader(f, g) /\ g.synced = f.synced
  BY <1>3, FramesElements DEF Written
<1> HIDE DEF g, t, n
<1>5. n \in 0 .. FramesIn(r) /\ n = FramesIn(r) /\ Begun(f.frames, r, n, t)
  <2>1. n \in 0 .. FramesIn(r) /\ n = FramesIn(r)
    BY <1>2 DEF n
  <2>2. \A m \in 1 .. n : t[Len(f.frames) + m] = RecordFrame(r, m)
    BY <1>2, <1>3
  <2> QED
    BY <1>3, <1>4, <2>1, <2>2 DEF Begun, Alike
<1>6. /\ Sound(f, t) /\ AllocatedEpoch(f, t) = AllocatedEpoch(f, f.frames)
      /\ LastDurable(f, t) = LastDurable(f, f.frames)
      /\ DurableLen(f, t) = DurableLen(f, f.frames)
      /\ LastCompleted(f, t) = LastCompleted(f, f.frames) + 1
      /\ Records(t) = Append(Records(f.frames), r) /\ PendingLen(t) = 0
      /\ \A by : CommitFrames(t, by) # {} =>
           CommitFrames(f.frames, by) # {} \/ (r.kind = "Commit" /\ r.by = by)
  <2>1. /\ Sound(f, t) /\ AllocatedEpoch(f, t) = AllocatedEpoch(f, f.frames)
        /\ LastDurable(f, t) = LastDurable(f, f.frames)
        /\ DurableLen(f, t) = DurableLen(f, f.frames)
        /\ n = FramesIn(r) => /\ LastCompleted(f, t) = LastCompleted(f, f.frames) + 1
                              /\ Records(t) = Append(Records(f.frames), r)
                              /\ PendingLen(t) = 0
        /\ \A by : CommitFrames(t, by) # {} =>
             CommitFrames(f.frames, by) # {} \/ (r.kind = "Commit" /\ r.by = by)
    <3>1. n \in 0 .. FramesIn(r) /\ Begun(f.frames, r, n, t)
      BY <1>5
    <3>2. /\ r \in LogRecords /\ r.at = LastCompleted(f, f.frames) + 1
          /\ r.by <= AllocatedEpoch(f, f.frames)
          /\ r.kind = "Commit" => CommitFrames(f.frames, r.by) = {}
      BY DEF NextRecord
    <3>3. t \in Seq(Frames)
      BY <1>4
    <3> QED
      BY <1>1, <3>1, <3>2, <3>3, GroupGrows
  <2> QED
    BY <1>5, <2>1
<1>7. \A i \in Len(f.frames) + 1 .. Len(t) : t[i].kind = "Record" /\ t[i].record = r
  <2>1. n \in 0 .. FramesIn(r) /\ Begun(f.frames, r, n, t)
    BY <1>5
  <2> QED
    BY <1>1, <1>2, <1>4, <2>1, GroupSound DEF NextRecord
<1>8. /\ SoundFile(g) /\ ~Lost(g) /\ ~EndsTorn(g.frames) /\ Sure(g) = Sure(f)
      /\ AllocatedEpoch(g, Sure(g)) = AllocatedEpoch(f, Sure(f))
      /\ DurableLen(g, Sure(g)) = DurableLen(f, Sure(f))
      /\ \A by : CommittedIn(f, by) => CommittedIn(g, by)
  BY <1>4, <1>6, <1>7, GrownFile DEF t
<1>9. Appendable(g)
  BY <1>6, <1>8 DEF Appendable, t
<1>10. ASSUME VolatileUnsynced(f), NEW i \in 1 .. Len(t), i > g.synced
       PROVE  t[i].kind = "Record" /\ t[i].record.at > LastDurable(f, t)
  <2>1. CASE i \in 1 .. Len(f.frames)
    BY <1>4, <1>5, <1>6, <1>10, <2>1 DEF VolatileUnsynced, Begun
  <2>2. CASE i \notin 1 .. Len(f.frames)
    <3>1. t[i].kind = "Record" /\ t[i].record = r
      BY <1>1, <1>4, <1>7, <1>10, <2>2
    <3>2. LastDurable(f, f.frames) \in DurableBefore(f) .. LastCompleted(f, f.frames)
          /\ LastCompleted(f, f.frames) \in Nat /\ DurableBefore(f) \in Nat
      BY <1>1, DurablePositions, HeaderNumbers, FrameNumbers
    <3> QED
      BY <1>6, <3>1, <3>2 DEF NextRecord
  <2> QED
    BY <2>1, <2>2
<1>11. /\ LastCompleted(g, t) = LastCompleted(f, t) /\ LastDurable(g, t) = LastDurable(f, t)
       /\ DurableLen(g, t) = DurableLen(f, t) /\ AllocatedEpoch(g, t) = AllocatedEpoch(f, t)
  BY <1>4, HeaderOnly
<1>12. VolatileUnsynced(f) => VolatileUnsynced(g)
  BY <1>10, <1>11 DEF VolatileUnsynced, t
<1> QED
  BY <1>4, <1>6, <1>8, <1>9, <1>11, <1>12 DEF RecordAdded, g, t

\* A write of one frame that fails leaves the frames before it.
LEMMA SingleInterrupted ==
    ASSUME NEW f, Appendable(f), NEW x \in Frames, NEW g \in Interrupted(f, <<x>>)
    PROVE  Keeps(f, g) /\ ~Lost(g)
<1>1. f \in Files /\ f.frames \in Seq(Frames) /\ Len(f.frames) \in Nat /\ Sound(f, f.frames)
  BY AppendableReads
<1>2. <<x>> \in Seq(Frames) /\ Len(<<x>>) = 1
  OBVIOUS
<1>3. PICK n \in 0 .. Len(<<x>>) - 1, t \in Seq(Frames) :
         Written(f, g, t) /\ Len(t) = Len(f.frames) + n
  BY <1>1, <1>2, WrittenPart
<1>4. Len(t) = Len(f.frames)
  BY <1>1, <1>2, <1>3
<1>5. Alike(f.frames, t, Len(f.frames))
  BY <1>3 DEF Written
<1>6. t = f.frames
  BY <1>1, <1>4, <1>5 DEF Alike
<1>7. \A i \in Len(f.frames) + 1 .. Len(t) : t[i].kind \notin {"Torn", "Malformed"}
  BY <1>1, <1>4
<1> QED
  BY <1>1, <1>3, <1>6, <1>7, WrittenKeeps

\* What a frame that is no record, written whole and synchronized, changes.
LEMMA SingleWritten ==
    ASSUME NEW f, Appendable(f), NEW x \in Frames,
           x.kind \notin {"Record", "Torn", "Malformed"},
           NEW g, g = Extended(f, <<x>>), Sound(f, g.frames), PendingLen(g.frames) = 0,
           Records(g.frames) = Records(f.frames),
           \A by : CommitFrames(g.frames, by) = CommitFrames(f.frames, by)
    PROVE  /\ Keeps(f, g) /\ Appendable(g) /\ SameHeader(f, g)
           /\ Keeps(f, Synced(g)) /\ Appendable(Synced(g)) /\ SameHeader(f, Synced(g))
           /\ Synced(g).frames = g.frames /\ Sure(Synced(g)) = g.frames
           /\ Synced(g).synced = Len(g.frames)
<1> DEFINE t == g.frames
<1>1. f \in Files /\ f.frames \in Seq(Frames) /\ Len(f.frames) \in Nat /\ Sound(f, f.frames)
      /\ SoundFile(f)
  BY AppendableReads DEF Appendable
<1>2. <<x>> \in Seq(Frames) /\ Len(<<x>>) = 1 /\ <<x>>[1] = x
  OBVIOUS
<1>3. /\ Written(f, g, t) /\ Len(t) = Len(f.frames) + 1
      /\ \A m \in 1 .. 1 : t[Len(f.frames) + m] = <<x>>[m]
  BY <1>1, <1>2, WrittenAll
<1>4. /\ g \in Files /\ SameHeader(f, g) /\ g.synced = f.synced /\ t \in Seq(Frames)
      /\ Alike(f.frames, t, Len(f.frames))
  BY <1>3 DEF Written
<1> HIDE DEF t
<1>5. \A i \in Len(f.frames) + 1 .. Len(t) : t[i].kind \notin {"Torn", "Malformed"}
  <2>1. t[Len(f.frames) + 1] = x
    BY <1>2, <1>3
  <2>2. SUFFICES ASSUME NEW i \in Len(f.frames) + 1 .. Len(t)
                 PROVE  t[i].kind \notin {"Torn", "Malformed"}
    OBVIOUS
  <2>3. i = Len(f.frames) + 1
    BY <1>1, <1>3
  <2> QED
    BY <2>1, <2>3
<1>6. Keeps(f, g) /\ ~Lost(g)
  BY <1>3, <1>5, WrittenKeeps DEF t
<1>7. SoundFile(g) /\ ~EndsTorn(g.frames)
  BY <1>4, <1>5, GrownFile DEF t
<1>8. Appendable(g)
  BY <1>6, <1>7 DEF Appendable
<1>9. Keeps(g, Synced(g)) /\ Sure(Synced(g)) = Readable(g) /\ Appendable(Synced(g))
  BY <1>7, <1>8, SyncedKeeps
<1>10. Keeps(f, Synced(g))
  BY <1>1, <1>6, <1>9, KeepsTransitive
<1>11. SameHeader(g, Synced(g)) /\ Synced(g).frames = g.frames /\ Synced(g).synced = Len(g.frames)
  BY <1>4, SyncedFile
<1>12. Readable(g) = g.frames
  BY <1>8, AppendableReads
<1> QED
  BY <1>4, <1>6, <1>8, <1>9, <1>10, <1>11, <1>12 DEF SameHeader

\* What one new frame is, at the end.
LEMMA SingleEnd ==
    ASSUME NEW f, Appendable(f), NEW x \in Frames, NEW g, g = Extended(f, <<x>>)
    PROVE  /\ g.frames \in Seq(Frames) /\ Len(g.frames) = Len(f.frames) + 1
           /\ Alike(f.frames, g.frames, Len(f.frames)) /\ g.frames[Len(g.frames)] = x
<1>1. f \in Files /\ f.frames \in Seq(Frames) /\ Len(f.frames) \in Nat
  BY AppendableReads
<1>2. <<x>> \in Seq(Frames) /\ Len(<<x>>) = 1 /\ <<x>>[1] = x
  OBVIOUS
<1>3. Written(f, g, g.frames) /\ g.frames = f.frames \o <<x>>
  BY <1>1, <1>2, WrittenAll
<1>4. Len(g.frames) = Len(f.frames) + 1 /\ g.frames[Len(f.frames) + 1] = x
  BY <1>1, <1>2, <1>3
<1> QED
  BY <1>3, <1>4 DEF Written

EpochAdded(f, g) ==
    /\ Keeps(f, g) /\ Appendable(g)
    /\ Keeps(f, Synced(g)) /\ Appendable(Synced(g)) /\ SameHeader(f, Synced(g))
    /\ Synced(g).frames = g.frames /\ Sure(Synced(g)) = g.frames
    /\ Synced(g).synced = Len(g.frames)
    /\ Records(g.frames) = Records(f.frames)
    /\ LastCompleted(f, g.frames) = LastCompleted(f, f.frames)
    /\ DurableLen(f, g.frames) = DurableLen(f, f.frames)
    /\ AllocatedEpoch(f, g.frames) = AllocatedEpoch(f, f.frames) + 1
    /\ \A by : CommitFrames(g.frames, by) = CommitFrames(f.frames, by)

\* allocate_transaction_epoch_frame: the frame of the next epoch is added to
\* the file.
LEMMA EpochWritten ==
    ASSUME NEW f, Appendable(f)
    PROVE  EpochAdded(f, Extended(f, <<EpochFrame(AllocatedEpoch(f, f.frames) + 1)>>))
<1>1. f \in Files /\ f.frames \in Seq(Frames) /\ Sound(f, f.frames) /\ PendingLen(f.frames) = 0
  BY AppendableReads DEF Appendable
<1> DEFINE e == AllocatedEpoch(f, f.frames) + 1  x == EpochFrame(e)  g == Extended(f, <<x>>)
<1>2. e \in Nat /\ x \in Frames /\ x.kind = "EpochAllocation" /\ g = Extended(f, <<x>>)
  BY <1>1, FrameNumbers, FramesMade
<1> HIDE DEF g
<1>3. /\ g.frames \in Seq(Frames) /\ Len(g.frames) = Len(f.frames) + 1
      /\ Alike(f.frames, g.frames, Len(f.frames)) /\ g.frames[Len(g.frames)] = EpochFrame(e)
  BY <1>2, SingleEnd
<1>4. /\ Sound(f, g.frames) /\ PendingLen(g.frames) = 0
      /\ LastCompleted(f, g.frames) = LastCompleted(f, f.frames)
      /\ Records(g.frames) = Records(f.frames)
      /\ DurableLen(f, g.frames) = DurableLen(f, f.frames)
      /\ AllocatedEpoch(f, g.frames) = AllocatedEpoch(f, f.frames) + 1
      /\ \A by : CommitFrames(g.frames, by) = CommitFrames(f.frames, by)
  BY <1>1, <1>3, EpochGrows
<1>5. x.kind \notin {"Record", "Torn", "Malformed"}
  BY <1>2
<1> HIDE DEF x
<1>6. /\ Keeps(f, g) /\ Appendable(g) /\ SameHeader(f, g)
      /\ Keeps(f, Synced(g)) /\ Appendable(Synced(g)) /\ SameHeader(f, Synced(g))
      /\ Synced(g).frames = g.frames /\ Sure(Synced(g)) = g.frames
      /\ Synced(g).synced = Len(g.frames)
  BY <1>2, <1>4, <1>5, SingleWritten
<1>7. EpochAdded(f, g)
  BY <1>4, <1>6 DEF EpochAdded
<1> QED
  BY <1>7 DEF g, x

MarkerAdded(f, p, g) ==
    /\ Keeps(f, g) /\ Appendable(g)
    /\ Keeps(f, Synced(g)) /\ Appendable(Synced(g)) /\ SameHeader(f, Synced(g))
    /\ Synced(g).frames = g.frames /\ Sure(Synced(g)) = g.frames
    /\ Synced(g).synced = Len(g.frames)
    /\ Records(g.frames) = Records(f.frames)
    /\ LastCompleted(f, g.frames) = LastCompleted(f, f.frames)
    /\ LastDurable(f, g.frames) = p
    /\ DurableLen(f, g.frames) = p - CompletedBefore(f)
    /\ AllocatedEpoch(f, g.frames) = AllocatedEpoch(f, f.frames)
    /\ \A by : CommitFrames(g.frames, by) = CommitFrames(f.frames, by)

\* flush_through: the marker of a later position is added to the file.
LEMMA MarkerWritten ==
    ASSUME NEW f, Appendable(f), NEW p \in CompletedBefore(f) + 1 .. LastCompleted(f, f.frames),
           p > LastDurable(f, f.frames)
    PROVE  MarkerAdded(f, p, Extended(f, <<Marker(p)>>))
<1>1. f \in Files /\ f.frames \in Seq(Frames) /\ Sound(f, f.frames) /\ PendingLen(f.frames) = 0
  BY AppendableReads DEF Appendable
<1> DEFINE x == Marker(p)  g == Extended(f, <<x>>)
<1>2. p \in Nat
  BY <1>1, HeaderNumbers, FrameNumbers
<1>3. x \in Frames /\ x.kind = "DurableThrough" /\ g = Extended(f, <<x>>)
  BY <1>2, FramesMade
<1> HIDE DEF g
<1>4. /\ g.frames \in Seq(Frames) /\ Len(g.frames) = Len(f.frames) + 1
      /\ Alike(f.frames, g.frames, Len(f.frames)) /\ g.frames[Len(g.frames)] = Marker(p)
  BY <1>3, SingleEnd
<1>5. /\ Sound(f, g.frames) /\ PendingLen(g.frames) = 0
      /\ LastCompleted(f, g.frames) = LastCompleted(f, f.frames)
      /\ Records(g.frames) = Records(f.frames)
      /\ LastDurable(f, g.frames) = p
      /\ DurableLen(f, g.frames) = p - CompletedBefore(f)
      /\ AllocatedEpoch(f, g.frames) = AllocatedEpoch(f, f.frames)
      /\ \A by : CommitFrames(g.frames, by) = CommitFrames(f.frames, by)
  BY <1>1, <1>4, MarkerGrows
<1>6. x.kind \notin {"Record", "Torn", "Malformed"}
  BY <1>3
<1> HIDE DEF x
<1>7. /\ Keeps(f, g) /\ Appendable(g) /\ SameHeader(f, g)
      /\ Keeps(f, Synced(g)) /\ Appendable(Synced(g)) /\ SameHeader(f, Synced(g))
      /\ Synced(g).frames = g.frames /\ Sure(Synced(g)) = g.frames
      /\ Synced(g).synced = Len(g.frames)
  BY <1>3, <1>5, <1>6, SingleWritten
<1>8. MarkerAdded(f, p, g)
  BY <1>5, <1>7 DEF MarkerAdded
<1> QED
  BY <1>8 DEF g, x

\* The recursion of the frame plan has a solution.
PlanFor(q, m, p) ==
    p = [n \in 0 .. m |-> IF n = 0 THEN <<>> ELSE p[n - 1] \o FramesOf(q[n])]

\* There is a function as ReplacementFrames defines one.
LEMMA PlanExists ==
    ASSUME NEW q, NEW K \in Nat
    PROVE  \E p : PlanFor(q, K, p)
<1> DEFINE Bad == {m \in 0 .. K : ~\E p : PlanFor(q, m, p)}
<1>1. SUFFICES Bad = {}
  OBVIOUS
<1>2. SUFFICES ASSUME Bad # {} PROVE FALSE
  OBVIOUS
<1>3. PICK b \in Bad : \A c \in Bad : b <= c
  <2>1. Bad \in SUBSET Nat
    OBVIOUS
  <2> QED
    BY <1>2, <2>1, EarliestExists DEF IsEarliest
<1>4. b # 0
  <2> DEFINE p == [n \in 0 .. 0 |-> <<>>]
  <2>1. PlanFor(q, 0, p)
    <3> DEFINE r == [n \in 0 .. 0 |-> IF n = 0 THEN <<>> ELSE p[n - 1] \o FramesOf(q[n])]
    <3>1. DOMAIN p = 0 .. 0 /\ DOMAIN r = 0 .. 0
      OBVIOUS
    <3>2. \A n \in 0 .. 0 : p[n] = r[n]
      OBVIOUS
    <3>3. p = r
      BY <3>1, <3>2
    <3> QED
      BY <3>3 DEF PlanFor
  <2> HIDE DEF p
  <2>2. 0 \notin Bad
    BY <2>1
  <2> QED
    BY <1>3, <2>2
<1>5. PICK a \in 0 .. K : a = b - 1 /\ a < b /\ b \in 0 .. K
  BY <1>3, <1>4
<1>6. PICK p : PlanFor(q, a, p)
  <2>1. a \notin Bad
    BY <1>3, <1>5
  <2> QED
    BY <1>5, <2>1
<1> DEFINE g == [n \in 0 .. b |-> IF n = b THEN p[a] \o FramesOf(q[b]) ELSE p[n]]
           r == [n \in 0 .. b |-> IF n = 0 THEN <<>> ELSE g[n - 1] \o FramesOf(q[n])]
<1>7. \A n \in 0 .. a : p[n] = IF n = 0 THEN <<>> ELSE p[n - 1] \o FramesOf(q[n])
  BY <1>6 DEF PlanFor
<1>8. ASSUME NEW n \in 0 .. b
      PROVE  g[n] = r[n]
  <2>1. CASE n = 0
    <3>1. g[n] = p[n] /\ n \in 0 .. a /\ r[n] = <<>>
      BY <1>4, <1>5, <2>1
    <3> QED
      BY <1>7, <2>1, <3>1
  <2>2. CASE n # 0 /\ n # b
    <3>1. g[n] = p[n] /\ n \in 0 .. a /\ r[n] = g[n - 1] \o FramesOf(q[n])
      <4>1. n \in 0 .. a
        BY <1>5, <2>2
      <4>2. g[n] = p[n]
        BY <2>2
      <4>3. r[n] = g[n - 1] \o FramesOf(q[n])
        <5> HIDE DEF g
        <5> QED
          BY <2>2
      <4> QED
        BY <4>1, <4>2, <4>3
    <3>2. n - 1 \in 0 .. b /\ n - 1 # b
      BY <1>5, <2>2
    <3>3. g[n - 1] = p[n - 1]
      BY <3>2
    <3> HIDE DEF g, r
    <3> QED
      BY <1>7, <2>2, <3>1, <3>3
  <2>3. CASE n = b
    <3>1. g[n] = p[a] \o FramesOf(q[b]) /\ r[n] = g[n - 1] \o FramesOf(q[n])
      BY <1>4, <2>3
    <3>2. n - 1 = a /\ a \in 0 .. b /\ a # b
      BY <1>5, <2>3
    <3>3. g[a] = p[a]
      BY <3>2
    <3> QED
      BY <2>3, <3>1, <3>2, <3>3
  <2> QED
    BY <2>1, <2>2, <2>3
<1>9. DOMAIN g = 0 .. b /\ DOMAIN r = 0 .. b /\ g = [n \in 0 .. b |-> g[n]] /\ r = [n \in 0 .. b |-> r[n]]
  OBVIOUS
<1>10. g = r
  <2> HIDE DEF g, r
  <2> QED
    BY <1>8, <1>9
<1>11. PlanFor(q, b, g)
  BY <1>10 DEF PlanFor
<1> QED
  BY <1>3, <1>11

\* A replacement file holds the frames of its records, in order, and a marker.
LEMMA PlanIs ==
    ASSUME NEW q \in Seq(LogRecords), NEW hw, q # <<>>
    PROVE  \E p : /\ p[0] = <<>>
                  /\ \A n \in 1 .. Len(q) : p[n] = p[n - 1] \o FramesOf(q[n])
                  /\ ReplacementFrames(q, hw) = p[Len(q)] \o <<Marker(hw)>>
<1> DEFINE p == CHOOSE plan : PlanFor(q, Len(q), plan)
<1>0. Len(q) \in Nat
  OBVIOUS
<1>1. PlanFor(q, Len(q), p)
  BY <1>0, PlanExists
<1>2. ReplacementFrames(q, hw) = p[Len(q)] \o <<Marker(hw)>>
  BY DEF ReplacementFrames, PlanFor
<1> HIDE DEF p
<1>3. p = [n \in 0 .. Len(q) |-> IF n = 0 THEN <<>> ELSE p[n - 1] \o FramesOf(q[n])]
  BY <1>1 DEF PlanFor
<1>4. \A n \in 0 .. Len(q) : p[n] = IF n = 0 THEN <<>> ELSE p[n - 1] \o FramesOf(q[n])
  BY <1>3
<1>5. p[0] = <<>>
  BY <1>0, <1>4
<1>6. \A n \in 1 .. Len(q) : p[n] = p[n - 1] \o FramesOf(q[n])
  <2>1. SUFFICES ASSUME NEW n \in 1 .. Len(q)
                 PROVE  p[n] = p[n - 1] \o FramesOf(q[n])
    OBVIOUS
  <2>2. n \in 0 .. Len(q) /\ n # 0
    BY <1>0
  <2>3. p[n] = IF n = 0 THEN <<>> ELSE p[n - 1] \o FramesOf(q[n])
    BY <1>4, <2>2
  <2> QED
    BY <2>2, <2>3
<1> QED
  BY <1>2, <1>5, <1>6

\* A file without frames.
LEMMA NoFrames ==
    ASSUME NEW f \in Files
    PROVE  /\ <<>> \in Seq(Frames) /\ Len(<<>>) = 0
           /\ Sound(f, <<>>) /\ PendingLen(<<>>) = 0 /\ Records(<<>>) = <<>>
           /\ LastCompleted(f, <<>>) = CompletedBefore(f)
           /\ LastDurable(f, <<>>) = DurableBefore(f)
           /\ DurableLen(f, <<>>) = 0
           /\ AllocatedEpoch(f, <<>>) = f.epoch
           /\ \A by : CommitFrames(<<>>, by) = {}
<1> DEFINE s == <<>>
<1>1. s \in Seq(Frames) /\ Len(s) = 0
  OBVIOUS
<1> HIDE DEF s
<1>2. Sound(f, s)
  <2>1. \A i \in 1 .. Len(s) : SoundAt(f, s, i)
    BY <1>1
  <2> QED
    BY <1>1, <2>1, SoundLocally
<1>3. /\ Ends(s) = {} /\ \A k : Of(s, k) = {}
  <2>1. 1 .. Len(s) = {}
    BY <1>1
  <2>2. \A k : Of(s, k) \in SUBSET (1 .. Len(s)) /\ Ends(s) \in SUBSET (1 .. Len(s))
    BY <1>1, OfElements
  <2> QED
    BY <2>1, <2>2
<1>4. Cardinality(Ends(s)) = 0 /\ \A k : Cardinality(Of(s, k)) = 0
  BY <1>3, FS_EmptySet
<1>5. f.epoch \in Nat /\ CompletedBefore(f) \in Nat /\ DurableBefore(f) \in Nat
      /\ DurableBefore(f) <= CompletedBefore(f)
  BY HeaderNumbers
<1>6. LastCompleted(f, s) = CompletedBefore(f) /\ AllocatedEpoch(f, s) = f.epoch
  BY <1>4, <1>5 DEF LastCompleted, AllocatedEpoch
<1>7. LastDurable(f, s) = DurableBefore(f)
  BY <1>1, <1>2, <1>3, <1>5, DurablePositions
<1>8. DurableLen(f, s) = 0
  BY <1>1, <1>2, <1>5, <1>7, DurableCount
<1>9. \A by : CommitFrames(s, by) = {}
  BY <1>3 DEF CommitFrames
<1>10. PendingLen(s) = 0
  BY <1>1, NothingPendingThere
<1>11. Records(s) = <<>>
  <2>1. Records(s) \in Seq(LogRecords) /\ Len(Records(s)) = 0
    BY <1>1, <1>2, <1>4, RecordsRead
  <2> QED
    BY <2>1
<1> QED
  BY <1>1, <1>2, <1>6, <1>7, <1>8, <1>9, <1>10, <1>11 DEF s

\* The records that a replacement keeps follow one another and have their owners.
Plannable(f, kept) ==
    /\ kept \in Seq(LogRecords)
    /\ \A n \in 1 .. Len(kept) :
         kept[n].at = CompletedBefore(f) + n /\ kept[n].by <= f.epoch
    /\ \A i, j \in 1 .. Len(kept) :
         kept[i].kind = "Commit" /\ kept[j].kind = "Commit" /\ kept[i].by = kept[j].by => i = j

\* The frames t are those of the first n of them.
Planned(f, kept, n, t) ==
    /\ t \in Seq(Frames) /\ Sound(f, t) /\ PendingLen(t) = 0
    /\ Records(t) = SubSeq(kept, 1, n)
    /\ LastCompleted(f, t) = CompletedBefore(f) + n
    /\ LastDurable(f, t) = DurableBefore(f)
    /\ AllocatedEpoch(f, t) = f.epoch
    /\ \A i \in 1 .. Len(t) : t[i].kind = "Record"
    /\ \A by : CommitFrames(t, by) # {} =>
         \E j \in 1 .. n : kept[j].kind = "Commit" /\ kept[j].by = by

\* A record is begun wholly when all of its frames follow.
LEMMA BegunWhole ==
    ASSUME NEW s \in Seq(Frames), NEW r \in LogRecords
    PROVE  s \o FramesOf(r) \in Seq(Frames) /\ Begun(s, r, FramesIn(r), s \o FramesOf(r))
<1> DEFINE u == FramesOf(r)  m == FramesIn(r)
<1>1. u \in Seq(Frames) /\ Len(u) = m /\ \A i \in 1 .. m : u[i] = RecordFrame(r, i)
  BY GroupFrames
<1>2. Len(s) \in Nat /\ m \in Nat
  BY FramesElements, FramesInType
<1> HIDE DEF u, m
<1>3. /\ s \o u \in Seq(Frames) /\ Len(s \o u) = Len(s) + m
      /\ \A i \in 1 .. Len(s) : (s \o u)[i] = s[i]
      /\ \A i \in 1 .. m : (s \o u)[Len(s) + i] = u[i]
  BY <1>1, <1>2
<1>4. Begun(s, r, m, s \o u)
  BY <1>1, <1>3 DEF Begun
<1> QED
  BY <1>3, <1>4 DEF u, m

\* One record more of a plan is written, in part or wholly.
LEMMA PlannedNext ==
    ASSUME NEW f \in Files, NEW kept, Plannable(f, kept), NEW n \in 1 .. Len(kept),
           NEW s, Planned(f, kept, n - 1, s),
           NEW t \in Seq(Frames), Begun(s, kept[n], FramesIn(kept[n]), t)
    PROVE  Planned(f, kept, n, t)
<1> DEFINE r == kept[n]  m == FramesIn(r)
<1>1. /\ kept \in Seq(LogRecords) /\ r \in LogRecords /\ Len(kept) \in Nat /\ n - 1 \in Nat
      /\ r.at = CompletedBefore(f) + n /\ r.by <= f.epoch
  BY DEF Plannable
<1>2. /\ s \in Seq(Frames) /\ Sound(f, s) /\ PendingLen(s) = 0 /\ Len(s) \in Nat
      /\ Records(s) = SubSeq(kept, 1, n - 1)
      /\ LastCompleted(f, s) = CompletedBefore(f) + (n - 1)
      /\ LastDurable(f, s) = DurableBefore(f) /\ AllocatedEpoch(f, s) = f.epoch
  BY FramesElements DEF Planned
<1>3. /\ m \in Nat /\ FramesOf(r) \in Seq(Frames) /\ Len(FramesOf(r)) = m
      /\ \A i \in 1 .. m : FramesOf(r)[i] = RecordFrame(r, i)
  BY <1>1, FramesInType, GroupFrames
<1>4. Begun(s, r, m, t) /\ m \in 0 .. FramesIn(r) /\ Len(t) \in Nat
  BY <1>3, FramesElements
<1>5. ASSUME r.kind = "Commit"
      PROVE  CommitFrames(s, r.by) = {}
  <2>1. SUFFICES ASSUME CommitFrames(s, r.by) # {} PROVE FALSE
    OBVIOUS
  <2>2. PICK j \in 1 .. n - 1 : kept[j].kind = "Commit" /\ kept[j].by = r.by
    BY <2>1 DEF Planned
  <2>3. j \in 1 .. Len(kept) /\ j # n
    BY <1>1, <2>2
  <2> QED
    BY <1>5, <2>2, <2>3 DEF Plannable
<1>6. r.at = LastCompleted(f, s) + 1 /\ r.by <= AllocatedEpoch(f, s)
  <2>1. CompletedBefore(f) \in Nat
    BY HeaderNumbers
  <2> QED
    BY <1>1, <1>2, <2>1
<1> HIDE DEF r
<1>7. /\ Sound(f, t) /\ AllocatedEpoch(f, t) = AllocatedEpoch(f, s)
      /\ LastDurable(f, t) = LastDurable(f, s)
      /\ m = FramesIn(r) => /\ LastCompleted(f, t) = LastCompleted(f, s) + 1
                            /\ Records(t) = Append(Records(s), r)
                            /\ PendingLen(t) = 0
      /\ \A by : CommitFrames(t, by) # {} =>
           CommitFrames(s, by) # {} \/ (r.kind = "Commit" /\ r.by = by)
  <2> HIDE DEF m
  <2>1. /\ r \in LogRecords /\ t \in Seq(Frames) /\ s \in Seq(Frames)
        /\ Sound(f, s) /\ PendingLen(s) = 0 /\ m \in 0 .. FramesIn(r) /\ Begun(s, r, m, t)
    BY <1>1, <1>2, <1>4
  <2>2. r.kind = "Commit" => CommitFrames(s, r.by) = {}
    BY <1>5
  <2> QED
    BY <1>6, <2>1, <2>2, GroupGrows
<1>8. \A i \in Len(s) + 1 .. Len(t) :
        t[i].kind = "Record" /\ t[i].record = r /\ t[i].part = i - Len(s)
  <2> HIDE DEF m
  <2>1. /\ r \in LogRecords /\ t \in Seq(Frames) /\ s \in Seq(Frames)
        /\ Sound(f, s) /\ PendingLen(s) = 0 /\ m \in 0 .. FramesIn(r) /\ Begun(s, r, m, t)
    BY <1>1, <1>2, <1>4
  <2>2. r.kind = "Commit" => CommitFrames(s, r.by) = {}
    BY <1>5
  <2> QED
    BY <1>6, <2>1, <2>2, GroupSound
<1>9. \A i \in 1 .. Len(t) : t[i].kind = "Record"
  <2>1. SUFFICES ASSUME NEW i \in 1 .. Len(t) PROVE t[i].kind = "Record"
    OBVIOUS
  <2>2. CASE i <= Len(s)
    <3>1. i \in 1 .. Len(s)
      BY <1>2, <2>2
    <3>2. s[i].kind = "Record"
      BY <3>1 DEF Planned
    <3> QED
      BY <1>4, <3>1, <3>2 DEF Begun
  <2>3. CASE ~(i <= Len(s))
    BY <1>2, <1>4, <1>8, <2>3
  <2> QED
    BY <2>2, <2>3
<1>10. Records(t) = SubSeq(kept, 1, n)
  <2>1. Records(t) = Append(SubSeq(kept, 1, n - 1), r)
    BY <1>2, <1>7
  <2>2. Append(SubSeq(kept, 1, n - 1), kept[n]) = SubSeq(kept, 1, n)
    BY <1>1
  <2> QED
    BY <2>1, <2>2 DEF r
<1>11. LastCompleted(f, t) = CompletedBefore(f) + n
  <2>1. CompletedBefore(f) \in Nat
    BY HeaderNumbers
  <2> QED
    BY <1>1, <1>2, <1>7, <2>1
<1>12. ASSUME NEW by, CommitFrames(t, by) # {}
       PROVE  \E j \in 1 .. n : kept[j].kind = "Commit" /\ kept[j].by = by
  <2>1. CASE CommitFrames(s, by) # {}
    <3>1. PICK j \in 1 .. n - 1 : kept[j].kind = "Commit" /\ kept[j].by = by
      BY <2>1 DEF Planned
    <3> QED
      BY <3>1
  <2>2. CASE r.kind = "Commit" /\ r.by = by
    BY <2>2 DEF r
  <2> QED
    BY <1>7, <1>12, <2>1, <2>2
<1> QED
  BY <1>2, <1>4, <1>7, <1>9, <1>10, <1>11, <1>12 DEF Planned

\* The whole plan is written.
LEMMA PlannedAll ==
    ASSUME NEW f \in Files, NEW kept, Plannable(f, kept), NEW p, p[0] = <<>>,
           \A n \in 1 .. Len(kept) : p[n] = p[n - 1] \o FramesOf(kept[n])
    PROVE  Planned(f, kept, Len(kept), p[Len(kept)])
<1> DEFINE K == Len(kept)
           Bad == {n \in 0 .. K : ~Planned(f, kept, n, p[n])}
<1>1. K \in Nat /\ kept \in Seq(LogRecords)
  BY DEF Plannable
<1>2. Planned(f, kept, 0, <<>>)
  <2>1. SubSeq(kept, 1, 0) = <<>>
    BY <1>1
  <2>2. CompletedBefore(f) + 0 = CompletedBefore(f)
    BY HeaderNumbers
  <2>3. \A i \in 1 .. Len(<<>>) : <<>>[i].kind = "Record"
    OBVIOUS
  <2> QED
    BY <2>1, <2>2, <2>3, NoFrames DEF Planned
<1>3. SUFFICES ASSUME Bad # {} PROVE FALSE
  BY <1>1
<1>4. PICK b \in Bad : \A c \in Bad : b <= c
  <2>1. Bad \in SUBSET Nat
    OBVIOUS
  <2> QED
    BY <1>3, <2>1, EarliestExists DEF IsEarliest
<1>5. b # 0
  BY <1>2, <1>4
<1>6. b \in 1 .. Len(kept) /\ b - 1 \in 0 .. K /\ ~(b <= b - 1) /\ ~Planned(f, kept, b, p[b])
  BY <1>1, <1>4, <1>5
<1>7. Planned(f, kept, b - 1, p[b - 1])
  <2>1. b - 1 \notin Bad
    BY <1>4, <1>6
  <2> QED
    BY <1>6, <2>1
<1>8. p[b] = p[b - 1] \o FramesOf(kept[b])
  BY <1>6
<1>9. Planned(f, kept, b, p[b])
  <2>1. p[b - 1] \in Seq(Frames) /\ kept[b] \in LogRecords
    BY <1>1, <1>6, <1>7 DEF Planned
  <2>2. p[b] \in Seq(Frames) /\ Begun(p[b - 1], kept[b], FramesIn(kept[b]), p[b])
    BY <1>8, <2>1, BegunWhole
  <2> QED
    BY <1>6, <1>7, <2>2, PlannedNext
<1> QED
  BY <1>6, <1>9

\* The commit records that a file is read to hold are its commit frames.
LEMMA CommitRecords ==
    ASSUME NEW f \in Files, NEW s \in Seq(Frames), Sound(f, s)
    PROVE  /\ \A n \in 1 .. Len(Records(s)) : Records(s)[n].by <= AllocatedEpoch(f, s)
           /\ \A m, n \in 1 .. Len(Records(s)) :
                /\ Records(s)[m].kind = "Commit" /\ Records(s)[n].kind = "Commit"
                /\ Records(s)[m].by = Records(s)[n].by
                => m = n
           /\ \A by : CommitFrames(s, by) # {} =>
                \E n \in 1 .. Len(Records(s)) :
                   Records(s)[n].kind = "Commit" /\ Records(s)[n].by = by
           /\ \A n \in 1 .. Len(Records(s)) : Records(s)[n].kind = "Commit" =>
                \E i \in CommitFrames(s, Records(s)[n].by) :
                   s[i].record.at = CompletedBefore(f) + n
           /\ \A by : \A i \in CommitFrames(s, by) :
                \E n \in 1 .. Len(Records(s)) :
                   /\ s[i].record = Records(s)[n] /\ n = s[i].record.at - CompletedBefore(f)
                   /\ s[i].record.at = CompletedBefore(f) + n
<1> DEFINE q == Records(s)
<1>1. /\ q \in Seq(LogRecords) /\ Len(q) = Cardinality(Ends(s)) /\ Len(q) \in Nat
      /\ \A n \in 1 .. Len(q) :
           q[n].at = CompletedBefore(f) + n /\ \E i \in Ends(s) : q[n] = s[i].record
      /\ \A i \in Ends(s) :
           /\ s[i].record.at - CompletedBefore(f) \in 1 .. Len(q)
           /\ q[s[i].record.at - CompletedBefore(f)] = s[i].record
  BY RecordsRead
<1>2. CompletedBefore(f) \in Nat
  BY HeaderNumbers
<1> HIDE DEF q
<1>3. ASSUME NEW i \in Ends(s)
      PROVE  /\ i \in Of(s, "Record") /\ s[i].record \in LogRecords
             /\ s[i].record.kind = "Commit" \/ s[i].part > 1
             /\ s[i].record.at \in Nat
  <2>1. i \in 1 .. Len(s) /\ s[i].kind = "Record" /\ s[i].part = FramesIn(s[i].record)
    BY OfElements
  <2>2. s[i] \in Frames
    BY <2>1, FramesElements
  <2>3. s[i].record \in LogRecords
    BY <2>1, <2>2, FrameKinds
  <2>4. i \in Of(s, "Record")
    BY <2>1, OfElements
  <2> QED
    BY <2>1, <2>3, <2>4, FramesInType
<1>4. ASSUME NEW n \in 1 .. Len(q)
      PROVE  q[n].by <= AllocatedEpoch(f, s)
  <2>1. PICK i \in Ends(s) : q[n] = s[i].record
    BY <1>1
  <2>2. s[i].record.by <= f.epoch + Cardinality(Before(Of(s, "EpochAllocation"), i))
    BY <1>3 DEF Sound, OwnersAllocated
  <2>3. /\ f.epoch + Cardinality(Before(Of(s, "EpochAllocation"), i)) <= AllocatedEpoch(f, s)
        /\ AllocatedEpoch(f, s) \in Nat /\ f.epoch \in Nat
        /\ Cardinality(Before(Of(s, "EpochAllocation"), i)) \in Nat
    BY FrameNumbers, HeaderNumbers
  <2>4. s[i].record.by \in Nat
    BY <1>3, FramesInType
  <2> QED
    BY <2>1, <2>2, <2>3, <2>4
<1>5. ASSUME NEW m \in 1 .. Len(q), NEW n \in 1 .. Len(q), q[m].kind = "Commit",
             q[n].kind = "Commit", q[m].by = q[n].by
      PROVE  m = n
  <2>1. PICK i \in Ends(s) : q[m] = s[i].record
    BY <1>1
  <2>2. PICK j \in Ends(s) : q[n] = s[j].record
    BY <1>1
  <2>3. i = j
    BY <1>3, <1>5, <2>1, <2>2 DEF Sound, CommitsOnce
  <2>4. CompletedBefore(f) + m = CompletedBefore(f) + n
    BY <1>1, <2>1, <2>2, <2>3
  <2> QED
    BY <1>1, <1>2, <2>4
<1>6. ASSUME NEW by, NEW i \in CommitFrames(s, by)
      PROVE  \E n \in 1 .. Len(q) :
                /\ s[i].record = q[n] /\ n = s[i].record.at - CompletedBefore(f)
                /\ s[i].record.at = CompletedBefore(f) + n
  <2>1. i \in Of(s, "Record") /\ s[i].record.kind = "Commit"
    BY DEF CommitFrames
  <2>2. i \in 1 .. Len(s) /\ s[i].kind = "Record"
    BY <2>1, OfElements
  <2>3. s[i] \in Frames
    BY <2>2, FramesElements
  <2>4. s[i].record \in LogRecords /\ s[i].part \in 1 .. FramesIn(s[i].record)
    BY <2>2, <2>3, FrameKinds
  <2>5. s[i].part = FramesIn(s[i].record)
    BY <2>1, <2>4, FramesInType
  <2>6. i \in Ends(s)
    BY <2>2, <2>5, OfElements
  <2>7. s[i].record.at \in Nat
    BY <1>3, <2>6
  <2> QED
    BY <1>1, <1>2, <2>6, <2>7
<1>7. ASSUME NEW by, CommitFrames(s, by) # {}
      PROVE  \E n \in 1 .. Len(q) : q[n].kind = "Commit" /\ q[n].by = by
  <2>1. PICK i : i \in CommitFrames(s, by)
    BY <1>7
  <2>2. s[i].record.kind = "Commit" /\ s[i].record.by = by
    BY <2>1 DEF CommitFrames
  <2> QED
    BY <1>6, <2>1, <2>2
<1>8. ASSUME NEW n \in 1 .. Len(q), q[n].kind = "Commit"
      PROVE  \E i \in CommitFrames(s, q[n].by) : s[i].record.at = CompletedBefore(f) + n
  <2>1. PICK i \in Ends(s) : q[n] = s[i].record
    BY <1>1
  <2>2. i \in CommitFrames(s, q[n].by)
    BY <1>3, <1>8, <2>1 DEF CommitFrames
  <2>3. s[i].record.at = CompletedBefore(f) + n
    BY <1>1, <2>1
  <2> QED
    BY <2>2, <2>3
<1> QED
  BY <1>4, <1>5, <1>6, <1>7, <1>8 DEF q

\* A commit record that is there for good is among the durable records.
LEMMA CommittedRecord ==
    ASSUME NEW f, SoundFile(f)
    PROVE  /\ Sure(f) \in Seq(Frames) /\ Sound(f, Sure(f))
           /\ Len(Records(Sure(f))) \in Nat /\ DurableLen(f, Sure(f)) \in 0 .. Len(Records(Sure(f)))
           /\ \A by : CommittedIn(f, by) <=>
                \E n \in 1 .. DurableLen(f, Sure(f)) :
                   Records(Sure(f))[n].kind = "Commit" /\ Records(Sure(f))[n].by = by
<1> DEFINE s == Sure(f)
<1>1. f \in Files /\ TornIsLast(f.frames) /\ Sound(f, Readable(f))
  BY DEF SoundFile, FileSound
<1>2. s \in Seq(Frames) /\ Readable(f) \in Seq(Frames) /\ Alike(s, Readable(f), Len(s))
  BY <1>1, SureReads, FileReads
<1>3. Sound(f, s)
  BY <1>1, <1>2, PrefixNumbers
<1> HIDE DEF s
<1>4. /\ Len(Records(s)) = Cardinality(Ends(s)) /\ Len(Records(s)) \in Nat
      /\ DurableLen(f, s) \in 0 .. Len(Records(s))
      /\ \A n \in 1 .. Len(Records(s)) :
           n <= DurableLen(f, s) <=> CompletedBefore(f) + n <= LastDurable(f, s)
  BY <1>1, <1>2, <1>3, RecordsRead, DurableCount
<1>5. ASSUME NEW by, CommittedIn(f, by)
      PROVE  \E n \in 1 .. DurableLen(f, s) : Records(s)[n].kind = "Commit" /\ Records(s)[n].by = by
  <2>1. PICK i \in CommitFrames(s, by) : s[i].record.at <= LastDurable(f, s)
    BY <1>5 DEF CommittedIn, s
  <2>2. s[i].record.kind = "Commit" /\ s[i].record.by = by
    BY DEF CommitFrames
  <2>3. PICK n \in 1 .. Len(Records(s)) :
           s[i].record = Records(s)[n] /\ s[i].record.at = CompletedBefore(f) + n
    BY <1>1, <1>2, <1>3, CommitRecords
  <2>4. n <= DurableLen(f, s)
    BY <1>4, <2>1, <2>3
  <2>5. n \in 1 .. DurableLen(f, s)
    BY <1>4, <2>4
  <2> QED
    BY <2>2, <2>3, <2>5
<1>6. ASSUME NEW n \in 1 .. DurableLen(f, s), Records(s)[n].kind = "Commit"
      PROVE  CommittedIn(f, Records(s)[n].by)
  <2>1. n \in 1 .. Len(Records(s)) /\ n <= DurableLen(f, s)
    BY <1>4
  <2>2. PICK i \in CommitFrames(s, Records(s)[n].by) : s[i].record.at = CompletedBefore(f) + n
    BY <1>1, <1>2, <1>3, <1>6, <2>1, CommitRecords
  <2>3. s[i].record.at <= LastDurable(f, s)
    BY <1>4, <2>1, <2>2
  <2> QED
    BY <2>2, <2>3 DEF CommittedIn, s
<1> QED
  BY <1>2, <1>3, <1>4, <1>5, <1>6 DEF s

\* Every record of the file is durable.
AllDurable(f) == DurableLen(f, f.frames) = Len(Records(f.frames))

\* In a log without a volatile suffix the last record is the last position.
LEMMA DurableEnd ==
    ASSUME NEW f, Appendable(f), AllDurable(f)
    PROVE  /\ Len(Records(f.frames)) \in Nat
           /\ LastCompleted(f, f.frames) = CompletedBefore(f) + Len(Records(f.frames))
           /\ Len(Records(f.frames)) > 0 =>
                Records(f.frames)[Len(Records(f.frames))].at = LastCompleted(f, f.frames)
           /\ Len(Records(f.frames)) = 0 =>
                f.first = 0 /\ f.highWater = LastCompleted(f, f.frames)
<1> DEFINE q == Records(f.frames)
<1>1. /\ f \in Files /\ f.frames \in Seq(Frames) /\ Sound(f, f.frames)
      /\ Sure(f) \in Seq(Frames) /\ Alike(Sure(f), f.frames, Len(Sure(f)))
      /\ HeaderMet(f, Sure(f)) /\ Sound(f, Sure(f))
  BY AppendableReads
<1>2. /\ Len(q) = Cardinality(Ends(f.frames)) /\ Len(q) \in Nat
      /\ LastCompleted(f, f.frames) = CompletedBefore(f) + Len(q)
      /\ \A n \in 1 .. Len(q) : q[n].at = CompletedBefore(f) + n
      /\ CompletedBefore(f) \in Nat /\ f.highWater \in Nat /\ f.first \in Nat
  BY <1>1, RecordsRead, FrameNumbers, HeaderNumbers
<1>3. f.first # 0 => DurableLen(f, f.frames) > 0
  <2>1. HeaderMet(f, f.frames)
    BY <1>1, PrefixNumbers
  <2> QED
    BY <1>1, <2>1, HeaderMetIs
<1> HIDE DEF q
<1>4. CASE Len(q) > 0
  <2>1. Len(q) \in 1 .. Len(q)
    BY <1>2, <1>4
  <2> QED
    BY <1>2, <1>4, <2>1 DEF q
<1>5. CASE Len(q) = 0
  <2>1. f.first = 0
    BY <1>3, <1>5 DEF AllDurable, q
  <2>2. CompletedBefore(f) = f.highWater
    BY <1>1, <2>1, HeaderNumbers
  <2> QED
    BY <1>2, <1>5, <2>1, <2>2 DEF q
<1> QED
  BY <1>2, <1>4, <1>5

\* A file that is whole on the disk.
LEMMA WholeFile ==
    ASSUME NEW f \in Files, Sound(f, f.frames), PendingLen(f.frames) = 0,
           \A i \in 1 .. Len(f.frames) : f.frames[i].kind \notin {"Torn", "Malformed"},
           f.synced = Len(f.frames), HeaderMet(f, f.frames)
    PROVE  Appendable(f) /\ Sure(f) = f.frames
<1>1. f.frames \in Seq(Frames) /\ Len(f.frames) \in Nat
  BY HeaderNumbers, FramesElements
<1>2. /\ TornIsLast(f.frames) /\ ~Lost(f) /\ Readable(f) = f.frames /\ ~EndsTorn(f.frames)
  BY <1>1, ReadsAre
<1>3. Sure(f) = f.frames
  <2>1. f.synced >= Len(Readable(f))
    BY <1>1, <1>2
  <2> QED
    BY <1>2, <2>1, SureReads
<1> QED
  BY <1>1, <1>2, <1>3 DEF Appendable, SoundFile, FileSound

\* The header of a replacement, without its frames.
ReplacementHeader(f, kept, d, g) ==
    [generation |-> g, first |-> IF kept = <<>> THEN 0 ELSE Head(kept).at, highWater |-> d,
     epoch |-> AllocatedEpoch(f, f.frames), frames |-> <<>>, synced |-> 0]

\* The records from `start' on.
Keeping(f, start, kept) ==
    /\ start \in 1 .. Len(Records(f.frames)) + 1
    /\ kept = SubSeq(Records(f.frames), start, Len(Records(f.frames)))

IsHeader(f, kept, d, g, h) ==
    d = LastCompleted(f, f.frames) /\ g \in Nat /\ h = ReplacementHeader(f, kept, d, g)

\* The header of a replacement fits the records that it keeps.
LEMMA HeaderFits ==
    ASSUME NEW f, Appendable(f), AllDurable(f),
           NEW start, NEW kept, Keeping(f, start, kept),
           NEW d, NEW g, NEW h, IsHeader(f, kept, d, g, h)
    PROVE  /\ h \in Files /\ h.generation = g /\ h.highWater = d /\ d \in Nat
           /\ h.epoch = AllocatedEpoch(f, f.frames)
           /\ kept \in Seq(LogRecords) /\ Len(kept) = Len(Records(f.frames)) - start + 1
           /\ Len(Records(f.frames)) \in Nat
           /\ \A n \in 1 .. Len(kept) :
                start - 1 + n \in 1 .. Len(Records(f.frames))
                /\ kept[n] = Records(f.frames)[start - 1 + n]
           /\ kept = <<>> => h.first = 0
           /\ kept # <<>> => h.first # 0 /\ d = CompletedBefore(h) + Len(kept)
           /\ Plannable(h, kept)
<1> DEFINE q == Records(f.frames)
<1>1. f \in Files /\ f.frames \in Seq(Frames) /\ Sound(f, f.frames)
  BY AppendableReads
<1>2. /\ q \in Seq(LogRecords) /\ Len(q) \in Nat /\ CompletedBefore(f) \in Nat
      /\ AllocatedEpoch(f, f.frames) \in Nat /\ d \in Nat /\ d = CompletedBefore(f) + Len(q)
      /\ \A n \in 1 .. Len(q) : q[n].at = CompletedBefore(f) + n
  <2>1. d = LastCompleted(f, f.frames)
    BY DEF IsHeader
  <2> QED
    BY <1>1, <2>1, RecordsRead, HeaderNumbers, FrameNumbers, DurableEnd
<1>3. /\ \A n \in 1 .. Len(q) : q[n].by <= AllocatedEpoch(f, f.frames)
      /\ \A m, n \in 1 .. Len(q) :
           q[m].kind = "Commit" /\ q[n].kind = "Commit" /\ q[m].by = q[n].by => m = n
  BY <1>1, CommitRecords
<1> HIDE DEF q
<1>4. /\ kept \in Seq(LogRecords) /\ Len(kept) = Len(q) - start + 1 /\ Len(kept) \in Nat
      /\ \A n \in 1 .. Len(kept) : start - 1 + n \in 1 .. Len(q) /\ kept[n] = q[start - 1 + n]
  <2>1. kept = SubSeq(q, start, Len(q)) /\ start \in 1 .. Len(q) + 1
    BY DEF q, Keeping
  <2> QED
    BY <1>2, <2>1
<1>5. start \in Nat \ {0}
  BY <1>2 DEF q, Keeping
<1>6. \A n \in 1 .. Len(kept) : kept[n].at = CompletedBefore(f) + start - 1 + n
  <2>1. SUFFICES ASSUME NEW n \in 1 .. Len(kept)
                 PROVE  kept[n].at = CompletedBefore(f) + start - 1 + n
    OBVIOUS
  <2>2. PICK m \in 1 .. Len(q) : m = start - 1 + n /\ kept[n] = q[m]
    BY <1>4
  <2>3. kept[n].at = CompletedBefore(f) + m
    BY <1>2, <2>2
  <2>4. n \in Nat
    BY <1>4
  <2> QED
    BY <1>2, <1>5, <2>2, <2>3, <2>4
<1>7. kept # <<>> => Len(kept) > 0 /\ Head(kept) = kept[1] /\ kept[1].at = CompletedBefore(f) + start
                     /\ kept[1].at \in Nat \ {0}
  <2>1. SUFFICES ASSUME kept # <<>>
                 PROVE  Len(kept) > 0 /\ Head(kept) = kept[1]
                        /\ kept[1].at = CompletedBefore(f) + start /\ kept[1].at \in Nat \ {0}
    OBVIOUS
  <2>2. Len(kept) > 0 /\ Head(kept) = kept[1]
    BY <1>4, <2>1
  <2>3. 1 \in 1 .. Len(kept)
    BY <1>4, <2>2
  <2> QED
    BY <1>2, <1>5, <1>6, <2>2, <2>3
<1>8. h.first = IF kept = <<>> THEN 0 ELSE kept[1].at
  BY <1>7 DEF IsHeader, ReplacementHeader
<1>9. h.first \in Nat
  BY <1>7, <1>8
<1>10. /\ g \in Nat
       /\ h = [generation |-> g, first |-> h.first, highWater |-> d,
               epoch |-> AllocatedEpoch(f, f.frames), frames |-> <<>>, synced |-> 0]
       /\ h.generation = g /\ h.highWater = d /\ h.epoch = AllocatedEpoch(f, f.frames)
  BY DEF IsHeader, ReplacementHeader
<1>11. h \in Files
  <2>1. <<>> \in Seq(Frames)
    OBVIOUS
  <2> DEFINE first == h.first  epoch == AllocatedEpoch(f, f.frames)
  <2>2. h = [generation |-> g, first |-> first, highWater |-> d, epoch |-> epoch,
             frames |-> <<>>, synced |-> 0]
    BY <1>10
  <2>3. first \in Nat /\ epoch \in Nat /\ g \in Nat /\ d \in Nat
    BY <1>2, <1>9, <1>10
  <2> HIDE DEF first, epoch
  <2> QED
    BY <2>1, <2>2, <2>3 DEF Files
<1>12. kept # <<>> => h.first # 0 /\ CompletedBefore(h) = CompletedBefore(f) + start - 1
  <2>1. h.first # 0 => CompletedBefore(h) = h.first - 1
    BY <1>11, HeaderNumbers
  <2> QED
    BY <1>2, <1>5, <1>7, <1>8, <2>1
<1>13. kept # <<>> => d = CompletedBefore(h) + Len(kept)
  BY <1>2, <1>4, <1>5, <1>12
<1>14. Plannable(h, kept)
  <2>1. ASSUME NEW n \in 1 .. Len(kept)
        PROVE  kept[n].at = CompletedBefore(h) + n /\ kept[n].by <= h.epoch
    <3>1. kept # <<>>
      BY <1>4
    <3>2. kept[n].at = CompletedBefore(f) + start - 1 + n
      BY <1>6
    <3>3. kept[n].at = CompletedBefore(h) + n
      BY <1>2, <1>5, <1>12, <3>1, <3>2
    <3>4. kept[n].by <= h.epoch
      BY <1>3, <1>4, <1>10
    <3> QED
      BY <3>3, <3>4
  <2>2. ASSUME NEW i \in 1 .. Len(kept), NEW j \in 1 .. Len(kept), kept[i].kind = "Commit",
               kept[j].kind = "Commit", kept[i].by = kept[j].by
        PROVE  i = j
    <3>1. start - 1 + i = start - 1 + j
      BY <1>3, <1>4, <2>2
    <3> QED
      BY <1>4, <1>5, <3>1
  <2> QED
    BY <1>4, <2>1, <2>2 DEF Plannable
<1>15. kept = <<>> => h.first = 0
  BY <1>8
<1> QED
  BY <1>2, <1>4, <1>10, <1>11, <1>12, <1>13, <1>14, <1>15 DEF q

\* The frames of a replacement, under its header.
IsPlan(kept, d, t) == t = ReplacementFrames(kept, d)

\* What an open reads of a replacement file: the records that it was made of,
\* all durable.
LEMMA ReplacementRead ==
    ASSUME NEW h \in Files, NEW kept, Plannable(h, kept), NEW d \in Nat,
           h.highWater = d, kept = <<>> => h.first = 0,
           kept # <<>> => h.first # 0 /\ d = CompletedBefore(h) + Len(kept),
           NEW t, IsPlan(kept, d, t)
    PROVE  /\ t \in Seq(Frames) /\ Sound(h, t) /\ PendingLen(t) = 0 /\ Records(t) = kept
           /\ \A i \in 1 .. Len(t) : t[i].kind \notin {"Torn", "Malformed"}
           /\ LastCompleted(h, t) = d /\ LastDurable(h, t) = d
           /\ DurableLen(h, t) = Len(kept) /\ AllocatedEpoch(h, t) = h.epoch
           /\ HeaderMet(h, t)
           /\ \A by : CommitFrames(t, by) # {} =>
                \E j \in 1 .. Len(kept) : kept[j].kind = "Commit" /\ kept[j].by = by
<1>1. kept \in Seq(LogRecords) /\ Len(kept) \in Nat
  BY DEF Plannable
<1>2. CASE kept = <<>>
  <2>1. t = <<>>
    BY <1>2 DEF IsPlan, ReplacementFrames
  <2>2. CompletedBefore(h) = d /\ DurableBefore(h) = d /\ h.first = 0
    BY <1>2, HeaderNumbers
  <2>3. /\ t \in Seq(Frames) /\ Len(t) = 0 /\ Sound(h, t) /\ PendingLen(t) = 0 /\ Records(t) = <<>>
        /\ LastCompleted(h, t) = d /\ LastDurable(h, t) = d /\ DurableLen(h, t) = 0
        /\ AllocatedEpoch(h, t) = h.epoch /\ \A by : CommitFrames(t, by) = {}
    BY <2>1, <2>2, NoFrames
  <2>4. HeaderMet(h, t)
    <3>1. HeaderMet(h, t) <=> /\ LastCompleted(h, t) >= h.highWater
                              /\ LastDurable(h, t) >= h.highWater
                              /\ h.first # 0 => DurableLen(h, t) > 0
      BY <2>3, HeaderMetIs
    <3> QED
      BY <2>2, <2>3, <3>1
  <2>5. \A i \in 1 .. Len(t) : t[i].kind \notin {"Torn", "Malformed"}
    BY <2>3
  <2> QED
    BY <1>2, <2>3, <2>4, <2>5
<1>3. CASE kept # <<>>
  <2>1. PICK p : /\ p[0] = <<>>
                 /\ \A n \in 1 .. Len(kept) : p[n] = p[n - 1] \o FramesOf(kept[n])
                 /\ t = p[Len(kept)] \o <<Marker(d)>>
    BY <1>1, <1>3, PlanIs DEF IsPlan
  <2> DEFINE s == p[Len(kept)]
  <2>2. Planned(h, kept, Len(kept), s)
    BY <2>1, PlannedAll
  <2> HIDE DEF s
  <2>3. /\ s \in Seq(Frames) /\ Len(s) \in Nat /\ Sound(h, s) /\ PendingLen(s) = 0
        /\ Records(s) = SubSeq(kept, 1, Len(kept))
        /\ LastCompleted(h, s) = d /\ LastDurable(h, s) = DurableBefore(h)
        /\ AllocatedEpoch(h, s) = h.epoch
    BY <1>3, <2>2, FramesElements DEF Planned
  <2>4. Records(s) = kept
    <3>1. SubSeq(kept, 1, Len(kept)) = kept
      BY <1>1
    <3> QED
      BY <2>3, <3>1
  <2>5. Len(kept) > 0
    BY <1>1, <1>3
  <2>6. DurableBefore(h) = 0 /\ CompletedBefore(h) \in Nat /\ d = CompletedBefore(h) + Len(kept)
    BY <1>3, HeaderNumbers
  <2>7. d \in CompletedBefore(h) + 1 .. LastCompleted(h, s) /\ d > LastDurable(h, s)
    BY <1>1, <2>3, <2>5, <2>6
  <2>8. Marker(d) \in Frames /\ Marker(d).kind = "DurableThrough"
    BY FramesMade
  <2>9. t \in Seq(Frames) /\ Len(t) = Len(s) + 1 /\ t[Len(s) + 1] = Marker(d)
        /\ \A i \in 1 .. Len(s) : t[i] = s[i]
    <3>1. t = s \o <<Marker(d)>>
      BY <2>1 DEF s
    <3> DEFINE x == Marker(d)
    <3> HIDE DEF x
    <3>2. x \in Frames /\ t = s \o <<x>>
      BY <2>8, <3>1 DEF x
    <3>3. t \in Seq(Frames) /\ Len(t) = Len(s) + 1 /\ t[Len(s) + 1] = x
          /\ \A i \in 1 .. Len(s) : t[i] = s[i]
      BY <2>3, <3>2
    <3> QED
      BY <3>3 DEF x
  <2>10. Alike(s, t, Len(s)) /\ t[Len(t)] = Marker(d)
    BY <2>3, <2>9 DEF Alike
  <2>11. /\ Sound(h, t) /\ PendingLen(t) = 0 /\ LastCompleted(h, t) = d /\ Records(t) = kept
         /\ LastDurable(h, t) = d /\ DurableLen(h, t) = d - CompletedBefore(h)
         /\ AllocatedEpoch(h, t) = h.epoch
         /\ \A by : CommitFrames(t, by) = CommitFrames(s, by)
    BY <2>3, <2>4, <2>7, <2>9, <2>10, MarkerGrows
  <2>12. DurableLen(h, t) = Len(kept)
    BY <1>1, <2>6, <2>11
  <2>13. HeaderMet(h, t)
    BY <2>5, <2>9, <2>11, <2>12, HeaderMetIs
  <2>14. ASSUME NEW i \in 1 .. Len(t)
         PROVE  t[i].kind \notin {"Torn", "Malformed"}
    <3>1. CASE i = Len(t)
      BY <2>8, <2>10, <3>1
    <3>2. CASE i # Len(t)
      <4>1. i \in 1 .. Len(s)
        BY <2>3, <2>9, <3>2
      <4>2. s[i].kind = "Record" /\ t[i] = s[i]
        BY <2>2, <2>9, <4>1 DEF Planned
      <4> QED
        BY <4>2
    <3> QED
      BY <3>1, <3>2
  <2>15. \A by : CommitFrames(t, by) # {} =>
            \E j \in 1 .. Len(kept) : kept[j].kind = "Commit" /\ kept[j].by = by
    BY <2>2, <2>11 DEF Planned
  <2> QED
    BY <2>9, <2>11, <2>12, <2>13, <2>14, <2>15
<1> QED
  BY <1>2, <1>3

\* What a replacement is, of the file f that it is made of.
ReplacementOf(f, kept, d, g) ==
    Synced([generation |-> g, first |-> IF kept = <<>> THEN 0 ELSE Head(kept).at, highWater |-> d,
            epoch |-> AllocatedEpoch(f, f.frames), frames |-> ReplacementFrames(kept, d),
            synced |-> 0])

IsReplacement(f, kept, d, g, r) ==
    d = LastCompleted(f, f.frames) /\ g \in Nat /\ r = ReplacementOf(f, kept, d, g)

\* The file r keeps the records of f from an index on.
Kept(f, start, kept, d, g, r) ==
    /\ Appendable(r) /\ Sure(r) = r.frames /\ r.synced = Len(r.frames)
    /\ r.generation = g /\ r.highWater = d /\ d \in Nat
    /\ Records(r.frames) = kept
    /\ Len(kept) = Len(Records(f.frames)) - start + 1
    /\ LastCompleted(r, r.frames) = d
    /\ DurableLen(r, r.frames) = Len(kept)
    /\ AllocatedEpoch(r, r.frames) = AllocatedEpoch(f, f.frames)
    /\ \A n \in 1 .. Len(kept) :
         start - 1 + n \in 1 .. Len(Records(f.frames))
         /\ kept[n] = Records(f.frames)[start - 1 + n]
    /\ \A by : CommitFrames(r.frames, by) # {} => CommitFrames(f.frames, by) # {}

\* The file that build_reclamation_frame_plan makes of a log without a volatile
\* suffix.
LEMMA ReplacementFile ==
    ASSUME NEW f, Appendable(f), AllDurable(f),
           NEW start, NEW kept, Keeping(f, start, kept),
           NEW d, NEW g, NEW r, IsReplacement(f, kept, d, g, r)
    PROVE  Kept(f, start, kept, d, g, r)
<1> DEFINE h == ReplacementHeader(f, kept, d, g)  t == ReplacementFrames(kept, d)
<1>1. /\ h \in Files /\ h.generation = g /\ h.highWater = d /\ d \in Nat
      /\ h.epoch = AllocatedEpoch(f, f.frames)
      /\ kept \in Seq(LogRecords) /\ Len(kept) = Len(Records(f.frames)) - start + 1
      /\ Len(Records(f.frames)) \in Nat
      /\ \A n \in 1 .. Len(kept) :
           start - 1 + n \in 1 .. Len(Records(f.frames))
           /\ kept[n] = Records(f.frames)[start - 1 + n]
      /\ kept = <<>> => h.first = 0
      /\ kept # <<>> => h.first # 0 /\ d = CompletedBefore(h) + Len(kept)
      /\ Plannable(h, kept)
  <2>1. IsHeader(f, kept, d, g, h)
    BY DEF IsReplacement, IsHeader
  <2> HIDE DEF h
  <2> QED
    BY <2>1, HeaderFits
<1>2. r = Synced([h EXCEPT !.frames = t])
  <2>1. r = ReplacementOf(f, kept, d, g)
    BY DEF IsReplacement
  <2>2. ReplacementOf(f, kept, d, g) = Synced([h EXCEPT !.frames = t])
    <3> HIDE DEF t
    <3> QED
      BY DEF ReplacementOf, ReplacementHeader, t
  <2> QED
    BY <2>1, <2>2
<1> HIDE DEF h
<1>3. /\ t \in Seq(Frames) /\ Sound(h, t) /\ PendingLen(t) = 0 /\ Records(t) = kept
      /\ \A i \in 1 .. Len(t) : t[i].kind \notin {"Torn", "Malformed"}
      /\ LastCompleted(h, t) = d /\ LastDurable(h, t) = d
      /\ DurableLen(h, t) = Len(kept) /\ AllocatedEpoch(h, t) = h.epoch
      /\ HeaderMet(h, t)
      /\ \A by : CommitFrames(t, by) # {} =>
           \E j \in 1 .. Len(kept) : kept[j].kind = "Commit" /\ kept[j].by = by
  <2>1. IsPlan(kept, d, t)
    BY DEF IsPlan
  <2> HIDE DEF t
  <2> QED
    BY <1>1, <2>1, ReplacementRead
<1> HIDE DEF t
<1> DEFINE e == [h EXCEPT !.frames = t]
<1>4. e \in Files /\ e.frames = t /\ SameHeader(h, e)
  BY <1>1, <1>3 DEF Files, SameHeader
<1> HIDE DEF e
<1>5. r = Synced(e)
  BY <1>2 DEF e
<1>6. r \in Files /\ r.frames = t /\ r.synced = Len(t) /\ SameHeader(e, r)
  BY <1>4, <1>5, SyncedFile
<1>7. SameHeader(h, r)
  BY <1>4, <1>6 DEF SameHeader
<1>8. /\ LastCompleted(r, t) = d /\ DurableLen(r, t) = Len(kept)
      /\ AllocatedEpoch(r, t) = AllocatedEpoch(f, f.frames) /\ Sound(r, t) /\ HeaderMet(r, t)
  BY <1>1, <1>3, <1>7, HeaderOnly
<1>9. Appendable(r) /\ Sure(r) = t
  BY <1>3, <1>6, <1>8, WholeFile
<1>10. r.generation = g /\ r.highWater = d
  BY <1>1, <1>7 DEF SameHeader
<1>11. ASSUME NEW by, CommitFrames(t, by) # {}
       PROVE  CommitFrames(f.frames, by) # {}
  <2>1. PICK j \in 1 .. Len(kept) : kept[j].kind = "Commit" /\ kept[j].by = by
    BY <1>3, <1>11
  <2>2. PICK n \in 1 .. Len(Records(f.frames)) :
           Records(f.frames)[n].kind = "Commit" /\ Records(f.frames)[n].by = by
    BY <1>1, <2>1
  <2>3. f \in Files /\ f.frames \in Seq(Frames) /\ Sound(f, f.frames)
    BY AppendableReads
  <2> QED
    BY <2>2, <2>3, CommitRecords
<1> QED
  BY <1>1, <1>3, <1>6, <1>8, <1>9, <1>10, <1>11 DEF Kept

----------------------------------------------------------------------------
(* The invariant, in parts                                                  *)

MemoryTypes ==
    /\ records \in Seq(LogRecords)
    /\ durableLen \in Nat /\ nextEpoch \in Nat /\ nextPosition \in Nat
    /\ generation \in Nat /\ reclaimedHighWater \in Nat

ClientTypes ==
    /\ lifecycle \in [Epochs -> Lifecycles]
    /\ handedOut \in Seq(Nat)
    /\ reclaimed \subseteq Nat

FilesFine ==
    /\ SoundFile(selected)
    /\ \A file \in former : SoundFile(file) /\ ~Lost(file)
    /\ Lost(selected) => ~opened /\ former = {} /\ selected.synced = Len(selected.frames)

\* The invariant as the proofs of the steps use it: of the files, the memory
\* and the client.
LEMMA BaseParts ==
    BaseInv <=> /\ FilesFine /\ MemoryTypes /\ ClientTypes
                /\ candidate \in BOOLEAN /\ opened \in BOOLEAN /\ poisoned \in BOOLEAN
                /\ HealthyInv /\ ClosedInv /\ ActiveInv
<1>1. (TypeInv /\ FileInv) <=>
        /\ FilesFine /\ MemoryTypes /\ ClientTypes
        /\ candidate \in BOOLEAN /\ opened \in BOOLEAN /\ poisoned \in BOOLEAN
  <2>1. ASSUME TypeInv, FileInv
        PROVE  FilesFine
    <3>1. \A file \in Named : SoundFile(file)
      BY <2>1 DEF TypeInv, FileInv, SoundFile
    <3>2. selected \in Named /\ \A file \in former : file \in Named
      BY DEF Named
    <3> QED
      BY <2>1, <3>1, <3>2 DEF FileInv, FilesFine
  <2>2. ASSUME FilesFine
        PROVE  \A file \in Named : SoundFile(file)
    BY <2>2 DEF FilesFine, Named
  <2>3. ASSUME FilesFine
        PROVE  /\ Named \subseteq Files /\ \A file \in Named : file.synced <= Len(file.frames)
               /\ FileInv
    <3>1. \A file \in Named :
             file \in Files /\ file.synced <= Len(file.frames) /\ FileSound(file)
      BY <2>2, <2>3 DEF SoundFile
    <3> QED
      BY <2>3, <3>1 DEF FileInv, FilesFine
  <2> QED
    BY <2>1, <2>3 DEF TypeInv, MemoryTypes, ClientTypes
<1> QED
  BY <1>1 DEF BaseInv

InParts == /\ FilesFine /\ MemoryTypes /\ ClientTypes
           /\ candidate \in BOOLEAN /\ opened \in BOOLEAN /\ poisoned \in BOOLEAN
           /\ HealthyInv /\ ClosedInv /\ ActiveInv

\* The same of the next state.
LEMMA BaseNext ==
    /\ FilesFine' /\ MemoryTypes' /\ ClientTypes'
    /\ candidate' \in BOOLEAN /\ opened' \in BOOLEAN /\ poisoned' \in BOOLEAN
    /\ HealthyInv' /\ ClosedInv' /\ ActiveInv'
    => BaseInv'
<1>1. InParts => BaseInv
  BY BaseParts DEF InParts
<1>2. InParts' => BaseInv'
  BY <1>1, PTL
<1> QED
  BY <1>2 DEF InParts

\* What a call finds.
LEMMA Ready ==
    ASSUME BaseInv, Usable
    PROVE  /\ Appendable(selected) /\ VolatileUnsynced(selected) /\ MemoryKnows
           /\ UnsyncedRenameOpens \/ former = {}
           /\ \A file \in former : SoundFile(file) /\ ~Lost(file)
           /\ MemoryTypes /\ ClientTypes /\ opened = TRUE /\ poisoned = FALSE
           /\ candidate \in BOOLEAN /\ SoundFile(selected) /\ ~Lost(selected)
<1>1. /\ FilesFine /\ MemoryTypes /\ ClientTypes
      /\ candidate \in BOOLEAN /\ opened \in BOOLEAN /\ poisoned \in BOOLEAN
      /\ HealthyInv
  BY BaseParts
<1>2. opened = TRUE /\ poisoned = FALSE
  BY <1>1 DEF Usable
<1> QED
  BY <1>1, <1>2 DEF HealthyInv, FilesFine, Appendable

\* A memory that knows a file has the types of its fields.
LEMMA KnowsTypes ==
    ASSUME Appendable(selected'), MemoryKnows'
    PROVE  MemoryTypes'
<1>1. /\ selected' \in Files /\ selected'.frames \in Seq(Frames)
      /\ Sound(selected', selected'.frames)
  BY AppendableReads
<1>2. /\ Records(selected'.frames) \in Seq(LogRecords)
      /\ DurableLen(selected', selected'.frames) \in Nat
      /\ AllocatedEpoch(selected', selected'.frames) \in Nat
      /\ LastCompleted(selected', selected'.frames) \in Nat
      /\ selected'.generation \in Nat /\ selected'.highWater \in Nat
  <2>1. DurableLen(selected', selected'.frames) \in 0 .. Cardinality(Ends(selected'.frames))
    BY <1>1, DurableCount
  <2> QED
    BY <1>1, <2>1, RecordsRead, FrameNumbers, HeaderNumbers
<1> QED
  BY <1>2 DEF MemoryKnows, MemoryTypes

\* A call of an adapter that is not poisoned after it, either.
LEMMA StaysUsable ==
    ASSUME BaseInv, Usable, opened' = opened, poisoned' = poisoned,
           former' \in {former, {}}, candidate' \in BOOLEAN,
           Appendable(selected'), VolatileUnsynced(selected'), MemoryKnows', ClientTypes', ActiveInv'
    PROVE  BaseInv'
<1>1. SoundFile(selected') /\ ~Lost(selected') /\ ~EndsTorn(selected'.frames)
      /\ PendingLen(selected'.frames) = 0
  BY DEF Appendable
<1>2. FilesFine'
  BY <1>1, Ready DEF FilesFine
<1>3. HealthyInv'
  BY <1>1, Ready DEF HealthyInv
<1>4. ClosedInv' /\ opened' \in BOOLEAN /\ poisoned' \in BOOLEAN
  BY Ready DEF ClosedInv
<1> QED
  BY <1>2, <1>3, <1>4, KnowsTypes, BaseNext

\* A call that poisons its adapter.
LEMMA BecomesPoisoned ==
    ASSUME BaseInv, opened, opened' = opened, poisoned' = TRUE, candidate' \in BOOLEAN,
           \A file \in former' : SoundFile(file) /\ ~Lost(file),
           SoundFile(selected'), ~Lost(selected'), MemoryTypes', ClientTypes', ActiveInv'
    PROVE  BaseInv'
<1>1. opened \in BOOLEAN
  BY BaseParts
<1>2. FilesFine'
  BY DEF FilesFine
<1>3. HealthyInv' /\ ClosedInv'
  BY DEF HealthyInv, ClosedInv, Usable
<1> QED
  BY <1>1, <1>2, <1>3, BaseNext

----------------------------------------------------------------------------
(* What a file that comes after another still holds                         *)

Follows(f, g) ==
    /\ AllocatedEpoch(f, Sure(f)) <= AllocatedEpoch(g, Sure(g))
    /\ \A by : CommittedIn(f, by) => CommittedIn(g, by)
    /\ \A by : CommitFrames(g.frames, by) # {} => CommitFrames(f.frames, by) # {}

\* The epochs allocated for good are counted.
LEMMA SureEpoch ==
    ASSUME NEW f, SoundFile(f)
    PROVE  AllocatedEpoch(f, Sure(f)) \in Nat
<1>1. f \in Files /\ TornIsLast(f.frames)
  BY DEF SoundFile, FileSound
<1>2. Sure(f) \in Seq(Frames)
  BY <1>1, SureReads
<1> QED
  BY <1>1, <1>2, FrameNumbers

\* A file follows itself.
LEMMA FollowsItself ==
    ASSUME NEW f, SoundFile(f)
    PROVE  Follows(f, f)
BY SureEpoch DEF Follows

\* A file that keeps another follows it.
LEMMA KeepsFollows ==
    ASSUME NEW f, NEW g, Keeps(f, g)
    PROVE  Follows(f, g) /\ SoundFile(g)
BY DEF Keeps, Follows

\* The transactions that may commit still may.
LEMMA ActiveStep ==
    ASSUME BaseInv, SoundFile(selected'), Follows(selected, selected'),
           \A by \in Epochs : lifecycle'[by] = "Active" => lifecycle[by] = "Active"
    PROVE  ActiveInv'
<1>1. ActiveInv /\ SoundFile(selected)
  BY BaseParts DEF FilesFine
<1>2. ASSUME NEW by \in Epochs, lifecycle'[by] = "Active"
      PROVE  /\ CommitFrames(selected'.frames, by) = {}
             /\ by <= AllocatedEpoch(selected', Sure(selected'))
  <2>1. CommitFrames(selected.frames, by) = {} /\ by <= AllocatedEpoch(selected, Sure(selected))
    BY <1>1, <1>2 DEF ActiveInv
  <2>2. /\ AllocatedEpoch(selected, Sure(selected)) \in Nat
        /\ AllocatedEpoch(selected', Sure(selected')) \in Nat
        /\ by \in Nat
    BY <1>1, SureEpoch DEF Epochs
  <2> QED
    BY <2>1, <2>2 DEF Follows
<1> QED
  BY <1>2 DEF ActiveInv

\* The files that are named follow files that were.
Followed == \A file \in Named' : SoundFile(file) /\ \E old \in Named : SoundFile(old) /\ Follows(old, file)

AllocatedStill ==
    \A file \in Named' :
        /\ SoundFile(file)
        /\ \E old \in Named :
             SoundFile(old) /\ AllocatedEpoch(old, Sure(old)) <= AllocatedEpoch(file, Sure(file))

\* Files that follow others lose no allocation of an epoch.
LEMMA FollowedAllocated == Followed => AllocatedStill
BY DEF Followed, AllocatedStill, Follows

\* A step that hands out no epoch and loses no allocation.
LEMMA EpochStep ==
    ASSUME EpochInv, AllocatedStill, handedOut' = handedOut, handedOut \in Seq(Nat),
           \A by \in Epochs : lifecycle'[by] # "NotIssued" => lifecycle[by] # "NotIssued"
    PROVE  EpochInv'
<1>1. ASSUME NEW file \in Named'
      PROVE  /\ \A i \in DOMAIN handedOut' : handedOut'[i] <= AllocatedEpoch(file, Sure(file))
             /\ \A by \in Epochs :
                  lifecycle'[by] # "NotIssued" => by <= AllocatedEpoch(file, Sure(file))
  <2>1. PICK old \in Named :
           /\ SoundFile(old) /\ SoundFile(file)
           /\ AllocatedEpoch(old, Sure(old)) <= AllocatedEpoch(file, Sure(file))
    BY <1>1 DEF AllocatedStill
  <2>2. /\ AllocatedEpoch(old, Sure(old)) \in Nat /\ AllocatedEpoch(file, Sure(file)) \in Nat
        /\ AllocatedEpoch(old, Sure(old)) <= AllocatedEpoch(file, Sure(file))
    BY <2>1, SureEpoch
  <2>3. ASSUME NEW i \in DOMAIN handedOut'
        PROVE  handedOut'[i] <= AllocatedEpoch(file, Sure(file))
    <3>1. handedOut[i] <= AllocatedEpoch(old, Sure(old)) /\ handedOut[i] \in Nat
      BY <2>1 DEF EpochInv
    <3> QED
      BY <2>2, <3>1
  <2>4. ASSUME NEW by \in Epochs, lifecycle'[by] # "NotIssued"
        PROVE  by <= AllocatedEpoch(file, Sure(file))
    <3>1. by <= AllocatedEpoch(old, Sure(old)) /\ by \in Nat
      BY <2>1, <2>4 DEF EpochInv, Epochs
    <3> QED
      BY <2>2, <3>1
  <2> QED
    BY <2>3, <2>4
<1>2. EpochsNeverReissued'
  BY DEF EpochInv, EpochsNeverReissued
<1> QED
  BY <1>1, <1>2 DEF EpochInv

\* A step after which files follow others and no verdict is new, or new ones
\* are true.
LEMMA VerdictStep ==
    ASSUME VerdictInv, Followed, reclaimed' = reclaimed,
           \A by \in Epochs :
             /\ lifecycle'[by] \in Uncommitted =>
                  \/ lifecycle[by] \in Uncommitted
                  \/ \A file \in Named' : CommitFrames(file.frames, by) = {}
             /\ lifecycle'[by] = "Committed" =>
                  lifecycle[by] = "Committed" \/ \A file \in Named' : CommittedIn(file, by)
    PROVE  VerdictInv'
<1>1. ASSUME NEW by \in Epochs
      PROVE  /\ lifecycle'[by] \in Uncommitted =>
                  \A file \in Named' : CommitFrames(file.frames, by) = {}
             /\ lifecycle'[by] = "Committed" =>
                  by \in reclaimed' \/ \A file \in Named' : CommittedIn(file, by)
  <2>1. ASSUME lifecycle[by] \in Uncommitted, NEW file \in Named'
        PROVE  CommitFrames(file.frames, by) = {}
    <3>1. PICK old \in Named : Follows(old, file)
      BY DEF Followed
    <3>2. CommitFrames(old.frames, by) = {}
      BY <2>1, <3>1 DEF VerdictInv
    <3> QED
      BY <3>1, <3>2 DEF Follows
  <2>2. ASSUME lifecycle[by] = "Committed", by \notin reclaimed, NEW file \in Named'
        PROVE  CommittedIn(file, by)
    <3>1. PICK old \in Named : Follows(old, file)
      BY DEF Followed
    <3>2. CommittedIn(old, by)
      BY <2>2, <3>1 DEF VerdictInv
    <3> QED
      BY <3>1, <3>2 DEF Follows
  <2> QED
    BY <2>1, <2>2
<1> QED
  BY <1>1 DEF VerdictInv

----------------------------------------------------------------------------
(* The actions                                                              *)

\* The selected file follows what it was, and no other file changes.
LEMMA FollowedSelected ==
    ASSUME BaseInv, SoundFile(selected'), Follows(selected, selected'), former' \subseteq former
    PROVE  Followed
<1>1. \A file \in Named : SoundFile(file)
  BY BaseParts DEF FilesFine, Named
<1>2. ASSUME NEW file \in Named'
      PROVE  SoundFile(file) /\ \E old \in Named : SoundFile(old) /\ Follows(old, file)
  <2>1. CASE file = selected'
    BY <1>1, <2>1 DEF Named
  <2>2. CASE file \in former'
    <3>1. file \in Named
      BY <2>2 DEF Named
    <3> QED
      BY <1>1, <3>1, FollowsItself
  <2> QED
    BY <2>1, <2>2 DEF Named
<1> QED
  BY <1>2 DEF Followed

\* A step of the client alone.
LEMMA ClientStep ==
    ASSUME BaseInv, UNCHANGED <<selected, former, candidate, opened, memory, poisoned>>,
           ClientTypes', \A by \in Epochs : lifecycle'[by] = "Active" => lifecycle[by] = "Active"
    PROVE  BaseInv' /\ Followed
<1>1. /\ selected' = selected /\ former' = former /\ candidate' = candidate
      /\ opened' = opened /\ poisoned' = poisoned
      /\ records' = records /\ durableLen' = durableLen /\ nextEpoch' = nextEpoch
      /\ nextPosition' = nextPosition /\ generation' = generation
      /\ reclaimedHighWater' = reclaimedHighWater
  BY DEF memory
<1>2. /\ FilesFine /\ MemoryTypes /\ HealthyInv /\ ClosedInv
      /\ candidate \in BOOLEAN /\ opened \in BOOLEAN /\ poisoned \in BOOLEAN
  BY BaseParts
<1>3. SoundFile(selected') /\ Follows(selected, selected')
  <2>1. SoundFile(selected)
    BY <1>2 DEF FilesFine
  <2> QED
    BY <1>1, <2>1, FollowsItself
<1>4. ActiveInv' /\ Followed
  BY <1>1, <1>3, ActiveStep, FollowedSelected
<1>5. FilesFine' /\ MemoryTypes'
  BY <1>1, <1>2 DEF FilesFine, MemoryTypes
<1>6. HealthyInv' /\ ClosedInv'
  BY <1>1, <1>2 DEF HealthyInv, ClosedInv, Usable, MemoryKnows
<1> QED
  BY <1>1, <1>2, <1>4, <1>5, <1>6, BaseNext

\* A call that leaves the file behind poisoned.
LEMMA PoisonStep ==
    ASSUME BaseInv, opened, ~Lost(selected'), Keeps(selected, selected'), poisoned' = TRUE,
           UNCHANGED <<former, candidate, opened>>, MemoryTypes', ClientTypes',
           \A file \in former : ~Lost(file),
           \A by \in Epochs : lifecycle'[by] = "Active" => lifecycle[by] = "Active"
    PROVE  BaseInv' /\ Followed
<1>1. SoundFile(selected') /\ Follows(selected, selected')
  BY KeepsFollows
<1>2. ActiveInv'
  BY <1>1, ActiveStep
<1>3. candidate' \in BOOLEAN /\ \A file \in former' : SoundFile(file) /\ ~Lost(file)
  BY BaseParts DEF FilesFine
<1>4. BaseInv'
  BY <1>1, <1>2, <1>3, BecomesPoisoned
<1> QED
  BY <1>1, <1>4, FollowedSelected

\* The records that the calls build are the next ones of their file.
LEMMA NextRecordIs ==
    ASSUME BaseInv, Usable, NEW kind \in {"Commit", "Page"}, NEW by \in Nat,
           by = 0 \/ (by \in Epochs /\ lifecycle[by] = "Active"), kind = "Commit" => by # 0
    PROVE  NextRecord(selected, [kind |-> kind, at |-> nextPosition, by |-> by])
<1>1. /\ Appendable(selected) /\ MemoryKnows
  BY Ready
<1>2. /\ selected \in Files /\ selected.frames \in Seq(Frames)
  BY <1>1, AppendableReads
<1>3. /\ LastCompleted(selected, selected.frames) \in Nat
      /\ AllocatedEpoch(selected, selected.frames) \in Nat
      /\ nextPosition = LastCompleted(selected, selected.frames) + 1
  BY <1>1, <1>2, FrameNumbers DEF MemoryKnows
<1>4. [kind |-> kind, at |-> nextPosition, by |-> by] \in LogRecords
  BY <1>3 DEF LogRecords
<1>5. by # 0 => /\ by <= AllocatedEpoch(selected, selected.frames)
                /\ CommitFrames(selected.frames, by) = {}
  <2>1. SUFFICES ASSUME by # 0
                 PROVE  /\ by <= AllocatedEpoch(selected, selected.frames)
                        /\ CommitFrames(selected.frames, by) = {}
    OBVIOUS
  <2>2. ActiveInv /\ SoundFile(selected)
    BY BaseParts, Ready
  <2>3. CommitFrames(selected.frames, by) = {} /\ by <= AllocatedEpoch(selected, Sure(selected))
    BY <2>1, <2>2 DEF ActiveInv
  <2>4. /\ AllocatedEpoch(selected, Sure(selected)) <= AllocatedEpoch(selected, selected.frames)
        /\ AllocatedEpoch(selected, Sure(selected)) \in Nat
    BY <1>1, <2>2, VolatileSure, SureEpoch
  <2> QED
    BY <1>3, <2>3, <2>4
<1>6. by <= AllocatedEpoch(selected, selected.frames)
  BY <1>3, <1>5
<1> HIDE DEF NextRecord
<1> QED
  BY <1>3, <1>4, <1>5, <1>6 DEF NextRecord

\* A record is appended.
LEMMA Appends ==
    ASSUME BaseInv, NEW r, Usable, NextRecord(selected, r), Appended(r)
    PROVE  /\ Appendable(selected') /\ VolatileUnsynced(selected') /\ MemoryKnows'
           /\ AllocatedEpoch(selected, Sure(selected)) = AllocatedEpoch(selected', Sure(selected'))
           /\ DurableLen(selected', Sure(selected')) = DurableLen(selected, Sure(selected))
           /\ Records(selected'.frames) = Append(Records(selected.frames), r)
           /\ \A by : CommittedIn(selected, by) => CommittedIn(selected', by)
           /\ \A by : CommitFrames(selected'.frames, by) # {} =>
                CommitFrames(selected.frames, by) # {} \/ (r.kind = "Commit" /\ r.by = by)
           /\ poisoned' = poisoned
<1>1. Appendable(selected) /\ VolatileUnsynced(selected) /\ MemoryKnows
  BY Ready
<1> DEFINE g == selected'
<1>2. /\ g = Extended(selected, FramesOf(r)) /\ records' = Append(records, r)
      /\ nextPosition' = nextPosition + 1 /\ durableLen' = durableLen /\ nextEpoch' = nextEpoch
      /\ generation' = generation /\ reclaimedHighWater' = reclaimedHighWater
      /\ poisoned' = poisoned
  BY DEF Appended
<1>3. RecordAdded(selected, r, g)
  BY <1>1, <1>2, RecordWritten
<1>4. MemoryKnows'
  BY <1>1, <1>2, <1>3 DEF MemoryKnows, RecordAdded, SameHeader
<1> QED
  BY <1>1, <1>2, <1>3, <1>4 DEF RecordAdded

\* A record is not, or not wholly, appended.
LEMMA AppendFails ==
    ASSUME BaseInv, NEW r, Usable => NextRecord(selected, r), AppendFailed(r),
           UNCHANGED <<former, candidate, opened>>, ClientTypes',
           \A by \in Epochs : lifecycle'[by] = "Active" => lifecycle[by] = "Active"
    PROVE  BaseInv' /\ Followed
<1>1. CASE AppendInterrupted(r)
  <2>1. /\ Usable /\ selected' \in Interrupted(selected, FramesOf(r))
        /\ poisoned' = TRUE /\ UNCHANGED memory
    BY <1>1 DEF AppendInterrupted, Poison
  <2>2. NextRecord(selected, r)
    BY <2>1
  <2>3. Keeps(selected, selected') /\ ~Lost(selected')
    BY <2>1, <2>2, Ready, RecordInterrupted
  <2>4. MemoryTypes' /\ opened /\ \A file \in former : ~Lost(file)
    BY <2>1, Ready DEF MemoryTypes, memory
  <2> QED
    BY <2>1, <2>3, <2>4, PoisonStep
<1>2. CASE AppendRefused
  <2>1. UNCHANGED <<selected, former, candidate, opened, memory, poisoned>>
    BY <1>2 DEF AppendRefused
  <2> QED
    BY <2>1, ClientStep
<1> QED
  BY <1>1, <1>2 DEF AppendFailed

\* A page is appended.
LEMMA PageStep ==
    ASSUME BaseInv, NEW r, Usable, NextRecord(selected, r), r.kind = "Page", Appended(r),
           UNCHANGED <<former, candidate, opened, client>>
    PROVE  BaseInv' /\ Followed
<1>1. /\ Appendable(selected') /\ VolatileUnsynced(selected') /\ MemoryKnows'
      /\ AllocatedEpoch(selected, Sure(selected)) = AllocatedEpoch(selected', Sure(selected'))
      /\ \A by : CommittedIn(selected, by) => CommittedIn(selected', by)
      /\ \A by : CommitFrames(selected'.frames, by) # {} =>
           CommitFrames(selected.frames, by) # {} \/ (r.kind = "Commit" /\ r.by = by)
      /\ poisoned' = poisoned
  BY Appends
<1>2. AllocatedEpoch(selected, Sure(selected)) \in Nat /\ SoundFile(selected')
  BY <1>1, Ready, SureEpoch DEF Appendable
<1>3. Follows(selected, selected')
  BY <1>1, <1>2 DEF Follows
<1>4. ClientTypes' /\ candidate' \in BOOLEAN /\ lifecycle' = lifecycle /\ opened' = opened
      /\ former' = former
  BY Ready DEF client, ClientTypes
<1>5. ActiveInv' /\ Followed
  BY <1>2, <1>3, <1>4, ActiveStep, FollowedSelected
<1> QED
  BY <1>1, <1>4, <1>5, StaysUsable

\* append_page of a page without a transaction keeps the invariant.
LEMMA AppendRawPageStep ==
    ASSUME BaseInv, AppendRawPage
    PROVE  BaseInv' /\ Followed /\ lifecycle' = lifecycle
<1> DEFINE r == [kind |-> "Page", at |-> nextPosition, by |-> 0]
<1>1. /\ Appended(r) \/ AppendInterrupted(r)
      /\ UNCHANGED <<former, candidate, opened, client>>
  BY DEF AppendRawPage
<1>2. Usable
  BY <1>1 DEF Appended, AppendInterrupted
<1>3. NextRecord(selected, r) /\ r.kind = "Page"
  BY <1>2, NextRecordIs
<1> HIDE DEF r
<1>4. ClientTypes' /\ lifecycle' = lifecycle
  BY <1>1, <1>2, Ready DEF client, ClientTypes
<1>5. CASE Appended(r)
  BY <1>1, <1>2, <1>3, <1>4, <1>5, PageStep
<1>6. CASE AppendInterrupted(r)
  <2>1. AppendFailed(r)
    BY <1>6 DEF AppendFailed
  <2> QED
    BY <1>1, <1>3, <1>4, <2>1, AppendFails
<1> QED
  BY <1>1, <1>5, <1>6

\* A change of one status.
LEMMA StatusNow ==
    ASSUME ClientTypes, NEW by \in Epochs, NEW status \in Lifecycles, Now(by, status),
           handedOut' = handedOut, reclaimed' = reclaimed
    PROVE  /\ ClientTypes'
           /\ \A e \in Epochs : lifecycle'[e] = IF e = by THEN status ELSE lifecycle[e]
BY DEF Now, ClientTypes

\* stage_page_write keeps it, and may leave its transaction indeterminate.
LEMMA StagePageStep ==
    ASSUME BaseInv, NEW by \in Epochs, StagePage(by)
    PROVE  /\ BaseInv' /\ Followed
           /\ \A e \in Epochs :
                \/ lifecycle'[e] = lifecycle[e]
                \/ lifecycle[e] = "Active" /\ lifecycle'[e] = "PageAppendIndeterminate"
<1> DEFINE r == [kind |-> "Page", at |-> nextPosition, by |-> by]
<1>1. /\ lifecycle[by] = "Active"
      /\ \/ Appended(r) /\ UNCHANGED lifecycle
         \/ AppendFailed(r) /\ Now(by, "PageAppendIndeterminate")
      /\ UNCHANGED <<former, candidate, opened, handedOut, reclaimed>>
  BY DEF StagePage
<1>2. Usable => NextRecord(selected, r) /\ r.kind = "Page"
  <2>1. by \in Nat
    BY DEF Epochs
  <2> QED
    BY <1>1, <2>1, NextRecordIs
<1> HIDE DEF r
<1>3. CASE Appended(r) /\ UNCHANGED lifecycle
  <2>1. Usable
    BY <1>3 DEF Appended
  <2>2. UNCHANGED <<former, candidate, opened, client>>
    BY <1>1, <1>3 DEF client
  <2> QED
    BY <1>2, <1>3, <2>1, <2>2, PageStep
<1>4. CASE AppendFailed(r) /\ Now(by, "PageAppendIndeterminate")
  <2>1. ClientTypes /\ "PageAppendIndeterminate" \in Lifecycles
    BY BaseParts DEF Lifecycles, Undecided
  <2>2. /\ ClientTypes'
        /\ \A e \in Epochs :
             lifecycle'[e] = IF e = by THEN "PageAppendIndeterminate" ELSE lifecycle[e]
    BY <1>1, <1>4, <2>1, StatusNow
  <2>3. BaseInv' /\ Followed
    BY <1>1, <1>2, <1>4, <2>2, AppendFails
  <2> QED
    BY <1>1, <2>2, <2>3
<1> QED
  BY <1>1, <1>3, <1>4

\* What flush_through its i-th record makes of a file.
FlushDone(f, i, g) ==
    /\ Keeps(f, g) /\ Appendable(g) /\ VolatileUnsynced(g) /\ SameHeader(f, g)
    /\ Records(g.frames) = Records(f.frames)
    /\ LastCompleted(g, g.frames) = LastCompleted(f, f.frames)
    /\ DurableLen(g, g.frames) = i /\ Sure(g) = g.frames
    /\ AllocatedEpoch(g, g.frames) = AllocatedEpoch(f, f.frames)

FlushFailed(f, h) ==
    /\ Keeps(f, h) /\ ~Lost(h)
    /\ Records(Readable(h)) = Records(f.frames)
    /\ DurableLen(h, Sure(h)) = DurableLen(f, f.frames)

\* A frame that follows what is permanent changes nothing of that.
LEMMA AfterSynced ==
    ASSUME NEW s, Appendable(s), Sure(s) = s.frames, NEW x \in Frames
    PROVE  /\ \A h \in Interrupted(s, <<x>>) :
                Readable(h) = s.frames /\ DurableLen(h, Sure(h)) = DurableLen(s, s.frames)
           /\ \A g : g = Extended(s, <<x>>) /\ Appendable(g) =>
                DurableLen(g, Sure(g)) = DurableLen(s, s.frames)
<1>1. s \in Files /\ s.frames \in Seq(Frames) /\ Len(s.frames) \in Nat /\ Sound(s, s.frames)
  BY AppendableReads
<1>2. <<x>> \in Seq(Frames) /\ Len(<<x>>) = 1
  OBVIOUS
<1>3. ASSUME NEW h \in Interrupted(s, <<x>>)
      PROVE  Readable(h) = s.frames /\ DurableLen(h, Sure(h)) = DurableLen(s, s.frames)
  <2>1. PICK n \in 0 .. Len(<<x>>) - 1, t \in Seq(Frames) :
           Written(s, h, t) /\ Len(t) = Len(s.frames) + n
    BY <1>1, <1>2, WrittenPart
  <2>2. Len(t) = Len(s.frames)
    BY <1>1, <1>2, <2>1
  <2>3. /\ h \in Files /\ SameHeader(s, h) /\ h.synced = s.synced
        /\ Alike(s.frames, t, Len(s.frames)) /\ (h.frames = t \/ h.frames = t \o <<Torn>>)
    BY <2>1 DEF Written
  <2>4. t = s.frames
    BY <1>1, <2>2, <2>3 DEF Alike
  <2>5. \A i \in Len(s.frames) + 1 .. Len(t) : t[i].kind \notin {"Torn", "Malformed"}
    BY <1>1, <2>2
  <2>6. Sound(s, t)
    BY <1>1, <2>4
  <2>7. Readable(h) = t /\ DurableLen(h, Sure(h)) = DurableLen(s, Sure(s))
    BY <2>3, <2>5, <2>6, GrownFile
  <2> QED
    BY <2>4, <2>7
<1>4. ASSUME NEW g, g = Extended(s, <<x>>), Appendable(g)
      PROVE  DurableLen(g, Sure(g)) = DurableLen(s, s.frames)
  <2>1. Written(s, g, g.frames)
    BY <1>1, <1>2, <1>4, WrittenAll
  <2>2. /\ g \in Files /\ SameHeader(s, g) /\ g.synced = s.synced /\ g.frames \in Seq(Frames)
        /\ Alike(s.frames, g.frames, Len(s.frames))
    BY <2>1 DEF Written
  <2>3. /\ Sound(g, g.frames)
        /\ \A i \in 1 .. Len(g.frames) : g.frames[i].kind \notin {"Torn", "Malformed"}
    BY <1>4, AppendableReads
  <2>4. Sound(s, g.frames)
    BY <2>2, <2>3, HeaderOnly
  <2>5. \A i \in Len(s.frames) + 1 .. Len(g.frames) : g.frames[i].kind \notin {"Torn", "Malformed"}
    BY <1>1, <2>3
  <2>6. DurableLen(g, Sure(g)) = DurableLen(s, Sure(s))
    BY <2>2, <2>4, <2>5, GrownFile
  <2> QED
    BY <2>6
<1> QED
  BY <1>3, <1>4

\* In a file that is permanent as a whole nothing is volatile.
LEMMA SyncedWhole ==
    ASSUME NEW f, f.synced = Len(f.frames), f.frames \in Seq(Frames)
    PROVE  VolatileUnsynced(f)
BY FramesElements DEF VolatileUnsynced

\* What flush_through makes of a file, whether or not it comes to its end.
LEMMA FlushedFile ==
    ASSUME NEW f, Appendable(f), NEW i \in 1 .. Len(Records(f.frames)),
           i > DurableLen(f, f.frames), NEW p, p = Records(f.frames)[i].at
    PROVE  /\ FlushDone(f, i, Synced(Extended(Synced(f), <<Marker(p)>>)))
           /\ \A h \in Interrupted(Synced(f), <<Marker(p)>>) : FlushFailed(f, h)
           /\ FlushFailed(f, Extended(Synced(f), <<Marker(p)>>))
<1> DEFINE s == Synced(f)  g == Extended(s, <<Marker(p)>>)  k == Synced(g)
<1>1. /\ f \in Files /\ f.frames \in Seq(Frames) /\ Sound(f, f.frames) /\ SoundFile(f)
  BY AppendableReads DEF Appendable
<1>2. /\ Keeps(f, s) /\ Appendable(s) /\ s.frames = f.frames /\ SameHeader(f, s)
  BY <1>1, SyncedFile, SyncedKeeps
<1>3. /\ p = CompletedBefore(f) + i /\ CompletedBefore(f) \in Nat
      /\ LastCompleted(f, f.frames) = CompletedBefore(f) + Len(Records(f.frames))
      /\ Len(Records(f.frames)) \in Nat
      /\ ~(CompletedBefore(f) + i <= LastDurable(f, f.frames))
      /\ LastDurable(f, f.frames) \in Nat
  <2>1. /\ Records(f.frames)[i].at = CompletedBefore(f) + i
        /\ Len(Records(f.frames)) = Cardinality(Ends(f.frames))
        /\ CompletedBefore(f) \in Nat /\ Len(Records(f.frames)) \in Nat
        /\ LastCompleted(f, f.frames) = CompletedBefore(f) + Cardinality(Ends(f.frames))
        /\ LastDurable(f, f.frames) \in Nat
    BY <1>1, RecordsRead, FrameNumbers, HeaderNumbers, DurablePositions
  <2>2. DurableLen(f, f.frames) \in Nat
        /\ (i <= DurableLen(f, f.frames) <=> CompletedBefore(f) + i <= LastDurable(f, f.frames))
    <3>1. DurableLen(f, f.frames) \in 0 .. Cardinality(Ends(f.frames))
      BY <1>1, DurableCount
    <3> QED
      BY <1>1, <2>1, <3>1, DurableCount
  <2> QED
    BY <2>1, <2>2
<1> HIDE DEF s
<1>4. /\ p \in CompletedBefore(s) + 1 .. LastCompleted(s, s.frames) /\ p > LastDurable(s, s.frames)
      /\ p \in Nat
  <2>1. /\ CompletedBefore(s) = CompletedBefore(f)
        /\ LastCompleted(s, s.frames) = LastCompleted(f, f.frames)
        /\ LastDurable(s, s.frames) = LastDurable(f, f.frames)
    BY <1>2, HeaderOnly
  <2> QED
    BY <1>3, <2>1
<1>5. MarkerAdded(s, p, g)
  BY <1>2, <1>4, MarkerWritten
<1> HIDE DEF g
<1>6. /\ Keeps(f, k) /\ Keeps(f, g)
  BY <1>1, <1>2, <1>5, KeepsTransitive DEF MarkerAdded
<1>7. /\ Appendable(k) /\ SameHeader(s, k) /\ k.frames = g.frames /\ Sure(k) = g.frames
      /\ k.synced = Len(k.frames)
  BY <1>5 DEF MarkerAdded
<1> HIDE DEF k
<1>8. /\ LastCompleted(k, k.frames) = LastCompleted(s, k.frames)
      /\ DurableLen(k, k.frames) = DurableLen(s, k.frames)
      /\ AllocatedEpoch(k, k.frames) = AllocatedEpoch(s, k.frames)
      /\ LastCompleted(s, f.frames) = LastCompleted(f, f.frames)
      /\ AllocatedEpoch(s, f.frames) = AllocatedEpoch(f, f.frames)
      /\ CompletedBefore(s) = CompletedBefore(f)
  BY <1>2, <1>7, HeaderOnly
<1>9. DurableLen(k, k.frames) = i
  <2>1. DurableLen(k, k.frames) = p - CompletedBefore(f)
    BY <1>5, <1>7, <1>8 DEF MarkerAdded
  <2> QED
    BY <1>3, <2>1
<1>10. VolatileUnsynced(k)
  BY <1>7, AppendableReads, SyncedWhole
<1>11. SameHeader(f, k)
  BY <1>2, <1>7 DEF SameHeader
<1>12. /\ Records(k.frames) = Records(f.frames)
       /\ LastCompleted(k, k.frames) = LastCompleted(f, f.frames)
       /\ AllocatedEpoch(k, k.frames) = AllocatedEpoch(f, f.frames)
  BY <1>2, <1>5, <1>7, <1>8 DEF MarkerAdded
<1>13. FlushDone(f, i, k)
  BY <1>6, <1>7, <1>9, <1>10, <1>11, <1>12 DEF FlushDone
<1>16. Sure(s) = s.frames /\ DurableLen(s, s.frames) = DurableLen(f, f.frames)
  <2>1. Sure(s) = Readable(f) /\ Readable(f) = f.frames
    BY <1>1, AppendableReads, SyncedKeeps DEF s
  <2> QED
    BY <1>2, <2>1, HeaderOnly
<1>17. Marker(p) \in Frames
  BY <1>4, FramesMade
<1>14. ASSUME NEW h \in Interrupted(s, <<Marker(p)>>)
       PROVE  FlushFailed(f, h)
  <2>1. Keeps(s, h) /\ ~Lost(h)
    BY <1>2, <1>17, SingleInterrupted
  <2>2. Readable(h) = f.frames /\ DurableLen(h, Sure(h)) = DurableLen(f, f.frames)
    BY <1>2, <1>16, <1>17, AfterSynced
  <2> QED
    BY <1>1, <1>2, <2>1, <2>2, KeepsTransitive DEF FlushFailed
<1>15. FlushFailed(f, g)
  <2>1. ~Lost(g) /\ Appendable(g) /\ Records(g.frames) = Records(f.frames)
    BY <1>2, <1>5 DEF MarkerAdded, Appendable
  <2>2. Readable(g) = g.frames
    BY <2>1, AppendableReads
  <2>3. DurableLen(g, Sure(g)) = DurableLen(f, f.frames)
    BY <1>2, <1>16, <1>17, <2>1, AfterSynced DEF g
  <2> QED
    BY <1>6, <2>1, <2>2, <2>3 DEF FlushFailed
<1> QED
  BY <1>13, <1>14, <1>15 DEF s, g, k

\* flush_through keeps the invariant, and all that the file held.
LEMMA FlushThroughStep ==
    ASSUME BaseInv, NEW i \in 1 .. Len(records), FlushThrough(i)
    PROVE  BaseInv' /\ Followed /\ lifecycle' = lifecycle /\ Keeps(selected, selected')
<1>1. /\ Usable /\ i > durableLen
      /\ Flushed(selected, records, i) \/ MarkerInterrupted(selected, records, i)
      /\ UNCHANGED <<records, nextPosition, former, candidate, opened, lifecycle, handedOut, reclaimed>>
  BY DEF FlushThrough
<1>2. /\ Appendable(selected) /\ MemoryKnows /\ MemoryTypes /\ ClientTypes
      /\ opened = TRUE /\ candidate \in BOOLEAN
      /\ \A file \in former : SoundFile(file) /\ ~Lost(file)
  BY <1>1, Ready
<1> DEFINE p == records[i].at
<1>3. /\ FlushDone(selected, i, Synced(Extended(Synced(selected), <<Marker(p)>>)))
      /\ \A h \in Interrupted(Synced(selected), <<Marker(p)>>) : FlushFailed(selected, h)
      /\ FlushFailed(selected, Extended(Synced(selected), <<Marker(p)>>))
  <2>1. records = Records(selected.frames) /\ durableLen = DurableLen(selected, selected.frames)
    BY <1>2 DEF MemoryKnows
  <2>2. i \in 1 .. Len(Records(selected.frames)) /\ i > DurableLen(selected, selected.frames)
        /\ p = Records(selected.frames)[i].at
    BY <1>1, <2>1
  <2> HIDE DEF p
  <2> QED
    BY <1>2, <2>2, FlushedFile
<1> HIDE DEF p
<1>4. ClientTypes' /\ lifecycle' = lifecycle
  BY <1>1, <1>2 DEF ClientTypes
<1>5. CASE Flushed(selected, records, i)
  <2>1. /\ selected' = Synced(Extended(Synced(selected), <<Marker(p)>>))
        /\ durableLen' = i /\ UNCHANGED <<nextEpoch, generation, reclaimedHighWater, poisoned>>
    BY <1>5 DEF Flushed, MarkerSynced, RecordsSynced, p
  <2>2. FlushDone(selected, i, selected')
    BY <1>3, <2>1
  <2>3. MemoryKnows'
    BY <1>1, <1>2, <2>1, <2>2 DEF MemoryKnows, FlushDone, SameHeader
  <2>4. SoundFile(selected') /\ Follows(selected, selected') /\ Appendable(selected')
        /\ VolatileUnsynced(selected')
    BY <2>2, KeepsFollows DEF FlushDone
  <2>5. ActiveInv'
    BY <1>4, <2>4, ActiveStep
  <2>6. BaseInv'
    BY <1>1, <1>2, <1>4, <2>1, <2>3, <2>4, <2>5, StaysUsable
  <2> QED
    BY <1>1, <1>4, <2>2, <2>4, <2>6, FollowedSelected DEF FlushDone
<1>6. CASE MarkerInterrupted(selected, records, i)
  <2>1. /\ selected' \in Interrupted(Synced(selected), <<Marker(p)>>)
                        \cup {Extended(Synced(selected), <<Marker(p)>>)}
        /\ poisoned' = TRUE /\ UNCHANGED <<durableLen, nextEpoch, generation, reclaimedHighWater>>
    BY <1>6 DEF MarkerInterrupted, RecordsSynced, p
  <2>2. Keeps(selected, selected') /\ ~Lost(selected')
    BY <1>3, <2>1 DEF FlushFailed
  <2>3. MemoryTypes'
    BY <1>1, <1>2, <2>1 DEF MemoryTypes
  <2> QED
    BY <1>1, <1>2, <1>4, <2>1, <2>2, <2>3, PoisonStep
<1> QED
  BY <1>1, <1>5, <1>6

\* An epoch is handed out.
EpochHandedOut ==
    /\ handedOut' = Append(handedOut, nextEpoch) /\ nextEpoch \in Epochs
    /\ lifecycle' = [lifecycle EXCEPT ![nextEpoch] = "Active"]
    /\ nextEpoch = AllocatedEpoch(selected, Sure(selected)) + 1
    /\ nextEpoch = AllocatedEpoch(selected', Sure(selected'))

\* allocate_transaction_epoch keeps it, and hands out the epoch that it made
\* permanent.
LEMMA AllocateEpochStep ==
    ASSUME BaseInv, AllocateEpoch
    PROVE  /\ BaseInv' /\ Followed /\ Keeps(selected, selected')
           /\ \/ UNCHANGED <<lifecycle, handedOut>>
              \/ EpochHandedOut /\ Usable /\ former' = former
<1> DEFINE written == Extended(selected, <<EpochFrame(nextEpoch)>>)
<1>1. /\ Usable /\ nextEpoch <= MaxEpoch
      /\ \/ /\ selected' = Synced(written)
            /\ nextEpoch' = nextEpoch + 1
            /\ Now(nextEpoch, "Active")
            /\ handedOut' = Append(handedOut, nextEpoch)
            /\ UNCHANGED <<records, durableLen, nextPosition, generation, reclaimedHighWater, poisoned>>
         \/ /\ selected' \in Interrupted(selected, <<EpochFrame(nextEpoch)>>) \cup {written}
            /\ poisoned' = TRUE /\ UNCHANGED memory
            /\ UNCHANGED <<lifecycle, handedOut>>
      /\ UNCHANGED <<former, candidate, opened, reclaimed>>
  BY DEF AllocateEpoch, Available, EpochSynced, Poison
<1>2. /\ Appendable(selected) /\ VolatileUnsynced(selected) /\ MemoryKnows /\ MemoryTypes
      /\ ClientTypes /\ opened = TRUE /\ candidate \in BOOLEAN
      /\ \A file \in former : SoundFile(file) /\ ~Lost(file)
  BY <1>1, Ready
<1>3. nextEpoch = AllocatedEpoch(selected, selected.frames) + 1 /\ nextEpoch \in Nat
  BY <1>2 DEF MemoryKnows, MemoryTypes
<1>4. EpochAdded(selected, written)
  BY <1>2, <1>3, EpochWritten
<1> HIDE DEF written
<1>5. /\ selected \in Files /\ selected.frames \in Seq(Frames) /\ Sound(selected, selected.frames)
  BY <1>2, AppendableReads
<1>6. AllocatedEpoch(selected, selected.frames) \in Nat /\ nextEpoch \in Epochs
  BY <1>1, <1>3, <1>5, FrameNumbers, BoundsAssumption DEF Epochs
<1>7. CASE /\ selected' = Synced(written)
           /\ nextEpoch' = nextEpoch + 1
           /\ Now(nextEpoch, "Active")
           /\ handedOut' = Append(handedOut, nextEpoch)
           /\ UNCHANGED <<records, durableLen, nextPosition, generation, reclaimedHighWater, poisoned>>
  <2> DEFINE g == selected'
  <2>1. /\ Keeps(selected, g) /\ Appendable(g) /\ SameHeader(selected, g) /\ Sure(g) = g.frames
        /\ g.synced = Len(g.frames) /\ Records(g.frames) = Records(selected.frames)
        /\ LastCompleted(selected, g.frames) = LastCompleted(selected, selected.frames)
        /\ DurableLen(selected, g.frames) = DurableLen(selected, selected.frames)
        /\ AllocatedEpoch(selected, g.frames) = AllocatedEpoch(selected, selected.frames) + 1
        /\ \A by : CommitFrames(g.frames, by) = CommitFrames(selected.frames, by)
    BY <1>4, <1>7 DEF EpochAdded
  <2> HIDE DEF g
  <2>2. /\ LastCompleted(g, g.frames) = LastCompleted(selected, selected.frames)
        /\ DurableLen(g, g.frames) = DurableLen(selected, selected.frames)
        /\ AllocatedEpoch(g, g.frames) = AllocatedEpoch(selected, selected.frames) + 1
    BY <2>1, HeaderOnly
  <2>3. MemoryKnows'
    BY <1>2, <1>3, <1>6, <1>7, <2>1, <2>2 DEF MemoryKnows, SameHeader, g
  <2>4. VolatileUnsynced(g)
    BY <2>1, AppendableReads, SyncedWhole
  <2>5. SoundFile(g) /\ Follows(selected, g)
    BY <2>1, KeepsFollows
  <2>6. ClientTypes' /\ lifecycle' = [lifecycle EXCEPT ![nextEpoch] = "Active"]
    <3>1. "Active" \in Lifecycles
      BY DEF Lifecycles, Undecided
    <3>2. lifecycle' = [lifecycle EXCEPT ![nextEpoch] = "Active"]
      BY <1>7 DEF Now
    <3>3. handedOut' \in Seq(Nat)
      BY <1>2, <1>3, <1>7 DEF ClientTypes
    <3> QED
      BY <1>1, <1>2, <3>1, <3>2, <3>3 DEF ClientTypes
  <2>7. /\ nextEpoch = AllocatedEpoch(selected, Sure(selected)) + 1
        /\ nextEpoch = AllocatedEpoch(g, Sure(g))
    <3>1. AllocatedEpoch(selected, Sure(selected)) = AllocatedEpoch(selected, selected.frames)
      BY <1>2, VolatileSure
    <3> QED
      BY <1>3, <2>1, <2>2, <3>1
  <2>8. ActiveInv'
    <3>1. ActiveInv
      BY BaseParts
    <3>2. ASSUME NEW by \in Epochs, lifecycle'[by] = "Active"
          PROVE  /\ CommitFrames(g.frames, by) = {} /\ by <= AllocatedEpoch(g, Sure(g))
      <4>1. CASE by = nextEpoch
        <5>1. SUFFICES ASSUME CommitFrames(selected.frames, by) # {} PROVE FALSE
          BY <2>1, <2>7, <1>3, <4>1
        <5>2. PICK n \in 1 .. Len(Records(selected.frames)) : Records(selected.frames)[n].by = by
          BY <1>5, <5>1, CommitRecords
        <5>3. by <= AllocatedEpoch(selected, selected.frames)
          BY <1>5, <5>2, CommitRecords
        <5> QED
          BY <1>3, <1>6, <4>1, <5>3
      <4>2. CASE by # nextEpoch
        <5>1. lifecycle[by] = "Active"
          BY <1>2, <2>6, <3>2, <4>2 DEF ClientTypes
        <5>2. /\ CommitFrames(selected.frames, by) = {}
              /\ by <= AllocatedEpoch(selected, Sure(selected)) /\ by \in Nat
          BY <3>1, <5>1 DEF ActiveInv, Epochs
        <5>3. CommitFrames(g.frames, by) = {}
          BY <2>1, <5>2
        <5>4. AllocatedEpoch(selected, Sure(selected)) \in Nat
          BY <1>2, SureEpoch DEF Appendable
        <5>5. by <= AllocatedEpoch(g, Sure(g))
          BY <1>3, <2>7, <5>2, <5>4
        <5> QED
          BY <5>3, <5>5
      <4> QED
        BY <4>1, <4>2
    <3> QED
      BY <3>2 DEF ActiveInv, g
  <2>9. BaseInv'
    BY <1>1, <1>2, <1>7, <2>1, <2>3, <2>4, <2>6, <2>8, StaysUsable DEF g
  <2>10. Followed
    BY <1>1, <2>5, FollowedSelected DEF g
  <2>11. EpochHandedOut
    BY <1>6, <1>7, <2>6, <2>7 DEF EpochHandedOut, g
  <2> QED
    BY <1>1, <2>1, <2>9, <2>10, <2>11 DEF g
<1>8. CASE /\ selected' \in Interrupted(selected, <<EpochFrame(nextEpoch)>>) \cup {written}
           /\ poisoned' = TRUE /\ UNCHANGED memory
           /\ UNCHANGED <<lifecycle, handedOut>>
  <2>1. Keeps(selected, selected') /\ ~Lost(selected')
    <3>1. CASE selected' = written
      BY <1>4, <3>1 DEF EpochAdded, Appendable
    <3>2. CASE selected' \in Interrupted(selected, <<EpochFrame(nextEpoch)>>)
      <4>1. EpochFrame(nextEpoch) \in Frames
        BY <1>3, FramesMade
      <4> QED
        BY <1>2, <3>2, <4>1, SingleInterrupted
    <3> QED
      BY <1>8, <3>1, <3>2
  <2>2. MemoryTypes' /\ ClientTypes' /\ lifecycle' = lifecycle
    BY <1>1, <1>2, <1>8 DEF MemoryTypes, memory, ClientTypes
  <2>3. BaseInv' /\ Followed
    BY <1>1, <1>2, <1>8, <2>1, <2>2, PoisonStep
  <2> QED
    BY <1>8, <2>1, <2>3
<1> QED
  BY <1>1, <1>7, <1>8

\* A commit that cannot be resolved yet, or is.
LEMMA ResolveStep ==
    ASSUME BaseInv, NEW by \in Epochs, Resolve(by)
    PROVE  /\ BaseInv' /\ Followed /\ Usable
           /\ UNCHANGED <<selected, former>>
           /\ \A e \in Epochs : e # by => lifecycle'[e] = lifecycle[e]
           /\ lifecycle[by] = "Indeterminate"
           /\ \/ lifecycle'[by] = "NoDurableCommitRecord" /\ CommitsOf(by) = {}
              \/ /\ lifecycle'[by] = "Committed"
                 /\ \E i \in 1 .. durableLen :
                      i \in DOMAIN records /\ records[i].kind = "Commit" /\ records[i].by = by
<1>1. PICK found \in LookupDurableCommit(by) :
         /\ Usable /\ lifecycle[by] = "Indeterminate"
         /\ Now(by, IF found = {} THEN "NoDurableCommitRecord" ELSE "Committed")
         /\ UNCHANGED <<selected, former, candidate, opened, memory, poisoned, handedOut, reclaimed>>
  BY DEF Resolve
<1>2. found = CommitsOf(by) /\ \A i \in found : i <= durableLen
  BY DEF LookupDurableCommit
<1> DEFINE status == IF found = {} THEN "NoDurableCommitRecord" ELSE "Committed"
<1>3. status \in {"NoDurableCommitRecord", "Committed"} /\ status \in Lifecycles /\ status # "Active"
  BY DEF Lifecycles
<1>4. ClientTypes /\ MemoryTypes
  BY BaseParts
<1>5. /\ ClientTypes'
      /\ \A e \in Epochs : lifecycle'[e] = IF e = by THEN status ELSE lifecycle[e]
  <2>1. Now(by, status) /\ handedOut' = handedOut /\ reclaimed' = reclaimed
    BY <1>1
  <2> HIDE DEF status
  <2> QED
    BY <1>3, <1>4, <2>1, StatusNow
<1>6. BaseInv' /\ Followed
  <2>1. \A e \in Epochs : lifecycle'[e] = "Active" => lifecycle[e] = "Active"
    BY <1>3, <1>5
  <2> QED
    BY <1>1, <1>5, <2>1, ClientStep
<1>7. CASE found = {}
  BY <1>1, <1>2, <1>5, <1>6, <1>7
<1>8. CASE found # {}
  <2>1. PICK i : i \in found
    BY <1>8
  <2>2. i \in DOMAIN records /\ records[i].kind = "Commit" /\ records[i].by = by /\ i <= durableLen
    BY <1>2, <2>1 DEF CommitsOf
  <2>3. i \in 1 .. durableLen
    BY <1>4, <2>2 DEF MemoryTypes
  <2> QED
    BY <1>1, <1>5, <1>6, <1>8, <2>2, <2>3
<1> QED
  BY <1>7, <1>8

\* The file follows another, with a commit record of one transaction besides.
FollowsBut(f, g, by) ==
    /\ SoundFile(g)
    /\ AllocatedEpoch(f, Sure(f)) <= AllocatedEpoch(g, Sure(g))
    /\ \A e : CommittedIn(f, e) => CommittedIn(g, e)
    /\ \A e : CommitFrames(g.frames, e) # {} => CommitFrames(f.frames, e) # {} \/ e = by

\* A commit record of one transaction takes nothing from the others that may
\* commit.
LEMMA ActiveStepBut ==
    ASSUME BaseInv, NEW by \in Epochs, FollowsBut(selected, selected', by),
           lifecycle'[by] # "Active",
           \A e \in Epochs : lifecycle'[e] = "Active" => lifecycle[e] = "Active"
    PROVE  ActiveInv'
<1>1. ActiveInv /\ SoundFile(selected)
  BY BaseParts DEF FilesFine
<1>2. ASSUME NEW e \in Epochs, lifecycle'[e] = "Active"
      PROVE  /\ CommitFrames(selected'.frames, e) = {}
             /\ e <= AllocatedEpoch(selected', Sure(selected'))
  <2>1. CommitFrames(selected.frames, e) = {} /\ e <= AllocatedEpoch(selected, Sure(selected))
    BY <1>1, <1>2 DEF ActiveInv
  <2>2. /\ AllocatedEpoch(selected, Sure(selected)) \in Nat
        /\ AllocatedEpoch(selected', Sure(selected')) \in Nat
        /\ e \in Nat
    BY <1>1, SureEpoch DEF Epochs, FollowsBut
  <2>3. e # by
    BY <1>2
  <2>4. CommitFrames(selected'.frames, e) = {}
    BY <2>1, <2>3 DEF FollowsBut
  <2>5. AllocatedEpoch(selected, Sure(selected)) <= AllocatedEpoch(selected', Sure(selected'))
    BY DEF FollowsBut
  <2> QED
    BY <2>1, <2>2, <2>4, <2>5
<1> QED
  BY <1>2 DEF ActiveInv

\* What the record of a commit, written and then kept, makes of the file.
LEMMA AddedKept ==
    ASSUME NEW f, NEW r, NEW w, NEW g, Appendable(f), RecordAdded(f, r, w), Keeps(w, g)
    PROVE  FollowsBut(f, g, r.by)
<1>1. /\ SoundFile(g) /\ AllocatedEpoch(w, Sure(w)) <= AllocatedEpoch(g, Sure(g))
      /\ AllocatedEpoch(w, Sure(w)) = AllocatedEpoch(f, Sure(f))
  BY DEF Keeps, RecordAdded
<1>2. \A e : CommittedIn(f, e) => CommittedIn(g, e)
  BY DEF Keeps, RecordAdded
<1>3. \A e : CommitFrames(g.frames, e) # {} => CommitFrames(f.frames, e) # {} \/ e = r.by
  BY DEF Keeps, RecordAdded
<1> QED
  BY <1>1, <1>2, <1>3 DEF FollowsBut

\* A file that may be appended to keeps itself.
LEMMA KeepsItself ==
    ASSUME NEW f, Appendable(f)
    PROVE  Keeps(f, f)
<1>1. /\ f \in Files /\ f.frames \in Seq(Frames) /\ Readable(f) = f.frames /\ Sound(f, f.frames)
      /\ SoundFile(f) /\ Sure(f) \in Seq(Frames) /\ Sound(f, Sure(f))
      /\ Alike(Sure(f), f.frames, Len(Sure(f)))
  BY AppendableReads DEF Appendable
<1>2. /\ DurableLen(f, Sure(f)) \in 0 .. Len(Records(Sure(f)))
      /\ Len(Records(Sure(f))) <= Len(Records(f.frames))
      /\ Len(Records(Sure(f))) \in Nat /\ Len(Records(f.frames)) \in Nat
      /\ AllocatedEpoch(f, Sure(f)) \in Nat
  BY <1>1, CommittedRecord, PrefixNumbers, RecordsRead, SureEpoch
<1> QED
  BY <1>1, <1>2 DEF Keeps

\* A commit record that is flushed is in the file for good.
LEMMA CommitFlushed ==
    ASSUME NEW f, Appendable(f), NEW r, NextRecord(f, r), NEW w, RecordAdded(f, r, w),
           NEW g, FlushDone(w, Len(Records(w.frames)), g), r.kind = "Commit"
    PROVE  CommittedIn(g, r.by)
<1>1. /\ Records(g.frames) = Append(Records(f.frames), r) /\ Sure(g) = g.frames
      /\ DurableLen(g, g.frames) = Len(Append(Records(f.frames), r))
      /\ SoundFile(g)
  BY DEF FlushDone, RecordAdded, Appendable
<1>2. Records(f.frames) \in Seq(LogRecords)
  BY AppendableReads, RecordsRead
<1> DEFINE n == Len(Records(f.frames)) + 1
<1>3. n \in 1 .. DurableLen(g, Sure(g)) /\ Records(Sure(g))[n] = r
  BY <1>1, <1>2 DEF NextRecord
<1> HIDE DEF n
<1> QED
  BY <1>1, <1>3, CommittedRecord

\* The file holds one record more, and it is as durable as before or wholly.
Adds(f, g) ==
    /\ \E r \in LogRecords : Records(Readable(g)) = Append(Records(f.frames), r)
    /\ DurableLen(g, Sure(g)) \in {DurableLen(f, Sure(f)), Len(Records(f.frames)) + 1}

\* A record that is written, and then flushed or not, is one more in the file.
LEMMA AddedAdds ==
    ASSUME NEW f, Appendable(f), NEW r, NextRecord(f, r), NEW w, RecordAdded(f, r, w)
    PROVE  /\ Adds(f, w)
           /\ \A g : FlushDone(w, Len(Records(w.frames)), g) => Adds(f, g)
           /\ \A h : FlushFailed(w, h) /\ VolatileUnsynced(f) => Adds(f, h)
<1>1. /\ r \in LogRecords /\ Records(w.frames) = Append(Records(f.frames), r)
      /\ DurableLen(w, Sure(w)) = DurableLen(f, Sure(f))
      /\ DurableLen(w, w.frames) = DurableLen(f, f.frames) /\ Appendable(w)
  BY DEF NextRecord, RecordAdded
<1>2. Readable(w) = w.frames /\ Records(f.frames) \in Seq(LogRecords)
  BY <1>1, AppendableReads, RecordsRead
<1>3. Len(Records(w.frames)) = Len(Records(f.frames)) + 1
  BY <1>1, <1>2
<1>4. Adds(f, w)
  BY <1>1, <1>2 DEF Adds
<1>5. ASSUME NEW g, FlushDone(w, Len(Records(w.frames)), g)
      PROVE  Adds(f, g)
  <2>1. /\ Appendable(g) /\ Records(g.frames) = Records(w.frames) /\ Sure(g) = g.frames
        /\ DurableLen(g, g.frames) = Len(Records(w.frames))
    BY <1>5 DEF FlushDone
  <2>2. Readable(g) = g.frames
    BY <2>1, AppendableReads
  <2> QED
    BY <1>1, <1>3, <2>1, <2>2 DEF Adds
<1>6. ASSUME NEW h, FlushFailed(w, h), VolatileUnsynced(f)
      PROVE  Adds(f, h)
  <2>1. Records(Readable(h)) = Records(w.frames) /\ DurableLen(h, Sure(h)) = DurableLen(w, w.frames)
    BY <1>6 DEF FlushFailed
  <2>2. DurableLen(f, Sure(f)) = DurableLen(f, f.frames)
    BY <1>6, VolatileSure
  <2> QED
    BY <1>1, <2>1, <2>2 DEF Adds
<1> QED
  BY <1>4, <1>5, <1>6

\* A commit whose record is written.
CommitOutcome(by) ==
    /\ BaseInv' /\ FollowsBut(selected, selected', by)
    /\ UNCHANGED <<former, handedOut, reclaimed>>
    /\ \A e \in Epochs : e # by => lifecycle'[e] = lifecycle[e]
    /\ \/ lifecycle'[by] = "Indeterminate"
       \/ lifecycle'[by] = "Committed" /\ CommittedIn(selected', by) /\ Usable

\* A commit whose record is written, however its flush ends.
LEMMA CommitAppendsStep ==
    ASSUME BaseInv, NEW by \in Epochs, lifecycle[by] = "Active", CommitAppends(by),
           UNCHANGED <<former, candidate, opened, handedOut, reclaimed>>
    PROVE  CommitOutcome(by) /\ Usable /\ Adds(selected, selected')
<1> DEFINE r == CommitRecord(by)
           w == Extended(selected, FramesOf(r))
           content == Append(records, r)
<1>1. /\ Usable /\ records' = content /\ nextPosition' = nextPosition + 1
      /\ \/ Flushed(w, content, Len(content)) /\ Now(by, "Committed")
         \/ MarkerInterrupted(w, content, Len(content)) /\ Now(by, "Indeterminate")
         \/ /\ selected' = w
            /\ Now(by, "Indeterminate")
            /\ UNCHANGED <<durableLen, nextEpoch, generation, reclaimedHighWater, poisoned>>
  BY DEF CommitAppends
<1>2. /\ Appendable(selected) /\ VolatileUnsynced(selected) /\ MemoryKnows /\ MemoryTypes
      /\ ClientTypes /\ opened = TRUE /\ poisoned = FALSE /\ candidate \in BOOLEAN
      /\ \A file \in former : SoundFile(file) /\ ~Lost(file)
  BY <1>1, Ready
<1>3. NextRecord(selected, r) /\ r.kind = "Commit" /\ r.by = by
  <2>1. by \in Nat /\ by # 0
    BY DEF Epochs
  <2> QED
    BY <1>1, <2>1, NextRecordIs DEF CommitRecord
<1> HIDE DEF r
<1>4. RecordAdded(selected, r, w)
  BY <1>2, <1>3, RecordWritten
<1>5. /\ records = Records(selected.frames) /\ Records(w.frames) = content /\ Appendable(w)
      /\ SameHeader(selected, w)
      /\ content \in Seq(LogRecords) /\ Len(content) = Len(records) + 1 /\ Len(records) \in Nat
      /\ Len(content) \in 1 .. Len(content) /\ Len(Records(w.frames)) = Len(content)
  BY <1>2, <1>3, <1>4 DEF MemoryKnows, RecordAdded, MemoryTypes, NextRecord
<1>6. Len(content) > DurableLen(w, w.frames)
  <2>1. /\ selected \in Files /\ selected.frames \in Seq(Frames) /\ Sound(selected, selected.frames)
    BY <1>2, AppendableReads
  <2>2. /\ DurableLen(selected, selected.frames) \in 0 .. Cardinality(Ends(selected.frames))
        /\ Len(Records(selected.frames)) = Cardinality(Ends(selected.frames))
    BY <2>1, DurableCount, RecordsRead
  <2>3. DurableLen(w, w.frames) = DurableLen(selected, selected.frames)
    BY <1>4 DEF RecordAdded
  <2> QED
    BY <1>5, <2>2, <2>3
<1> DEFINE p == content[Len(content)].at
<1>7. /\ FlushDone(w, Len(Records(w.frames)), Synced(Extended(Synced(w), <<Marker(p)>>)))
      /\ \A h \in Interrupted(Synced(w), <<Marker(p)>>) : FlushFailed(w, h)
      /\ FlushFailed(w, Extended(Synced(w), <<Marker(p)>>))
  <2>1. Len(content) \in 1 .. Len(Records(w.frames)) /\ p = Records(w.frames)[Len(content)].at
    BY <1>5
  <2> HIDE DEF w, content, p
  <2>2. /\ FlushDone(w, Len(content), Synced(Extended(Synced(w), <<Marker(p)>>)))
        /\ \A h \in Interrupted(Synced(w), <<Marker(p)>>) : FlushFailed(w, h)
        /\ FlushFailed(w, Extended(Synced(w), <<Marker(p)>>))
    BY <1>5, <1>6, <2>1, FlushedFile
  <2> QED
    BY <1>5, <2>2
<1>8. ASSUME NEW status \in {"Committed", "Indeterminate"}, Now(by, status)
      PROVE  /\ ClientTypes'
             /\ \A e \in Epochs : lifecycle'[e] = IF e = by THEN status ELSE lifecycle[e]
  <2>1. status \in Lifecycles
    BY DEF Lifecycles, Undecided
  <2> QED
    BY <1>2, <1>8, <2>1, StatusNow
<1>12. /\ Adds(selected, w)
       /\ \A g : FlushDone(w, Len(Records(w.frames)), g) => Adds(selected, g)
       /\ \A h : FlushFailed(w, h) => Adds(selected, h)
  <2> HIDE DEF w
  <2> QED
    BY <1>2, <1>3, <1>4, AddedAdds
<1> HIDE DEF w, content, p
<1>9. CASE Flushed(w, content, Len(content)) /\ Now(by, "Committed")
  <2>1. /\ selected' = Synced(Extended(Synced(w), <<Marker(p)>>))
        /\ durableLen' = Len(content)
        /\ UNCHANGED <<nextEpoch, generation, reclaimedHighWater, poisoned>>
    BY <1>9 DEF Flushed, MarkerSynced, RecordsSynced, p
  <2>2. FlushDone(w, Len(Records(w.frames)), selected')
    BY <1>7, <2>1
  <2>3. MemoryKnows'
    BY <1>1, <1>2, <1>4, <1>5, <2>1, <2>2 DEF MemoryKnows, FlushDone, RecordAdded, SameHeader
  <2>4. CommittedIn(selected', by)
    BY <1>2, <1>3, <1>4, <2>2, CommitFlushed
  <2>5. FollowsBut(selected, selected', by)
    BY <1>2, <1>3, <1>4, <2>2, AddedKept DEF FlushDone
  <2>6. /\ ClientTypes' /\ \A e \in Epochs : lifecycle'[e] = IF e = by THEN "Committed" ELSE lifecycle[e]
    BY <1>8, <1>9
  <2>7. ActiveInv'
    BY <2>5, <2>6, ActiveStepBut
  <2>8. BaseInv'
    <3>1. Appendable(selected') /\ VolatileUnsynced(selected')
      BY <2>2 DEF FlushDone
    <3> QED
      BY <1>1, <1>2, <2>1, <2>3, <2>6, <2>7, <3>1, StaysUsable
  <2> QED
    BY <1>1, <1>12, <2>2, <2>4, <2>5, <2>6, <2>8 DEF CommitOutcome
<1>10. CASE MarkerInterrupted(w, content, Len(content)) /\ Now(by, "Indeterminate")
  <2>1. /\ selected' \in Interrupted(Synced(w), <<Marker(p)>>)
                        \cup {Extended(Synced(w), <<Marker(p)>>)}
        /\ poisoned' = TRUE /\ UNCHANGED <<durableLen, nextEpoch, generation, reclaimedHighWater>>
    BY <1>10 DEF MarkerInterrupted, RecordsSynced, p
  <2>8. FlushFailed(w, selected')
    BY <1>7, <2>1
  <2>2. Keeps(w, selected') /\ ~Lost(selected')
    BY <2>8 DEF FlushFailed
  <2>3. FollowsBut(selected, selected', by)
    BY <1>2, <1>3, <1>4, <2>2, AddedKept
  <2>4. /\ ClientTypes'
        /\ \A e \in Epochs : lifecycle'[e] = IF e = by THEN "Indeterminate" ELSE lifecycle[e]
    BY <1>8, <1>10
  <2>5. ActiveInv'
    BY <2>3, <2>4, ActiveStepBut
  <2>6. MemoryTypes'
    BY <1>1, <1>2, <1>5, <2>1 DEF MemoryTypes
  <2>7. BaseInv'
    <3>1. SoundFile(selected')
      BY <2>3 DEF FollowsBut
    <3> QED
      BY <1>2, <2>1, <2>2, <2>4, <2>5, <2>6, <3>1, BecomesPoisoned
  <2> QED
    BY <1>1, <1>12, <2>3, <2>4, <2>7, <2>8 DEF CommitOutcome
<1>11. CASE /\ selected' = w
            /\ Now(by, "Indeterminate")
            /\ UNCHANGED <<durableLen, nextEpoch, generation, reclaimedHighWater, poisoned>>
  <2>1. MemoryKnows' /\ VolatileUnsynced(selected')
    BY <1>1, <1>2, <1>4, <1>5, <1>11 DEF MemoryKnows, RecordAdded, SameHeader
  <2>2. FollowsBut(selected, selected', by)
    BY <1>2, <1>3, <1>4, <1>5, <1>11, KeepsItself, AddedKept
  <2>3. /\ ClientTypes'
        /\ \A e \in Epochs : lifecycle'[e] = IF e = by THEN "Indeterminate" ELSE lifecycle[e]
    BY <1>8, <1>11
  <2>4. ActiveInv'
    BY <2>2, <2>3, ActiveStepBut
  <2>5. BaseInv'
    BY <1>1, <1>2, <1>5, <1>11, <2>1, <2>3, <2>4, StaysUsable
  <2> QED
    BY <1>1, <1>11, <1>12, <2>2, <2>3, <2>5 DEF CommitOutcome
<1> QED
  BY <1>1, <1>9, <1>10, <1>11

\* An append that fails takes nothing from the file.
LEMMA FailedFollows ==
    ASSUME BaseInv, NEW r, Usable => NextRecord(selected, r), AppendFailed(r)
    PROVE  /\ SoundFile(selected') /\ Follows(selected, selected')
           /\ (Usable /\ Keeps(selected, selected')) \/ selected' = selected
<1>1. CASE AppendInterrupted(r)
  <2>1. Usable /\ selected' \in Interrupted(selected, FramesOf(r))
    BY <1>1 DEF AppendInterrupted, Poison
  <2>2. Keeps(selected, selected')
    BY <2>1, Ready, RecordInterrupted
  <2> QED
    BY <2>1, <2>2, KeepsFollows
<1>2. CASE AppendRefused
  <2>1. SoundFile(selected) /\ selected' = selected
    BY <1>2, BaseParts DEF AppendRefused, FilesFine
  <2> QED
    BY <2>1, FollowsItself
<1> QED
  BY <1>1, <1>2 DEF AppendFailed

\* A commit that fails to append.
LEMMA CommitStep ==
    ASSUME BaseInv, NEW by \in Epochs, Commit(by)
    PROVE  /\ CommitOutcome(by) /\ lifecycle[by] = "Active"
           /\ \/ Usable /\ (Adds(selected, selected') \/ Keeps(selected, selected'))
              \/ selected' = selected
<1> DEFINE r == CommitRecord(by)
<1>1. /\ lifecycle[by] = "Active"
      /\ \/ CommitAppends(by)
         \/ AppendFailed(r) /\ Now(by, "Indeterminate")
      /\ UNCHANGED <<former, candidate, opened, handedOut, reclaimed>>
  BY DEF Commit
<1>2. Usable => NextRecord(selected, r)
  <2>1. by \in Nat /\ by # 0
    BY DEF Epochs
  <2> QED
    BY <1>1, <2>1, NextRecordIs DEF CommitRecord
<1> HIDE DEF r
<1>3. CASE CommitAppends(by)
  BY <1>1, <1>3, CommitAppendsStep
<1>4. CASE AppendFailed(r) /\ Now(by, "Indeterminate")
  <2>1. ClientTypes /\ "Indeterminate" \in Lifecycles
    BY BaseParts DEF Lifecycles, Undecided
  <2>2. /\ ClientTypes'
        /\ \A e \in Epochs : lifecycle'[e] = IF e = by THEN "Indeterminate" ELSE lifecycle[e]
    BY <1>1, <1>4, <2>1, StatusNow
  <2>3. BaseInv' /\ Followed
    BY <1>1, <1>2, <1>4, <2>2, AppendFails
  <2>4. /\ FollowsBut(selected, selected', by)
        /\ (Usable /\ Keeps(selected, selected')) \/ selected' = selected
    BY <1>2, <1>4, FailedFollows DEF Follows, FollowsBut
  <2> QED
    BY <1>1, <2>2, <2>3, <2>4 DEF CommitOutcome
<1> QED
  BY <1>1, <1>3, <1>4

\* What a reclamation leaves of a file.
Replaces(f, r) ==
    /\ SoundFile(r) /\ ~Lost(r)
    /\ AllocatedEpoch(f, Sure(f)) <= AllocatedEpoch(r, Sure(r))
    /\ \A by : CommitFrames(r.frames, by) # {} => CommitFrames(f.frames, by) # {}

\* A replacement takes nothing from the transactions that may commit.
LEMMA ReplacesActive ==
    ASSUME BaseInv, Replaces(selected, selected'), lifecycle' = lifecycle
    PROVE  ActiveInv'
<1>1. ActiveInv /\ SoundFile(selected)
  BY BaseParts DEF FilesFine
<1>2. ASSUME NEW e \in Epochs, lifecycle'[e] = "Active"
      PROVE  /\ CommitFrames(selected'.frames, e) = {}
             /\ e <= AllocatedEpoch(selected', Sure(selected'))
  <2>1. CommitFrames(selected.frames, e) = {} /\ e <= AllocatedEpoch(selected, Sure(selected))
    BY <1>1, <1>2 DEF ActiveInv
  <2>2. /\ AllocatedEpoch(selected, Sure(selected)) \in Nat
        /\ AllocatedEpoch(selected', Sure(selected')) \in Nat
        /\ e \in Nat
    BY <1>1, SureEpoch DEF Epochs, Replaces
  <2>3. CommitFrames(selected'.frames, e) = {}
    BY <2>1 DEF Replaces
  <2>4. AllocatedEpoch(selected, Sure(selected)) <= AllocatedEpoch(selected', Sure(selected'))
    BY DEF Replaces
  <2> QED
    BY <2>1, <2>2, <2>3, <2>4
<1> QED
  BY <1>2 DEF ActiveInv

\* The epochs whose commits go with the records below an index.
Gone(start) == {records[j].by : j \in {i \in 1 .. start - 1 : records[i].kind = "Commit"}}

\* What a reclamation that keeps the records from an index on finds and makes.
Reclaimable(start, r) ==
    /\ Appendable(r) /\ Sure(r) = r.frames /\ r.synced = Len(r.frames) /\ VolatileUnsynced(r)
    /\ r.generation = generation + 1 /\ r.highWater = DurablePosition
    /\ Records(r.frames) = Retained(start)
    /\ Retained(start) \in Seq(LogRecords)
    /\ Len(Retained(start)) = durableLen - start + 1
    /\ LastCompleted(r, r.frames) = DurablePosition
    /\ DurableLen(r, r.frames) = Len(Retained(start))
    /\ AllocatedEpoch(r, r.frames) + 1 = nextEpoch
    /\ Len(records) = durableLen /\ DurableLen(selected, Sure(selected)) = durableLen
    /\ Records(Readable(selected)) = records
    /\ \A n \in 1 .. Len(Retained(start)) :
         start - 1 + n \in 1 .. Len(records) /\ Retained(start)[n] = records[start - 1 + n]
    /\ Replaces(selected, r)
    /\ \A by : CommittedIn(selected, by) => CommittedIn(r, by) \/ by \in Gone(start)
    /\ \A by \in Gone(start) : CommitFrames(selected.frames, by) # {}

\* The replacement file of reclaim_restart_wal_prefix, from a log without a
\* volatile suffix.
LEMMA ReclaimFile ==
    ASSUME BaseInv, Usable, WithoutVolatileSuffix, NEW start \in 1 .. durableLen + 1
    PROVE  Reclaimable(start, Replacement(start))
<1> DEFINE f == selected
           kept == Retained(start)
           d == DurablePosition
           r == Replacement(start)
           g == generation + 1
<1>1. /\ Appendable(f) /\ VolatileUnsynced(f) /\ MemoryKnows /\ MemoryTypes /\ SoundFile(f)
  BY Ready
<1>2. /\ records = Records(f.frames) /\ durableLen = DurableLen(f, f.frames)
      /\ nextEpoch = AllocatedEpoch(f, f.frames) + 1
      /\ nextPosition = LastCompleted(f, f.frames) + 1
      /\ generation = f.generation /\ reclaimedHighWater = f.highWater
      /\ Len(records) = durableLen /\ durableLen \in Nat /\ generation \in Nat
      /\ records \in Seq(LogRecords)
  BY <1>1 DEF MemoryKnows, WithoutVolatileSuffix, MemoryTypes
<1>3. /\ f \in Files /\ f.frames \in Seq(Frames) /\ Readable(f) = f.frames
      /\ AllocatedEpoch(f, f.frames) \in Nat
  BY <1>1, AppendableReads, FrameNumbers
<1>4. AllDurable(f)
  BY <1>2 DEF AllDurable
<1>5. Keeping(f, start, kept)
  BY <1>2 DEF Keeping, Retained
<1>6. d = LastCompleted(f, f.frames)
  <2>1. CASE durableLen > 0
    BY <1>1, <1>2, <1>4, <2>1, DurableEnd DEF DurablePosition
  <2>2. CASE ~(durableLen > 0)
    <3>1. durableLen = 0
      BY <1>2, <2>2
    <3> QED
      BY <1>1, <1>2, <1>4, <2>2, <3>1, DurableEnd DEF DurablePosition
  <2> QED
    BY <2>1, <2>2
<1>7. r = ReplacementOf(f, kept, d, g)
  <2>1. nextEpoch - 1 = AllocatedEpoch(f, f.frames)
    BY <1>2, <1>3
  <2> QED
    BY <2>1 DEF Replacement, ReplacementOf
<1>8. IsReplacement(f, kept, d, g, r)
  BY <1>2, <1>6, <1>7 DEF IsReplacement
<1>20. f = selected /\ g = generation + 1
  OBVIOUS
<1> HIDE DEF f, kept, d, r, g
<1>9. /\ Appendable(r) /\ Sure(r) = r.frames /\ r.synced = Len(r.frames)
      /\ r.generation = g /\ r.highWater = d /\ d \in Nat
      /\ Records(r.frames) = kept
      /\ Len(kept) = Len(Records(f.frames)) - start + 1
      /\ LastCompleted(r, r.frames) = d
      /\ DurableLen(r, r.frames) = Len(kept)
      /\ AllocatedEpoch(r, r.frames) = AllocatedEpoch(f, f.frames)
      /\ \A n \in 1 .. Len(kept) :
           start - 1 + n \in 1 .. Len(Records(f.frames))
           /\ kept[n] = Records(f.frames)[start - 1 + n]
      /\ \A by : CommitFrames(r.frames, by) # {} => CommitFrames(f.frames, by) # {}
  <2>1. Appendable(f)
    BY <1>1
  <2>2. Kept(f, start, kept, d, g, r)
    BY <2>1, <1>4, <1>5, <1>8, ReplacementFile
  <2> QED
    BY <2>2 DEF Kept
<1>10. VolatileUnsynced(r)
  BY <1>9, AppendableReads, SyncedWhole
<1>11. kept \in Seq(LogRecords)
  <2>1. r \in Files /\ r.frames \in Seq(Frames) /\ Sound(r, r.frames)
    BY <1>9, AppendableReads
  <2> QED
    BY <1>9, <2>1, RecordsRead
<1>12. /\ DurableLen(f, Sure(f)) = durableLen
       /\ AllocatedEpoch(f, Sure(f)) = AllocatedEpoch(f, f.frames)
  BY <1>1, <1>2, VolatileSure
<1>13. Replaces(f, r)
  BY <1>3, <1>9, <1>12 DEF Replaces, Appendable
<1>14. ASSUME NEW by, CommittedIn(f, by)
       PROVE  CommittedIn(r, by) \/ by \in Gone(start)
  <2>1. PICK n \in 1 .. durableLen : Records(Sure(f))[n].kind = "Commit" /\ Records(Sure(f))[n].by = by
    BY <1>1, <1>12, <1>14, CommittedRecord
  <2>2. records[n].kind = "Commit" /\ records[n].by = by
    <3>1. /\ Sure(f) \in Seq(Frames) /\ Sound(f, f.frames) /\ Alike(Sure(f), f.frames, Len(Sure(f)))
      BY <1>1, AppendableReads
    <3>2. \A m \in 1 .. Len(Records(Sure(f))) : Records(Sure(f))[m] = Records(f.frames)[m]
      BY <1>3, <3>1, PrefixNumbers
    <3>3. n \in 1 .. Len(Records(Sure(f)))
      <4>1. durableLen \in 0 .. Len(Records(Sure(f))) /\ Len(Records(Sure(f))) \in Nat
        BY <1>1, <1>12, CommittedRecord
      <4> QED
        BY <4>1
    <3> QED
      BY <1>2, <2>1, <3>2, <3>3
  <2>3. CASE n < start
    <3>1. n \in {i \in 1 .. start - 1 : records[i].kind = "Commit"}
      BY <1>2, <2>2, <2>3
    <3> QED
      BY <2>2, <3>1 DEF Gone
  <2>4. CASE n >= start
    <3> DEFINE m == n - start + 1
    <3>1. m \in 1 .. Len(kept) /\ start - 1 + m = n
      BY <1>2, <1>9, <2>4
    <3>2. kept[m] = records[n]
      BY <1>2, <1>9, <3>1
    <3>3. m \in 1 .. DurableLen(r, Sure(r)) /\ Records(Sure(r))[m] = records[n]
      BY <1>9, <3>1, <3>2
    <3> HIDE DEF m
    <3>4. SoundFile(r)
      BY <1>9 DEF Appendable
    <3> QED
      BY <2>2, <3>3, <3>4, CommittedRecord
  <2> QED
    BY <1>2, <2>3, <2>4
<1>15. ASSUME NEW by \in Gone(start)
       PROVE  CommitFrames(f.frames, by) # {}
  <2>1. PICK i \in 1 .. start - 1 : records[i].kind = "Commit" /\ records[i].by = by
    BY DEF Gone
  <2>2. i \in 1 .. Len(Records(f.frames))
    BY <1>2
  <2>3. Sound(f, f.frames)
    BY <1>1, AppendableReads
  <2> QED
    BY <1>2, <1>3, <2>1, <2>2, <2>3, CommitRecords
<1>16. /\ Records(r.frames) = Retained(start) /\ Retained(start) = kept /\ DurablePosition = d
       /\ Replacement(start) = r
  BY <1>9 DEF kept, d, r
<1>17. /\ \A n \in 1 .. Len(kept) : start - 1 + n \in 1 .. Len(records) /\ kept[n] = records[start - 1 + n]
       /\ Len(kept) = durableLen - start + 1
       /\ AllocatedEpoch(r, r.frames) + 1 = nextEpoch
       /\ Records(Readable(f)) = records
  BY <1>2, <1>3, <1>9
<1>18. \A by : CommittedIn(f, by) => CommittedIn(r, by) \/ by \in Gone(start)
  BY <1>14
<1>19. \A by \in Gone(start) : CommitFrames(f.frames, by) # {}
  BY <1>15
<1> QED
  BY <1>2, <1>9, <1>10, <1>11, <1>12, <1>13, <1>16, <1>17, <1>18, <1>19, <1>20 DEF Reclaimable

\* The files that are named follow files that were, but for what was reclaimed.
FollowedBut ==
    \A file \in Named' :
        /\ SoundFile(file)
        /\ \E old \in Named :
             /\ SoundFile(old) /\ AllocatedEpoch(old, Sure(old)) <= AllocatedEpoch(file, Sure(file))
             /\ \A by : CommittedIn(old, by) => CommittedIn(file, by) \/ by \in reclaimed'
             /\ \A by : CommitFrames(file.frames, by) # {} => CommitFrames(old.frames, by) # {}

\* The files after a replacement are those before it, and the replacement.
LEMMA SelectedReplaced ==
    ASSUME BaseInv, former' \subseteq former \cup {selected},
           Replaces(selected, selected'),
           \A by : CommittedIn(selected, by) => CommittedIn(selected', by) \/ by \in reclaimed'
    PROVE  FollowedBut
<1>1. \A file \in Named : SoundFile(file)
  BY BaseParts DEF FilesFine, Named
<1>2. ASSUME NEW file \in Named'
      PROVE  /\ SoundFile(file)
             /\ \E old \in Named :
                  /\ SoundFile(old)
                  /\ AllocatedEpoch(old, Sure(old)) <= AllocatedEpoch(file, Sure(file))
                  /\ \A by : CommittedIn(old, by) => CommittedIn(file, by) \/ by \in reclaimed'
                  /\ \A by : CommitFrames(file.frames, by) # {} => CommitFrames(old.frames, by) # {}
  <2>1. CASE file = selected'
    <3>1. selected \in Named /\ SoundFile(selected)
      BY <1>1 DEF Named
    <3> QED
      BY <2>1, <3>1 DEF Replaces
  <2>2. CASE file \in former'
    <3>1. file \in Named
      BY <2>2 DEF Named
    <3>2. SoundFile(file) /\ Follows(file, file)
      BY <1>1, <3>1, FollowsItself
    <3> QED
      BY <3>1, <3>2 DEF Follows
  <2> QED
    BY <2>1, <2>2 DEF Named
<1> QED
  BY <1>2 DEF FollowedBut

\* What a reclamation comes to.
ReclaimOutcome(start) ==
    /\ BaseInv' /\ FollowedBut /\ Usable /\ Reclaimable(start, Replacement(start))
    /\ UNCHANGED <<lifecycle, handedOut>>
    /\ \/ selected' = selected /\ former' \subseteq former /\ reclaimed' = reclaimed
       \/ /\ selected' = Replacement(start) /\ former' \subseteq former \cup {selected}
          /\ reclaimed' = reclaimed \cup Gone(start)

\* reclaim_restart_wal_prefix keeps the invariant, wherever it stops.
LEMMA ReclaimStep ==
    ASSUME BaseInv, NEW start \in 1 .. durableLen + 1, Reclaim(start)
    PROVE  ReclaimOutcome(start)
<1> DEFINE r == Replacement(start)
<1>1. /\ Usable /\ WithoutVolatileSuffix
      /\ ReclaimStops \/ ReclaimRenames(start) \/ ReclaimSucceeds(start)
      /\ UNCHANGED <<opened, lifecycle, handedOut>>
  BY DEF Reclaim
<1>2. /\ MemoryTypes /\ ClientTypes /\ opened = TRUE /\ candidate \in BOOLEAN
      /\ \A file \in former : SoundFile(file) /\ ~Lost(file)
      /\ SoundFile(selected) /\ ~Lost(selected) /\ MemoryKnows
  BY <1>1, Ready
<1>3. Reclaimable(start, r)
  BY <1>1, ReclaimFile
<1>4. FormerAfterCleanup \subseteq former
  BY DEF FormerAfterCleanup
<1>5. Gone(start) \subseteq Nat
  <2>1. ASSUME NEW i \in 1 .. start - 1
        PROVE  records[i].by \in Nat
    <3>1. i \in 1 .. Len(records)
      BY <1>2, <1>3 DEF Reclaimable, MemoryTypes
    <3> QED
      BY <1>2, <3>1, FramesInType DEF MemoryTypes
  <2> QED
    BY <2>1 DEF Gone
<1> HIDE DEF r
<1>6. CASE ReclaimStops
  <2>1. /\ selected' = selected /\ poisoned' = TRUE /\ UNCHANGED memory
        /\ candidate' \in BOOLEAN /\ former' \subseteq former /\ reclaimed' = reclaimed
    BY <1>4, <1>6 DEF ReclaimStops, Poison
  <2>2. MemoryTypes' /\ ClientTypes'
    BY <1>1, <1>2, <2>1 DEF MemoryTypes, memory, ClientTypes
  <2>3. Replaces(selected, selected')
    <3>1. AllocatedEpoch(selected, Sure(selected)) \in Nat
      BY <1>2, SureEpoch
    <3> QED
      BY <1>2, <2>1, <3>1 DEF Replaces
  <2>4. ActiveInv'
    BY <1>1, <2>3, ReplacesActive
  <2>5. BaseInv'
    BY <1>1, <1>2, <2>1, <2>2, <2>4, BecomesPoisoned
  <2>6. FollowedBut
    BY <2>1, <2>3, SelectedReplaced
  <2> QED
    BY <1>1, <1>3, <2>1, <2>5, <2>6 DEF ReclaimOutcome, r
<1>7. ASSUME selected' = r, former' \subseteq former \cup {selected}, Removes(start)
      PROVE  /\ reclaimed' = reclaimed \cup Gone(start) /\ ClientTypes' /\ ActiveInv' /\ FollowedBut
             /\ SoundFile(selected') /\ ~Lost(selected')
  <2>1. reclaimed' = reclaimed \cup Gone(start)
    BY <1>7 DEF Removes, Gone
  <2>2. Replaces(selected, selected')
    BY <1>3, <1>7 DEF Reclaimable
  <2>3. \A by : CommittedIn(selected, by) => CommittedIn(selected', by) \/ by \in reclaimed'
    BY <1>3, <1>7, <2>1 DEF Reclaimable
  <2>4. ClientTypes'
    BY <1>1, <1>2, <1>5, <2>1 DEF ClientTypes
  <2> QED
    BY <1>1, <1>7, <2>1, <2>2, <2>3, <2>4, ReplacesActive, SelectedReplaced DEF Replaces
<1>8. CASE ReclaimRenames(start)
  <2>1. /\ selected' = r /\ poisoned' = TRUE /\ UNCHANGED memory /\ candidate' = FALSE
        /\ former' \subseteq former \cup {selected} /\ Removes(start)
    BY <1>4, <1>8 DEF ReclaimRenames, Poison, r
  <2>2. \A file \in former' : SoundFile(file) /\ ~Lost(file)
    BY <1>2, <2>1
  <2>3. MemoryTypes'
    BY <1>2, <2>1 DEF MemoryTypes, memory
  <2>4. /\ reclaimed' = reclaimed \cup Gone(start) /\ ClientTypes' /\ ActiveInv' /\ FollowedBut
        /\ SoundFile(selected') /\ ~Lost(selected')
    BY <1>7, <2>1
  <2>5. BaseInv'
    BY <1>1, <1>2, <2>1, <2>2, <2>3, <2>4, BecomesPoisoned
  <2> QED
    BY <1>1, <1>3, <2>1, <2>4, <2>5 DEF ReclaimOutcome, r
<1>9. CASE ReclaimSucceeds(start)
  <2>1. /\ selected' = r /\ candidate' = FALSE /\ former' = {}
        /\ records' = Retained(start) /\ durableLen' = durableLen - start + 1
        /\ nextPosition' = DurablePosition + 1 /\ generation' = generation + 1
        /\ reclaimedHighWater' = DurablePosition /\ Removes(start)
        /\ nextEpoch' = nextEpoch /\ poisoned' = poisoned
    BY <1>9 DEF ReclaimSucceeds, r
  <2>2. MemoryKnows'
    BY <1>3, <2>1 DEF MemoryKnows, Reclaimable
  <2>3. /\ reclaimed' = reclaimed \cup Gone(start) /\ ClientTypes' /\ ActiveInv' /\ FollowedBut
    BY <1>7, <2>1
  <2>4. Appendable(selected') /\ VolatileUnsynced(selected')
    BY <1>3, <2>1 DEF Reclaimable
  <2>5. BaseInv'
    BY <1>1, <1>2, <2>1, <2>2, <2>3, <2>4, StaysUsable
  <2> QED
    BY <1>1, <1>3, <2>1, <2>3, <2>5 DEF ReclaimOutcome, r
<1> QED
  BY <1>1, <1>6, <1>8, <1>9

\* A step after which the log is closed.
LEMMA StaysClosed ==
    ASSUME opened' = FALSE, poisoned' = FALSE, candidate' \in BOOLEAN,
           FilesFine', MemoryTypes', ClientTypes', ActiveInv'
    PROVE  BaseInv'
<1>1. HealthyInv' /\ ClosedInv'
  BY DEF HealthyInv, ClosedInv, Usable
<1> QED
  BY <1>1, BaseNext

\* What a closed log has.
LEMMA WhenClosed ==
    ASSUME BaseInv, ~opened
    PROVE  /\ opened = FALSE /\ poisoned = FALSE /\ candidate \in BOOLEAN
           /\ FilesFine /\ MemoryTypes /\ ClientTypes /\ ActiveInv /\ SoundFile(selected)
<1>1. /\ FilesFine /\ MemoryTypes /\ ClientTypes
      /\ candidate \in BOOLEAN /\ opened \in BOOLEAN /\ poisoned \in BOOLEAN
      /\ ClosedInv /\ ActiveInv
  BY BaseParts
<1> QED
  BY <1>1 DEF ClosedInv, FilesFine

\* Dropping the adapter changes no file.
LEMMA DropStep ==
    ASSUME BaseInv, Drop
    PROVE  BaseInv' /\ Followed
<1>1. /\ opened /\ opened' = FALSE /\ records' = <<>> /\ durableLen' = 0 /\ nextEpoch' = 0
      /\ nextPosition' = 0 /\ generation' = 0 /\ reclaimedHighWater' = 0 /\ poisoned' = FALSE
      /\ selected' = selected /\ former' = former /\ candidate' = candidate
      /\ lifecycle' = lifecycle /\ handedOut' = handedOut /\ reclaimed' = reclaimed
  BY DEF Drop, client
<1>2. /\ FilesFine /\ ClientTypes /\ candidate \in BOOLEAN /\ ActiveInv
  BY BaseParts
<1>3. FilesFine' /\ MemoryTypes' /\ ClientTypes' /\ ActiveInv'
  BY <1>1, <1>2 DEF FilesFine, MemoryTypes, ClientTypes, ActiveInv
<1>4. SoundFile(selected') /\ Follows(selected, selected')
  <2>1. SoundFile(selected)
    BY <1>2 DEF FilesFine
  <2> QED
    BY <1>1, <2>1, FollowsItself
<1> QED
  BY <1>1, <1>2, <1>3, <1>4, StaysClosed, FollowedSelected

\* A power loss leaves what was permanent in one of the files that the path may
\* name.
LEMMA PowerLossStep ==
    ASSUME BaseInv, PowerLoss
    PROVE  /\ BaseInv' /\ Followed
           /\ \A by \in Epochs :
                lifecycle'[by] = lifecycle[by]
                \/ (lifecycle[by] \in Undecided /\ lifecycle'[by] = "Forgotten")
<1>1. PICK file \in {selected} \cup former : selected' \in AfterPowerLoss(file)
  BY DEF PowerLoss
<1>2. /\ ~opened /\ former' = {} /\ candidate' \in BOOLEAN
      /\ lifecycle' = [by \in Epochs |->
                         IF lifecycle[by] \in Undecided THEN "Forgotten" ELSE lifecycle[by]]
      /\ UNCHANGED <<opened, memory, poisoned, handedOut, reclaimed>>
  BY DEF PowerLoss
<1>3. /\ opened = FALSE /\ poisoned = FALSE /\ FilesFine /\ MemoryTypes /\ ClientTypes
  BY <1>2, WhenClosed
<1>4. SoundFile(file) /\ file \in Named
  BY <1>3 DEF FilesFine, Named
<1>5. Keeps(file, selected') /\ selected'.synced = Len(selected'.frames)
  BY <1>1, <1>4, PowerLossKeeps
<1>6. SoundFile(selected') /\ Follows(file, selected')
  BY <1>5, KeepsFollows
<1>7. Followed
  BY <1>2, <1>4, <1>6 DEF Followed, Named
<1>8. ClientTypes'
  <2>1. \A by \in Epochs : lifecycle'[by] \in Lifecycles
    BY <1>2, <1>3 DEF ClientTypes, Lifecycles
  <2> QED
    BY <1>2, <1>3, <2>1 DEF ClientTypes
<1>9. ActiveInv'
  <2>1. \A by \in Epochs : lifecycle'[by] # "Active"
    BY <1>2 DEF Undecided
  <2> QED
    BY <2>1 DEF ActiveInv
<1>10. FilesFine' /\ MemoryTypes' /\ opened' = FALSE /\ poisoned' = FALSE
  BY <1>2, <1>3, <1>5, <1>6 DEF FilesFine, MemoryTypes, memory
<1>11. BaseInv'
  BY <1>2, <1>8, <1>9, <1>10, StaysClosed
<1> QED
  BY <1>2, <1>7, <1>11

\* What an open accepts has lost nothing.
LEMMA AcceptedWhole ==
    ASSUME BaseInv, ~opened, Accepted(Synced(selected))
    PROVE  /\ ~Lost(selected)
           /\ Keeps(selected, Repaired(Synced(selected)))
           /\ Appendable(Repaired(Synced(selected)))
           /\ SameHeader(selected, Repaired(Synced(selected)))
           /\ Repaired(Synced(selected)).synced = Len(Repaired(Synced(selected)).frames)
<1>1. SoundFile(selected)
  BY WhenClosed
<1>2. selected \in Files /\ TornIsLast(selected.frames)
  BY <1>1 DEF SoundFile, FileSound
<1>3. ~Lost(selected)
  <2>1. Of(CompleteFrames(Synced(selected)), "Malformed") = {}
    BY DEF Accepted
  <2>2. CompleteFrames(Synced(selected)) = CompleteFrames(selected)
    BY <1>2, SyncedFile
  <2> QED
    BY <1>2, <2>1, <2>2, CompleteReads DEF Lost
<1> QED
  BY <1>1, <1>3, RepairedKeeps

\* open_internal leaves the memory that MemoryKnows describes.
LEMMA OpenStep ==
    ASSUME BaseInv, Open
    PROVE  BaseInv' /\ Followed
<1> DEFINE file == Synced(selected)  frames == CompleteFrames(file)
<1>1. /\ ~opened /\ (former = {} \/ UnsyncedRenameOpens)
      /\ Accepted(file) /\ selected' = Repaired(file) /\ former' = FormerAfterCleanup
      /\ candidate' = FALSE /\ opened' = TRUE /\ records' = Records(frames)
      /\ durableLen' = DurableLen(file, frames)
      /\ nextEpoch' = AllocatedEpoch(file, frames) + 1
      /\ nextPosition' = LastCompleted(file, frames) + 1
      /\ generation' = file.generation /\ reclaimedHighWater' = file.highWater
      /\ poisoned' = poisoned /\ UNCHANGED client
  BY DEF Open
<1>2. /\ poisoned = FALSE /\ FilesFine /\ ClientTypes /\ SoundFile(selected)
  <2>1. ~opened
    BY <1>1
  <2> QED
    BY <2>1, WhenClosed
<1>3. /\ ~Lost(selected) /\ Keeps(selected, selected') /\ Appendable(selected')
      /\ SameHeader(selected, selected') /\ selected'.synced = Len(selected'.frames)
  <2>1. ~opened /\ Accepted(Synced(selected)) /\ selected' = Repaired(Synced(selected))
    BY <1>1
  <2> HIDE DEF file, frames
  <2> QED
    BY <2>1, AcceptedWhole
<1>4. /\ Records(selected'.frames) = Records(CompleteFrames(selected))
      /\ LastCompleted(selected', selected'.frames) = LastCompleted(selected, CompleteFrames(selected))
      /\ DurableLen(selected', selected'.frames) = DurableLen(selected, CompleteFrames(selected))
      /\ AllocatedEpoch(selected', selected'.frames) = AllocatedEpoch(selected, CompleteFrames(selected))
  BY <1>1, <1>2, <1>3, RepairedKeeps
<1>5. selected \in Files
  BY <1>2 DEF SoundFile
<1>6. frames = CompleteFrames(selected) /\ SameHeader(selected, file)
  BY <1>5, SyncedFile
<1> HIDE DEF file, frames
<1>7. MemoryKnows'
  <2>1. /\ LastCompleted(file, frames) = LastCompleted(selected, frames)
        /\ DurableLen(file, frames) = DurableLen(selected, frames)
        /\ AllocatedEpoch(file, frames) = AllocatedEpoch(selected, frames)
    BY <1>6, HeaderOnly
  <2>2. file.generation = selected'.generation /\ file.highWater = selected'.highWater
    BY <1>3, <1>6 DEF SameHeader
  <2> QED
    BY <1>1, <1>4, <1>6, <2>1, <2>2 DEF MemoryKnows
<1>8. SoundFile(selected') /\ Follows(selected, selected')
  BY <1>3, KeepsFollows
<1>9. former' \subseteq former /\ (UnsyncedRenameOpens \/ former' = {})
  BY <1>1 DEF FormerAfterCleanup
<1>10. VolatileUnsynced(selected')
  BY <1>3, AppendableReads, SyncedWhole
<1>11. ClientTypes' /\ lifecycle' = lifecycle
  BY <1>1, <1>2 DEF client, ClientTypes
<1>12. ActiveInv' /\ Followed
  BY <1>8, <1>9, <1>11, ActiveStep, FollowedSelected
<1>13. ~Lost(selected') /\ ~EndsTorn(selected'.frames) /\ PendingLen(selected'.frames) = 0
  BY <1>3 DEF Appendable
<1>14. FilesFine'
  BY <1>2, <1>8, <1>9, <1>13 DEF FilesFine
<1>15. HealthyInv' /\ ClosedInv'
  BY <1>1, <1>7, <1>9, <1>10, <1>13 DEF HealthyInv, ClosedInv
<1>16. MemoryTypes'
  BY <1>3, <1>7, KnowsTypes
<1> QED
  BY <1>1, <1>2, <1>11, <1>12, <1>14, <1>15, <1>16, BaseNext

\* An open that fails keeps what it read.
LEMMA OpenFailsKeeps ==
    ASSUME BaseInv, OpenFails
    PROVE  /\ Keeps(selected, selected') /\ candidate' \in BOOLEAN
           /\ Lost(selected') => Lost(selected)
           /\ selected'.synced = Len(selected'.frames)
<1>1. /\ ~opened
      /\ \/ selected' = Synced(selected) /\ candidate' = candidate
         \/ /\ Accepted(Synced(selected)) /\ selected' = Repaired(Synced(selected))
            /\ candidate' \in {candidate, FALSE}
  BY DEF OpenFails
<1>2. SoundFile(selected) /\ candidate \in BOOLEAN
  BY <1>1, WhenClosed
<1>3. CASE selected' = Synced(selected) /\ candidate' = candidate
  <2>1. /\ Synced(selected).frames = selected.frames
        /\ Synced(selected).synced = Len(selected.frames)
    BY <1>2, SyncedFile DEF SoundFile
  <2> QED
    BY <1>2, <1>3, <2>1, SyncedKeeps
<1>4. CASE /\ Accepted(Synced(selected)) /\ selected' = Repaired(Synced(selected))
           /\ candidate' \in {candidate, FALSE}
  BY <1>1, <1>2, <1>4, AcceptedWhole DEF Appendable
<1> QED
  BY <1>1, <1>3, <1>4

\* An open that fails changes nothing that a later one would read.
LEMMA OpenFailsStep ==
    ASSUME BaseInv, OpenFails
    PROVE  BaseInv' /\ Followed
<1>1. ~opened /\ UNCHANGED <<former, opened, memory, poisoned, client>>
  BY DEF OpenFails
<1>2. /\ opened = FALSE /\ poisoned = FALSE /\ FilesFine /\ MemoryTypes /\ ClientTypes
  BY <1>1, WhenClosed
<1>3. /\ Keeps(selected, selected') /\ candidate' \in BOOLEAN
      /\ Lost(selected') => Lost(selected)
      /\ selected'.synced = Len(selected'.frames)
  BY OpenFailsKeeps
<1>4. SoundFile(selected') /\ Follows(selected, selected')
  BY <1>3, KeepsFollows
<1>5. FilesFine' /\ MemoryTypes' /\ ClientTypes' /\ lifecycle' = lifecycle
  BY <1>1, <1>2, <1>3, <1>4 DEF FilesFine, MemoryTypes, memory, ClientTypes, client
<1>6. ActiveInv' /\ Followed
  BY <1>1, <1>4, <1>5, ActiveStep, FollowedSelected
<1> QED
  BY <1>1, <1>2, <1>3, <1>5, <1>6, StaysClosed

\* The directory is synchronized: no file changes.
LEMMA SyncSharedDirectoryStep ==
    ASSUME BaseInv, SyncSharedDirectory
    PROVE  BaseInv' /\ Followed
<1>1. /\ ~opened /\ former' = {} /\ selected' = selected /\ candidate' = candidate
      /\ UNCHANGED <<opened, memory, poisoned, client>>
  BY DEF SyncSharedDirectory
<1>2. /\ opened = FALSE /\ poisoned = FALSE /\ FilesFine /\ MemoryTypes /\ ClientTypes
      /\ candidate \in BOOLEAN /\ SoundFile(selected)
  BY <1>1, WhenClosed
<1>3. SoundFile(selected') /\ Follows(selected, selected')
  BY <1>1, <1>2, FollowsItself
<1>4. FilesFine' /\ MemoryTypes' /\ ClientTypes' /\ lifecycle' = lifecycle
  BY <1>1, <1>2 DEF FilesFine, MemoryTypes, memory, ClientTypes, client
<1>5. ActiveInv' /\ Followed
  BY <1>1, <1>3, <1>4, ActiveStep, FollowedSelected
<1> QED
  BY <1>1, <1>2, <1>4, <1>5, StaysClosed

\* Nothing happens.
LEMMA StutterStep ==
    ASSUME BaseInv, UNCHANGED vars
    PROVE  BaseInv' /\ Followed
<1>1. /\ UNCHANGED <<selected, former, candidate, opened, memory, poisoned>>
      /\ lifecycle' = lifecycle /\ handedOut' = handedOut /\ reclaimed' = reclaimed
  BY DEF vars, client
<1>2. ClientTypes
  BY BaseParts
<1>3. ClientTypes'
  BY <1>1, <1>2 DEF ClientTypes
<1> QED
  BY <1>1, <1>3, ClientStep

\* The file that create_new_internal writes.
LEMMA EmptyLog ==
    /\ Appendable(EmptyFile) /\ EmptyFile.frames = <<>>
    /\ EmptyFile.synced = 0 /\ Len(EmptyFile.frames) = 0
    /\ Records(EmptyFile.frames) = <<>> /\ DurableLen(EmptyFile, EmptyFile.frames) = 0
    /\ AllocatedEpoch(EmptyFile, EmptyFile.frames) = 0
    /\ LastCompleted(EmptyFile, EmptyFile.frames) = 0
    /\ EmptyFile.generation = 0 /\ EmptyFile.highWater = 0
    /\ \A by : CommitFrames(EmptyFile.frames, by) = {}
<1> DEFINE f == EmptyFile
<1>1. /\ f.frames = <<>> /\ f.first = 0 /\ f.highWater = 0 /\ f.epoch = 0 /\ f.generation = 0
      /\ f.synced = 0
  BY DEF EmptyFile
<1>2. <<>> \in Seq(Frames) /\ Len(<<>>) = 0
  OBVIOUS
<1>3. f \in Files
  BY <1>2 DEF EmptyFile, Files
<1> HIDE DEF f
<1>4. /\ CompletedBefore(f) = 0 /\ DurableBefore(f) = 0
  BY <1>1, <1>3, HeaderNumbers
<1>5. /\ Sound(f, f.frames) /\ PendingLen(f.frames) = 0 /\ Records(f.frames) = <<>>
      /\ LastCompleted(f, f.frames) = 0 /\ LastDurable(f, f.frames) = 0
      /\ DurableLen(f, f.frames) = 0 /\ AllocatedEpoch(f, f.frames) = 0
      /\ \A by : CommitFrames(f.frames, by) = {}
  BY <1>1, <1>3, <1>4, NoFrames
<1>6. HeaderMet(f, f.frames)
  <2>1. f.frames \in Seq(Frames)
    BY <1>1, <1>2
  <2>2. /\ LastCompleted(f, f.frames) >= f.highWater /\ LastDurable(f, f.frames) >= f.highWater
        /\ f.first # 0 => DurableLen(f, f.frames) > 0
    BY <1>1, <1>5
  <2> QED
    BY <1>3, <1>5, <2>1, <2>2, HeaderMetIs
<1>7. Appendable(f)
  <2>1. f.synced = Len(f.frames) /\ \A i \in 1 .. Len(f.frames) :
             f.frames[i].kind \notin {"Torn", "Malformed"}
    BY <1>1, <1>2
  <2> QED
    BY <1>3, <1>5, <1>6, <2>1, WholeFile
<1> QED
  BY <1>1, <1>2, <1>5, <1>7 DEF f

\* The invariant holds of a new log.
LEMMA BaseInit ==
    ASSUME Init
    PROVE  BaseInv
<1>1. /\ selected = EmptyFile /\ former = {} /\ candidate = FALSE /\ opened = TRUE
      /\ records = <<>> /\ durableLen = 0 /\ nextEpoch = 1 /\ nextPosition = 1
      /\ poisoned = FALSE /\ generation = 0 /\ reclaimedHighWater = 0
      /\ lifecycle = [by \in Epochs |-> "NotIssued"] /\ handedOut = <<>> /\ reclaimed = {}
  BY DEF Init
<1>2. /\ Appendable(selected) /\ MemoryKnows
      /\ \A i \in 1 .. Len(selected.frames) : FALSE
  BY <1>1, EmptyLog DEF MemoryKnows
<1>3. MemoryTypes
  <2>1. <<>> \in Seq(LogRecords)
    OBVIOUS
  <2> QED
    BY <1>1, <2>1 DEF MemoryTypes
<1>4. ClientTypes
  <2>1. <<>> \in Seq(Nat) /\ "NotIssued" \in Lifecycles
    BY DEF Lifecycles
  <2> QED
    BY <1>1, <2>1 DEF ClientTypes
<1>5. FilesFine /\ HealthyInv /\ ClosedInv
  BY <1>1, <1>2 DEF FilesFine, HealthyInv, ClosedInv, VolatileUnsynced, Appendable
<1>6. ActiveInv
  BY <1>1 DEF ActiveInv
<1> QED
  BY <1>1, <1>3, <1>4, <1>5, <1>6, BaseParts

\* Every step keeps it.
LEMMA BaseStep ==
    ASSUME BaseInv, [Next]_vars
    PROVE  BaseInv'
<1>1. CASE AppendRawPage
  BY <1>1, AppendRawPageStep
<1>2. ASSUME NEW by \in Epochs, StagePage(by) \/ Commit(by) \/ Resolve(by)
      PROVE  BaseInv'
  BY <1>2, StagePageStep, CommitStep, ResolveStep DEF CommitOutcome
<1>3. CASE AllocateEpoch
  BY <1>3, AllocateEpochStep
<1>4. ASSUME NEW i \in 1 .. Len(records), FlushThrough(i)
      PROVE  BaseInv'
  BY <1>4, FlushThroughStep
<1>5. ASSUME NEW start \in 1 .. durableLen + 1, Reclaim(start)
      PROVE  BaseInv'
  BY <1>5, ReclaimStep DEF ReclaimOutcome
<1>6. CASE Drop \/ PowerLoss \/ Open \/ OpenFails \/ SyncSharedDirectory
  BY <1>6, DropStep, PowerLossStep, OpenStep, OpenFailsStep, SyncSharedDirectoryStep
<1>7. CASE UNCHANGED vars
  BY <1>7, StutterStep
<1> QED
  BY <1>1, <1>2, <1>3, <1>4, <1>5, <1>6, <1>7 DEF Next

\* The inductive invariant of the files and of the memory of their adapter
\* holds whatever is interrupted, lost or opened again.
THEOREM BaseInvariant == Spec => []BaseInv
<1>1. Init => BaseInv
  BY BaseInit
<1>2. BaseInv /\ [Next]_vars => BaseInv'
  BY BaseStep
<1> QED
  BY <1>1, <1>2, PTL DEF Spec

\* The fields of the adapter, the frames of the files that the path may name
\* and the lifecycles have their types.
THEOREM TypeCorrect == Spec => []TypeInv
<1>1. BaseInv => TypeInv
  BY DEF BaseInv
<1> QED
  BY <1>1, BaseInvariant, PTL

\* OpensAgain of FileLogProperties: inspect_internal accepts what interrupted
\* calls, dropped adapters, repairs and reclamations leave of a file.
THEOREM LogOpensAgain == Spec => []OpensAgain
<1>1. BaseInv => OpensAgain
  <2>1. SUFFICES ASSUME BaseInv, Of(selected.frames, "Malformed") = {}
                 PROVE  Accepted(selected)
    BY DEF OpensAgain
  <2> DEFINE f == selected  t == CompleteFrames(f)
  <2>2. SoundFile(f) /\ ~Lost(f)
    BY <2>1, BaseParts DEF FilesFine, Lost
  <2>3. /\ f \in Files /\ TornIsLast(f.frames) /\ Sound(f, Readable(f)) /\ HeaderMet(f, Sure(f))
    BY <2>2 DEF SoundFile, FileSound
  <2>4. /\ Readable(f) = t /\ t \in Seq(Frames) /\ Of(t, "Malformed") = {}
    BY <2>1, <2>2, <2>3, FileReads, CompleteReads
  <2>5. /\ Sure(f) \in Seq(Frames) /\ Alike(Sure(f), t, Len(Sure(f))) /\ Sound(f, t)
    BY <2>3, <2>4, SureReads
  <2>6. HeaderMet(f, t)
    BY <2>3, <2>4, <2>5, PrefixNumbers
  <2> QED
    BY <2>4, <2>5, <2>6 DEF Accepted, Sound
<1> QED
  BY <1>1, BaseInvariant, PTL

\* Two sequences with the same frames are the same.
LEMMA SameFrames ==
    ASSUME NEW s \in Seq(Frames), NEW t \in Seq(Frames), Len(s) = Len(t), Alike(s, t, Len(s))
    PROVE  s = t
BY DEF Alike

\* MemoryMatchesFile of FileLogProperties: every call of an adapter that is
\* not poisoned leaves its fields as an open of its file would compute them.
THEOREM MemoryIsTheFile == Spec => []MemoryMatchesFile
<1>1. BaseInv => MemoryMatchesFile
  <2>1. SUFFICES ASSUME BaseInv, opened, ~poisoned
                 PROVE  /\ Repaired(selected).frames = selected.frames
                        /\ records = Records(selected.frames)
                        /\ durableLen = DurableLen(selected, selected.frames)
                        /\ nextEpoch = AllocatedEpoch(selected, selected.frames) + 1
                        /\ nextPosition = LastCompleted(selected, selected.frames) + 1
                        /\ generation = selected.generation
                        /\ reclaimedHighWater = selected.highWater
    BY DEF MemoryMatchesFile
  <2>2. Appendable(selected) /\ MemoryKnows /\ ~Lost(selected) /\ PendingLen(selected.frames) = 0
    BY <2>1, Ready DEF Usable, Appendable
  <2>3. /\ selected \in Files /\ TornIsLast(selected.frames) /\ selected.frames \in Seq(Frames)
        /\ CompleteFrames(selected) = selected.frames /\ Sound(selected, selected.frames)
        /\ Len(selected.frames) \in Nat
    BY <2>2, AppendableReads
  <2>4. /\ Repaired(selected) \in Files
        /\ Len(Repaired(selected).frames) = Len(selected.frames) - PendingLen(selected.frames)
        /\ Alike(Repaired(selected).frames, selected.frames, Len(Repaired(selected).frames))
    BY <2>2, <2>3, RepairedFile
  <2>5. Repaired(selected).frames \in Seq(Frames)
    BY <2>4, HeaderNumbers
  <2>6. Repaired(selected).frames = selected.frames
    BY <2>2, <2>3, <2>4, <2>5, SameFrames
  <2> QED
    BY <2>2, <2>6 DEF MemoryKnows
<1> QED
  BY <1>1, BaseInvariant, PTL

----------------------------------------------------------------------------
(* When a renamed file is only opened after the directory is synchronized   *)

\* A usable log is the only file that the path may name.
LEMMA OneFile ==
    ASSUME BaseInv, ~UnsyncedRenameOpens, Usable
    PROVE  former = {} /\ Named = {selected}
BY Ready DEF Named

\* A rename that stays pending keeps its file, or is not pending any more.
LEMMA FormerStep ==
    ASSUME FormerInv, former' = former \/ former' = {}, former = {} \/ former' = {} \/ selected' = selected
    PROVE  FormerInv'
<1>1. CASE former' = {}
  BY <1>1 DEF FormerInv
<1>2. CASE former' # {}
  <2>1. former' = former /\ selected' = selected
    BY <1>2
  <2> QED
    BY <2>1 DEF FormerInv
<1> QED
  BY <1>1, <1>2

\* A call keeps the only file that the path names to its directory entry.
LEMMA CallFormer ==
    ASSUME BaseInv, ~UnsyncedRenameOpens, FormerInv, former' = former, Usable \/ selected' = selected
    PROVE  FormerInv'
<1>1. former = {} \/ selected' = selected
  BY OneFile
<1> QED
  BY <1>1, FormerStep

\* A step that only adds to the files.
LEMMA FollowedLineage ==
    ASSUME BaseInv, LineageInv, Followed, FormerInv',
           handedOut' = handedOut, reclaimed' = reclaimed,
           \A by \in Epochs :
             /\ lifecycle'[by] # "NotIssued" => lifecycle[by] # "NotIssued"
             /\ lifecycle'[by] \in Uncommitted =>
                  \/ lifecycle[by] \in Uncommitted
                  \/ \A file \in Named' : CommitFrames(file.frames, by) = {}
             /\ lifecycle'[by] = "Committed" =>
                  lifecycle[by] = "Committed" \/ \A file \in Named' : CommittedIn(file, by)
    PROVE  LineageInv'
<1>1. EpochInv /\ VerdictInv /\ handedOut \in Seq(Nat)
  BY BaseParts DEF LineageInv, ClientTypes
<1>2. EpochInv'
  BY <1>1, FollowedAllocated, EpochStep
<1>3. VerdictInv'
  BY <1>1, VerdictStep
<1> QED
  BY <1>2, <1>3 DEF LineageInv

\* stage_page_write changes no verdict.
LEMMA StagePageLineage ==
    ASSUME BaseInv, ~UnsyncedRenameOpens, LineageInv, NEW by \in Epochs, StagePage(by)
    PROVE  LineageInv'
<1>1. /\ former' = former /\ handedOut' = handedOut /\ reclaimed' = reclaimed
      /\ Usable \/ selected' = selected
  BY DEF StagePage, Appended, AppendFailed, AppendInterrupted, AppendRefused
<1>2. /\ BaseInv' /\ Followed
      /\ \A e \in Epochs :
           \/ lifecycle'[e] = lifecycle[e]
           \/ lifecycle[e] = "Active" /\ lifecycle'[e] = "PageAppendIndeterminate"
  BY StagePageStep
<1>3. FormerInv'
  BY <1>1, CallFormer DEF LineageInv
<1>4. ASSUME NEW e \in Epochs
      PROVE  /\ lifecycle'[e] # "NotIssued" => lifecycle[e] # "NotIssued"
             /\ lifecycle'[e] \in Uncommitted => lifecycle[e] \in Uncommitted
             /\ lifecycle'[e] = "Committed" => lifecycle[e] = "Committed"
  <2>1. CASE lifecycle'[e] = lifecycle[e]
    BY <2>1
  <2>2. CASE lifecycle[e] = "Active" /\ lifecycle'[e] = "PageAppendIndeterminate"
    BY <2>2 DEF Uncommitted
  <2> QED
    BY <1>2, <2>1, <2>2
<1> QED
  BY <1>1, <1>2, <1>3, <1>4, FollowedLineage

\* The answer of lookup_durable_commit is what the only file holds.
LEMMA LookedUp ==
    ASSUME BaseInv, Usable, NEW by \in Epochs
    PROVE  /\ CommitsOf(by) = {} => CommitFrames(selected.frames, by) = {}
           /\ \A i \in 1 .. durableLen :
                i \in DOMAIN records /\ records[i].kind = "Commit" /\ records[i].by = by
                => CommittedIn(selected, by)
<1>1. /\ Appendable(selected) /\ VolatileUnsynced(selected) /\ MemoryKnows /\ MemoryTypes
      /\ SoundFile(selected)
  BY Ready
<1>2. records = Records(selected.frames) /\ durableLen = DurableLen(selected, selected.frames)
      /\ records \in Seq(LogRecords)
  BY <1>1 DEF MemoryKnows, MemoryTypes
<1>3. /\ selected \in Files /\ selected.frames \in Seq(Frames) /\ Sound(selected, selected.frames)
      /\ Sure(selected) \in Seq(Frames) /\ Alike(Sure(selected), selected.frames, Len(Sure(selected)))
  BY <1>1, AppendableReads
<1>4. ASSUME CommitFrames(selected.frames, by) # {}
      PROVE  CommitsOf(by) # {}
  <2>1. PICK n \in 1 .. Len(records) : records[n].kind = "Commit" /\ records[n].by = by
    BY <1>2, <1>3, <1>4, CommitRecords
  <2>2. n \in DOMAIN records
    BY <1>2
  <2> QED
    BY <2>1, <2>2 DEF CommitsOf
<1>5. ASSUME NEW i \in 1 .. durableLen, records[i].kind = "Commit", records[i].by = by
      PROVE  CommittedIn(selected, by)
  <2>1. DurableLen(selected, Sure(selected)) = durableLen
    BY <1>1, <1>2, VolatileSure
  <2>2. /\ durableLen \in 0 .. Len(Records(Sure(selected))) /\ Len(Records(Sure(selected))) \in Nat
    BY <1>1, <2>1, CommittedRecord
  <2>3. i \in 1 .. Len(Records(Sure(selected)))
    BY <2>2
  <2>4. Records(Sure(selected))[i] = records[i]
    BY <1>2, <1>3, <2>3, PrefixNumbers
  <2> QED
    BY <1>1, <1>5, <2>1, <2>4, CommittedRecord
<1> QED
  BY <1>4, <1>5

\* lookup_durable_commit: what it answers is true of the only file.
LEMMA ResolveLineage ==
    ASSUME BaseInv, ~UnsyncedRenameOpens, LineageInv, NEW by \in Epochs, Resolve(by)
    PROVE  LineageInv'
<1>1. /\ handedOut' = handedOut /\ reclaimed' = reclaimed
  BY DEF Resolve
<1>2. /\ BaseInv' /\ Followed /\ Usable
      /\ selected' = selected /\ former' = former
      /\ \A e \in Epochs : e # by => lifecycle'[e] = lifecycle[e]
      /\ lifecycle[by] = "Indeterminate"
      /\ \/ lifecycle'[by] = "NoDurableCommitRecord" /\ CommitsOf(by) = {}
         \/ /\ lifecycle'[by] = "Committed"
            /\ \E i \in 1 .. durableLen :
                 i \in DOMAIN records /\ records[i].kind = "Commit" /\ records[i].by = by
  BY ResolveStep
<1>3. FormerInv'
  BY <1>2, CallFormer DEF LineageInv
<1>4. Named' = {selected}
  BY <1>2, OneFile DEF Named
<1>5. CASE lifecycle'[by] = "NoDurableCommitRecord" /\ CommitsOf(by) = {}
  <2>1. \A file \in Named' : CommitFrames(file.frames, by) = {}
    BY <1>2, <1>4, <1>5, LookedUp
  <2> QED
    BY <1>1, <1>2, <1>3, <1>5, <2>1, FollowedLineage
<1>6. CASE /\ lifecycle'[by] = "Committed"
           /\ \E i \in 1 .. durableLen :
                i \in DOMAIN records /\ records[i].kind = "Commit" /\ records[i].by = by
  <2>1. \A file \in Named' : CommittedIn(file, by)
    BY <1>2, <1>4, <1>6, LookedUp
  <2>2. lifecycle'[by] \notin Uncommitted
    BY <1>6 DEF Uncommitted
  <2> QED
    BY <1>1, <1>2, <1>3, <1>6, <2>1, <2>2, FollowedLineage
<1> QED
  BY <1>2, <1>5, <1>6

\* commit: when it returns a receipt, the record is in the only file for good.
LEMMA CommitLineage ==
    ASSUME BaseInv, ~UnsyncedRenameOpens, LineageInv, NEW by \in Epochs, Commit(by)
    PROVE  LineageInv'
<1>1. former' = former /\ (Usable \/ selected' = selected)
  BY DEF Commit, CommitAppends, AppendFailed, AppendInterrupted, AppendRefused
<1>2. /\ BaseInv' /\ FollowsBut(selected, selected', by)
      /\ handedOut' = handedOut /\ reclaimed' = reclaimed
      /\ \A e \in Epochs : e # by => lifecycle'[e] = lifecycle[e]
      /\ \/ lifecycle'[by] = "Indeterminate"
         \/ lifecycle'[by] = "Committed" /\ CommittedIn(selected', by) /\ Usable
      /\ lifecycle[by] = "Active"
  BY CommitStep DEF CommitOutcome
<1>3. FormerInv' /\ EpochInv /\ VerdictInv
  BY <1>1, CallFormer DEF LineageInv
<1>4. /\ handedOut \in Seq(Nat) /\ \A file \in Named : SoundFile(file)
  BY BaseParts DEF ClientTypes, FilesFine, Named
<1>5. ASSUME NEW file \in Named'
      PROVE  SoundFile(file) /\ \E old \in Named : SoundFile(old) /\ FollowsBut(old, file, by)
  <2>1. CASE file = selected'
    BY <1>2, <1>4, <2>1 DEF Named, FollowsBut
  <2>2. CASE file \in former'
    <3>1. file \in Named
      BY <1>1, <2>2 DEF Named
    <3> QED
      BY <1>4, <3>1, FollowsItself DEF Follows, FollowsBut
  <2> QED
    BY <2>1, <2>2 DEF Named
<1>6. EpochInv'
  <2>1. AllocatedStill
    BY <1>5 DEF AllocatedStill, FollowsBut
  <2> QED
    BY <1>2, <1>3, <1>4, <2>1, EpochStep
<1>7. ASSUME NEW e \in Epochs
      PROVE  /\ lifecycle'[e] \in Uncommitted =>
                  \A file \in Named' : CommitFrames(file.frames, e) = {}
             /\ lifecycle'[e] = "Committed" =>
                  e \in reclaimed' \/ \A file \in Named' : CommittedIn(file, e)
  <2>1. CASE e = by
    <3>1. lifecycle'[e] \notin Uncommitted
      BY <1>2, <2>1 DEF Uncommitted
    <3>2. lifecycle'[e] = "Committed" => \A file \in Named' : CommittedIn(file, e)
      BY <1>1, <1>2, <2>1, OneFile DEF Named
    <3> QED
      BY <3>1, <3>2
  <2>2. CASE e # by
    <3>1. lifecycle'[e] = lifecycle[e]
      BY <1>2, <2>2
    <3>2. ASSUME lifecycle[e] \in Uncommitted, NEW file \in Named'
          PROVE  CommitFrames(file.frames, e) = {}
      <4>1. PICK old \in Named : FollowsBut(old, file, by)
        BY <1>5
      <4>2. CommitFrames(old.frames, e) = {}
        BY <1>3, <3>2, <4>1 DEF VerdictInv
      <4> QED
        BY <2>2, <4>1, <4>2 DEF FollowsBut
    <3>3. ASSUME lifecycle[e] = "Committed", e \notin reclaimed, NEW file \in Named'
          PROVE  CommittedIn(file, e)
      <4>1. PICK old \in Named : FollowsBut(old, file, by)
        BY <1>5
      <4>2. CommittedIn(old, e)
        BY <1>3, <3>3, <4>1 DEF VerdictInv
      <4> QED
        BY <4>1, <4>2 DEF FollowsBut
    <3> QED
      BY <1>2, <3>1, <3>2, <3>3
  <2> QED
    BY <2>1, <2>2
<1>8. VerdictInv'
  BY <1>7 DEF VerdictInv
<1> QED
  BY <1>3, <1>6, <1>8 DEF LineageInv

\* The end of a sequence is a suffix of it.
LEMMA SuffixIs ==
    ASSUME NEW s \in Seq(LogRecords), NEW t \in Seq(LogRecords), NEW start \in 1 .. Len(t) + 1,
           Len(s) = Len(t) - start + 1, \A n \in 1 .. Len(s) : s[n] = t[start - 1 + n]
    PROVE  AsDurableLog!IsSuffix(s, t)
<1> DEFINE u == AsDurableLog!Reverse(s)  v == AsDurableLog!Reverse(t)
<1>1. Len(s) \in Nat /\ Len(t) \in Nat /\ Len(s) <= Len(t)
  OBVIOUS
<1>2. /\ u \in Seq(LogRecords) /\ Len(u) = Len(s)
      /\ \A i \in 1 .. Len(s) : u[i] = s[(Len(s) - i) + 1]
  BY <1>1 DEF AsDurableLog!Reverse
<1>3. /\ v \in Seq(LogRecords) /\ Len(v) = Len(t)
      /\ \A i \in 1 .. Len(t) : v[i] = t[(Len(t) - i) + 1]
  BY <1>1 DEF AsDurableLog!Reverse
<1> HIDE DEF u, v
<1>4. ASSUME NEW i \in 1 .. Len(s)
      PROVE  u[i] = v[i]
  <2> DEFINE n == (Len(s) - i) + 1
  <2>1. n \in 1 .. Len(s) /\ start - 1 + n = (Len(t) - i) + 1 /\ i \in 1 .. Len(t)
    BY <1>1
  <2>2. u[i] = s[n] /\ v[i] = t[(Len(t) - i) + 1]
    BY <1>2, <1>3, <2>1
  <2> HIDE DEF n
  <2>3. s[n] = t[start - 1 + n]
    BY <2>1
  <2> QED
    BY <2>1, <2>2, <2>3
<1>5. SubSeq(u, 1, Len(u)) = SubSeq(v, 1, Len(u))
  BY <1>1, <1>2, <1>3, <1>4
<1>6. AsDurableLog!IsPrefix(u, v)
  BY <1>1, <1>2, <1>3, <1>5 DEF AsDurableLog!IsPrefix
<1> QED
  BY <1>6 DEF AsDurableLog!IsSuffix, u, v

\* All of a log is durable.
LEMMA SplitAll ==
    ASSUME NEW s \in Seq(LogRecords)
    PROVE  Split(s, Len(s)).durable = s /\ Split(s, Len(s)).volatile = <<>>
BY DEF Split

\* What a reclamation finds and what it leaves, as a log.
LEMMA ReclaimedContent ==
    ASSUME BaseInv, Usable, NEW start \in 1 .. durableLen + 1, NEW r, Reclaimable(start, r)
    PROVE  /\ ContentOf(selected).volatile = <<>> /\ ContentOf(r).volatile = <<>>
           /\ AsDurableLog!IsSuffix(ContentOf(r).durable, ContentOf(selected).durable)
<1> DEFINE kept == Retained(start)
<1>1. /\ Appendable(r) /\ Sure(r) = r.frames /\ Records(r.frames) = kept
      /\ kept \in Seq(LogRecords) /\ Len(kept) = durableLen - start + 1
      /\ DurableLen(r, r.frames) = Len(kept)
      /\ Len(records) = durableLen /\ DurableLen(selected, Sure(selected)) = durableLen
      /\ Records(Readable(selected)) = records
      /\ \A n \in 1 .. Len(kept) :
           start - 1 + n \in 1 .. Len(records) /\ kept[n] = records[start - 1 + n]
  BY DEF Reclaimable
<1>2. records \in Seq(LogRecords) /\ durableLen \in Nat
  BY Ready DEF MemoryTypes
<1>3. Readable(r) = r.frames
  BY <1>1, AppendableReads
<1> HIDE DEF kept
<1>4. ContentOf(selected) = Split(records, Len(records)) /\ ContentOf(r) = Split(kept, Len(kept))
  BY <1>1, <1>3 DEF ContentOf
<1>5. AsDurableLog!IsSuffix(kept, records)
  <2>1. /\ start \in 1 .. Len(records) + 1 /\ Len(kept) = Len(records) - start + 1
        /\ kept \in Seq(LogRecords) /\ records \in Seq(LogRecords)
        /\ \A n \in 1 .. Len(kept) : kept[n] = records[start - 1 + n]
    BY <1>1, <1>2
  <2> QED
    BY <2>1, SuffixIs
<1> QED
  BY <1>1, <1>2, <1>4, <1>5, SplitAll

\* A reclamation removes durable commits only, and notes which.
LEMMA ReclaimLineage ==
    ASSUME BaseInv, ~UnsyncedRenameOpens, LineageInv,
           NEW start \in 1 .. durableLen + 1, Reclaim(start)
    PROVE  LineageInv'
<1>1. ReclaimOutcome(start)
  BY ReclaimStep
<1>2. /\ BaseInv' /\ FollowedBut /\ Usable /\ Reclaimable(start, Replacement(start))
      /\ lifecycle' = lifecycle /\ handedOut' = handedOut
      /\ \/ selected' = selected /\ former' \subseteq former /\ reclaimed' = reclaimed
         \/ /\ selected' = Replacement(start) /\ former' \subseteq former \cup {selected}
            /\ reclaimed' = reclaimed \cup Gone(start)
  BY <1>1 DEF ReclaimOutcome
<1>3. former = {} /\ Named = {selected} /\ EpochInv /\ VerdictInv /\ handedOut \in Seq(Nat)
  BY <1>2, OneFile, Ready DEF LineageInv, ClientTypes
<1>4. EpochInv'
  <2>1. AllocatedStill
    BY <1>2 DEF FollowedBut, AllocatedStill
  <2> QED
    BY <1>2, <1>3, <2>1, EpochStep
<1>5. reclaimed \subseteq reclaimed' /\ reclaimed' \subseteq reclaimed \cup Gone(start)
  BY <1>2
<1>6. ASSUME NEW by \in Epochs
      PROVE  /\ lifecycle'[by] \in Uncommitted =>
                  \A file \in Named' : CommitFrames(file.frames, by) = {}
             /\ lifecycle'[by] = "Committed" =>
                  by \in reclaimed' \/ \A file \in Named' : CommittedIn(file, by)
  <2>1. ASSUME lifecycle[by] \in Uncommitted, NEW file \in Named'
        PROVE  CommitFrames(file.frames, by) = {}
    <3>1. PICK old \in Named :
             \A e : CommitFrames(file.frames, e) # {} => CommitFrames(old.frames, e) # {}
      BY <1>2 DEF FollowedBut
    <3>2. CommitFrames(old.frames, by) = {}
      BY <1>3, <2>1, <3>1 DEF VerdictInv
    <3> QED
      BY <3>1, <3>2
  <2>2. ASSUME lifecycle[by] = "Committed", by \notin reclaimed', NEW file \in Named'
        PROVE  CommittedIn(file, by)
    <3>1. PICK old \in Named :
             \A e : CommittedIn(old, e) => CommittedIn(file, e) \/ e \in reclaimed'
      BY <1>2 DEF FollowedBut
    <3>2. CommittedIn(old, by)
      BY <1>3, <1>5, <2>2, <3>1 DEF VerdictInv
    <3> QED
      BY <2>2, <3>1, <3>2
  <2> QED
    BY <1>2, <2>1, <2>2
<1>7. VerdictInv'
  BY <1>6 DEF VerdictInv
<1>8. FormerInv'
  <2>1. CASE selected' = selected
    <3>1. former' = {} \/ (selected' = Replacement(start) /\ former' \subseteq {selected})
      BY <1>2, <1>3
    <3>2. CASE former' = {}
      BY <3>2 DEF FormerInv
    <3>3. CASE selected' = Replacement(start) /\ former' \subseteq {selected}
      <4>1. /\ ContentOf(selected).volatile = <<>> /\ ContentOf(selected').volatile = <<>>
            /\ AsDurableLog!IsSuffix(ContentOf(selected').durable, ContentOf(selected).durable)
        BY <1>2, <3>3, ReclaimedContent
      <4> QED
        BY <3>3, <4>1 DEF FormerInv
    <3> QED
      BY <3>1, <3>2, <3>3
  <2>2. CASE selected' = Replacement(start) /\ former' \subseteq {selected}
    <3>1. /\ ContentOf(selected).volatile = <<>> /\ ContentOf(selected').volatile = <<>>
          /\ AsDurableLog!IsSuffix(ContentOf(selected').durable, ContentOf(selected).durable)
      BY <1>2, <2>2, ReclaimedContent
    <3>2. \A old \in former' : old = selected /\ former' = {old}
      BY <2>2
    <3> QED
      BY <3>1, <3>2 DEF FormerInv
  <2> QED
    BY <1>2, <1>3, <2>1, <2>2
<1> QED
  BY <1>4, <1>7, <1>8 DEF LineageInv

\* An epoch that is handed out was handed out never before.
LEMMA AllocateEpochLineage ==
    ASSUME BaseInv, ~UnsyncedRenameOpens, LineageInv, AllocateEpoch
    PROVE  LineageInv'
<1>1. /\ BaseInv' /\ Followed
      /\ \/ UNCHANGED <<lifecycle, handedOut>>
         \/ EpochHandedOut /\ Usable /\ former' = former
  BY AllocateEpochStep
<1>2. Usable /\ former' = former /\ reclaimed' = reclaimed
  BY DEF AllocateEpoch
<1>3. FormerInv' /\ EpochInv /\ VerdictInv
  BY <1>2, CallFormer DEF LineageInv
<1>4. CASE UNCHANGED <<lifecycle, handedOut>>
  BY <1>1, <1>2, <1>3, <1>4, FollowedLineage
<1>5. CASE EpochHandedOut
  <2>1. /\ handedOut' = Append(handedOut, nextEpoch) /\ nextEpoch \in Epochs
        /\ lifecycle' = [lifecycle EXCEPT ![nextEpoch] = "Active"]
        /\ nextEpoch = AllocatedEpoch(selected, Sure(selected)) + 1
        /\ nextEpoch = AllocatedEpoch(selected', Sure(selected'))
    BY <1>5 DEF EpochHandedOut
  <2>2. /\ Named = {selected} /\ Named' = {selected'}
        /\ handedOut \in Seq(Nat) /\ lifecycle \in [Epochs -> Lifecycles]
        /\ AllocatedEpoch(selected, Sure(selected)) \in Nat
    BY <1>2, OneFile, Ready, SureEpoch DEF Named, ClientTypes
  <2>3. \A i \in DOMAIN handedOut : handedOut[i] < nextEpoch
    BY <1>3, <2>1, <2>2 DEF EpochInv
  <2>4. nextEpoch \in Nat /\ lifecycle[nextEpoch] = "NotIssued"
    BY <1>3, <2>1, <2>2 DEF EpochInv, Epochs
  <2>5. \A e \in Epochs : lifecycle'[e] = IF e = nextEpoch THEN "Active" ELSE lifecycle[e]
    BY <2>1, <2>2
  <2>6. EpochInv'
    <3>1. ASSUME NEW i \in DOMAIN handedOut'
          PROVE  handedOut'[i] <= nextEpoch
      BY <2>1, <2>2, <2>3, <2>4
    <3>2. ASSUME NEW e \in Epochs, lifecycle'[e] # "NotIssued"
          PROVE  e <= nextEpoch
      <4>1. CASE e = nextEpoch
        BY <2>4, <4>1
      <4>2. CASE e # nextEpoch
        <5>1. e <= AllocatedEpoch(selected, Sure(selected)) /\ e \in Nat
          BY <1>3, <2>2, <2>5, <3>2, <4>2 DEF EpochInv, Epochs
        <5> QED
          BY <2>1, <2>2, <5>1
      <4> QED
        BY <4>1, <4>2
    <3>3. ASSUME NEW i \in DOMAIN handedOut', NEW j \in DOMAIN handedOut',
                 handedOut'[i] = handedOut'[j]
          PROVE  i = j
      <4>1. /\ DOMAIN handedOut' = 1 .. Len(handedOut) + 1 /\ DOMAIN handedOut = 1 .. Len(handedOut)
            /\ Len(handedOut) \in Nat
            /\ handedOut'[Len(handedOut) + 1] = nextEpoch
            /\ \A k \in 1 .. Len(handedOut) : handedOut'[k] = handedOut[k] /\ handedOut[k] \in Nat
        BY <2>1, <2>2
      <4>2. CASE i \in DOMAIN handedOut /\ j \in DOMAIN handedOut
        BY <1>3, <3>3, <4>1, <4>2 DEF EpochInv, EpochsNeverReissued
      <4> QED
        BY <2>3, <2>4, <3>3, <4>1, <4>2
    <3>4. EpochsNeverReissued'
      BY <3>3 DEF EpochsNeverReissued
    <3> QED
      BY <2>1, <2>2, <3>1, <3>2, <3>4 DEF EpochInv
  <2>7. VerdictInv'
    <3>1. ASSUME NEW e \in Epochs
          PROVE  /\ lifecycle'[e] \in Uncommitted => lifecycle[e] \in Uncommitted
                 /\ lifecycle'[e] = "Committed" => lifecycle[e] = "Committed"
      BY <2>4, <2>5 DEF Uncommitted
    <3> QED
      BY <1>1, <1>2, <1>3, <3>1, VerdictStep
  <2> QED
    BY <1>3, <2>6, <2>7 DEF LineageInv
<1> QED
  BY <1>1, <1>4, <1>5

\* A power loss takes back neither an epoch nor a verdict.
LEMMA PowerLossLineage ==
    ASSUME BaseInv, LineageInv, PowerLoss
    PROVE  LineageInv'
<1>1. /\ BaseInv' /\ Followed
      /\ \A by \in Epochs :
           lifecycle'[by] = lifecycle[by]
           \/ (lifecycle[by] \in Undecided /\ lifecycle'[by] = "Forgotten")
  BY PowerLossStep
<1>2. former' = {} /\ handedOut' = handedOut /\ reclaimed' = reclaimed
  BY DEF PowerLoss
<1>3. FormerInv'
  BY <1>2 DEF FormerInv
<1>4. ASSUME NEW e \in Epochs
      PROVE  /\ lifecycle'[e] # "NotIssued" => lifecycle[e] # "NotIssued"
             /\ lifecycle'[e] \in Uncommitted => lifecycle[e] \in Uncommitted
             /\ lifecycle'[e] = "Committed" => lifecycle[e] = "Committed"
  <2>1. CASE lifecycle'[e] = lifecycle[e]
    BY <2>1
  <2>2. CASE lifecycle[e] \in Undecided /\ lifecycle'[e] = "Forgotten"
    BY <2>2 DEF Uncommitted, Undecided
  <2> QED
    BY <1>1, <2>1, <2>2
<1> QED
  BY <1>1, <1>2, <1>3, <1>4, FollowedLineage

\* A new log has handed out nothing.
LEMMA LineageInit ==
    ASSUME Init
    PROVE  LineageInv
<1>1. /\ Named = {EmptyFile} /\ former = {} /\ handedOut = <<>> /\ reclaimed = {}
      /\ \A by \in Epochs : lifecycle[by] = "NotIssued"
  BY DEF Init, Named
<1>2. EpochInv
  BY <1>1 DEF EpochInv, EpochsNeverReissued
<1>3. VerdictInv
  <2>1. \A by : CommitFrames(EmptyFile.frames, by) = {}
    BY EmptyLog
  <2> QED
    BY <1>1, <2>1 DEF VerdictInv
<1>4. FormerInv
  BY <1>1 DEF FormerInv
<1> QED
  BY <1>2, <1>3, <1>4 DEF LineageInv

\* A step that leaves the client alone.
LEMMA KeepingLineage ==
    ASSUME BaseInv, LineageInv, Followed, FormerInv', UNCHANGED client
    PROVE  LineageInv'
<1>1. lifecycle' = lifecycle /\ handedOut' = handedOut /\ reclaimed' = reclaimed
  BY DEF client
<1> QED
  BY <1>1, FollowedLineage

\* Every step keeps epochs and verdicts, when a pending rename is made
\* permanent before an open.
LEMMA LineageStep ==
    ASSUME BaseInv, ~UnsyncedRenameOpens, LineageInv, [Next]_vars
    PROVE  LineageInv'
<1>1. FormerInv
  BY DEF LineageInv
<1>2. CASE AppendRawPage
  <2>1. former' = former /\ Usable /\ UNCHANGED client
    BY <1>2 DEF AppendRawPage, Appended, AppendInterrupted
  <2> QED
    BY <1>1, <1>2, <2>1, AppendRawPageStep, CallFormer, KeepingLineage
<1>3. ASSUME NEW by \in Epochs, StagePage(by) \/ Commit(by) \/ Resolve(by)
      PROVE  LineageInv'
  BY <1>3, StagePageLineage, CommitLineage, ResolveLineage
<1>4. CASE AllocateEpoch
  BY <1>4, AllocateEpochLineage
<1>5. ASSUME NEW i \in 1 .. Len(records), FlushThrough(i)
      PROVE  LineageInv'
  <2>1. former' = former /\ Usable /\ UNCHANGED client
    BY <1>5 DEF FlushThrough, client
  <2> QED
    BY <1>1, <1>5, <2>1, FlushThroughStep, CallFormer, KeepingLineage
<1>6. ASSUME NEW start \in 1 .. durableLen + 1, Reclaim(start)
      PROVE  LineageInv'
  BY <1>6, ReclaimLineage
<1>7. CASE Drop
  <2>1. former' = former /\ selected' = selected /\ UNCHANGED client
    BY <1>7 DEF Drop
  <2> QED
    BY <1>1, <1>7, <2>1, DropStep, FormerStep, KeepingLineage
<1>8. CASE PowerLoss
  BY <1>8, PowerLossLineage
<1>9. CASE Open
  <2>1. former = {} /\ former' = former /\ UNCHANGED client
    BY <1>9 DEF Open, FormerAfterCleanup
  <2> QED
    BY <1>1, <1>9, <2>1, OpenStep, FormerStep, KeepingLineage
<1>10. CASE OpenFails
  <2>1. former = {} /\ former' = former /\ UNCHANGED client
    BY <1>10 DEF OpenFails
  <2> QED
    BY <1>1, <1>10, <2>1, OpenFailsStep, FormerStep, KeepingLineage
<1>11. CASE SyncSharedDirectory
  <2>1. former' = {} /\ UNCHANGED client
    BY <1>11 DEF SyncSharedDirectory
  <2> QED
    BY <1>1, <1>11, <2>1, SyncSharedDirectoryStep, FormerStep, KeepingLineage
<1>12. CASE UNCHANGED vars
  <2>1. former' = former /\ selected' = selected /\ UNCHANGED client
    BY <1>12 DEF vars
  <2> QED
    BY <1>1, <1>12, <2>1, StutterStep, FormerStep, KeepingLineage
<1> QED
  BY <1>2, <1>3, <1>4, <1>5, <1>6, <1>7, <1>8, <1>9, <1>10, <1>11, <1>12 DEF Next

\* The inductive invariant: that of the files, and, unless a renamed file may
\* be opened before its directory is synchronized, that of the epochs and of
\* the verdicts that callers were given.
THEOREM FileLogInvariantHolds == Spec => []IInv
<1>1. Init => IInv
  BY BaseInit, LineageInit DEF IInv
<1>2. IInv /\ [Next]_vars => IInv'
  <2>1. SUFFICES ASSUME IInv, [Next]_vars
                 PROVE  IInv'
    OBVIOUS
  <2>2. BaseInv'
    BY <2>1, BaseStep DEF IInv
  <2>3. UnsyncedRenameOpens \/ LineageInv'
    BY <2>1, LineageStep DEF IInv
  <2> QED
    BY <2>2, <2>3 DEF IInv
<1> QED
  BY <1>1, <1>2, PTL DEF Spec

\* EpochsNeverReissued of FileLogProperties: allocate_transaction_epoch makes
\* the frame of an epoch permanent before it returns it, and neither a repair,
\* a reclamation nor a power loss takes the allocation back.
THEOREM EpochsAreNeverReissued ==
    ASSUME ~UnsyncedRenameOpens
    PROVE  Spec => []EpochsNeverReissued
<1>1. IInv => EpochsNeverReissued
  BY DEF IInv, LineageInv, EpochInv
<1> QED
  BY <1>1, FileLogInvariantHolds, PTL

\* What is read of any frames is the record of one of them.
LEMMA RecordsOf ==
    ASSUME NEW s \in Seq(Frames), NEW n \in DOMAIN Records(s)
    PROVE  \E i \in Ends(s) : Records(s)[n] = s[i].record
<1>1. Ends(s) \in SUBSET (1 .. Len(s)) /\ Len(s) \in Nat
  BY OfElements, FramesElements
<1>2. n \in 1 .. Cardinality(Ends(s)) /\ Records(s)[n] = s[NthEnd(s, n)].record
  BY DEF Records
<1>3. \E i \in Ends(s) : Cardinality(Before(Ends(s), i)) = n - 1
  BY <1>1, <1>2, Ranks
<1>4. NthEnd(s, n) \in Ends(s)
  BY <1>3 DEF NthEnd
<1> QED
  BY <1>2, <1>4

\* No commit record is read where none was written.
LEMMA NoCommitRead ==
    ASSUME NEW f, SoundFile(f), NEW by, CommitFrames(f.frames, by) = {}
    PROVE  CommitsIn(Records(CompleteFrames(f)), by) = {}
<1> DEFINE t == CompleteFrames(f)
<1>1. /\ f \in Files /\ TornIsLast(f.frames) /\ t \in Seq(Frames) /\ f.frames \in Seq(Frames)
      /\ Alike(t, f.frames, Len(t))
  BY CompleteReads, HeaderNumbers DEF SoundFile, FileSound
<1> HIDE DEF t
<1>2. SUFFICES ASSUME NEW n \in DOMAIN Records(t), Records(t)[n].kind = "Commit",
                      Records(t)[n].by = by
               PROVE  FALSE
  BY DEF CommitsIn, t
<1>3. PICK i \in Ends(t) : Records(t)[n] = t[i].record
  BY <1>1, RecordsOf
<1>4. i \in 1 .. Len(t) /\ t[i].kind = "Record"
  BY <1>1, OfElements
<1>5. i \in 1 .. Len(f.frames) /\ f.frames[i] = t[i]
  <2>1. Len(t) <= Len(f.frames) /\ Len(t) \in Nat /\ Len(f.frames) \in Nat
    BY <1>1, FramesElements DEF Alike
  <2> QED
    BY <1>1, <1>4, <2>1 DEF Alike
<1>6. i \in Of(f.frames, "Record")
  BY <1>1, <1>4, <1>5, OfElements
<1> QED
  BY <1>2, <1>3, <1>5, <1>6 DEF CommitFrames

\* A commit record that is there for good is read once, below a marker.
LEMMA CommittedRead ==
    ASSUME NEW f, SoundFile(f), NEW by, CommittedIn(f, by)
    PROVE  Cardinality(CommitsIn(DurableRecords(f), by)) = 1
<1> DEFINE t == Readable(f)  q == Records(t)  m == DurableLen(f, t)  d == SubSeq(q, 1, m)
<1>1. /\ f \in Files /\ TornIsLast(f.frames) /\ Sound(f, t)
  BY DEF SoundFile, FileSound
<1>2. /\ t \in Seq(Frames) /\ Sure(f) \in Seq(Frames) /\ Alike(Sure(f), t, Len(Sure(f)))
  BY <1>1, FileReads, SureReads
<1> HIDE DEF t
<1>3. /\ q \in Seq(LogRecords) /\ Len(q) \in Nat /\ m \in 0 .. Len(q)
  BY <1>1, <1>2, RecordsRead, DurableCount
<1>4. PICK n \in 1 .. DurableLen(f, Sure(f)) :
         Records(Sure(f))[n].kind = "Commit" /\ Records(Sure(f))[n].by = by
  BY CommittedRecord
<1>5. /\ DurableLen(f, Sure(f)) \in 0 .. Len(Records(Sure(f))) /\ Len(Records(Sure(f))) \in Nat
      /\ DurableLen(f, Sure(f)) <= m
  BY <1>1, <1>2, CommittedRecord, PrefixNumbers
<1>6. n \in 1 .. m /\ q[n] = Records(Sure(f))[n]
  <2>1. n \in 1 .. Len(Records(Sure(f))) /\ n \in 1 .. m
    BY <1>3, <1>5
  <2> QED
    BY <1>1, <1>2, <2>1, PrefixNumbers
<1>7. \A i, j \in 1 .. Len(q) :
         q[i].kind = "Commit" /\ q[j].kind = "Commit" /\ q[i].by = q[j].by => i = j
  BY <1>1, <1>2, CommitRecords
<1> HIDE DEF q, m
<1>8. d \in Seq(LogRecords) /\ DOMAIN d = 1 .. m /\ \A i \in 1 .. m : d[i] = q[i] /\ i \in 1 .. Len(q)
  BY <1>3
<1> HIDE DEF d
<1>9. CommitsIn(d, by) = {n}
  BY <1>4, <1>6, <1>7, <1>8 DEF CommitsIn
<1>10. DurableRecords(f) = d
  BY DEF DurableRecords, d, q, m, t
<1> QED
  BY <1>9, <1>10, FS_Singleton

\* A committed transaction has its record in the selected file, for good.
LEMMA CommittedKept ==
    ASSUME BaseInv, VerdictInv
    PROVE  CommittedSurvives
<1>1. SoundFile(selected) /\ selected \in Named
  BY BaseParts DEF FilesFine, Named
<1>2. ASSUME NEW by \in Epochs, lifecycle[by] = "Committed", by \notin reclaimed
      PROVE  Cardinality(CommitsIn(DurableRecords(selected), by)) = 1
  <2>1. CommittedIn(selected, by)
    BY <1>1, <1>2 DEF VerdictInv
  <2> QED
    BY <1>1, <2>1, CommittedRead
<1> QED
  BY <1>2 DEF CommittedSurvives

\* CommittedSurvives of FileLogProperties: the record that a successful flush
\* made durable stays in the selected file, below a marker, until a reclamation
\* removes it, provided that renames are made permanent before an open. Commits
\* that are still unresolved at a reclamation do it no harm.
THEOREM CommittedStays ==
    ASSUME ~UnsyncedRenameOpens
    PROVE  Spec => []CommittedSurvives
<1>1. IInv => CommittedSurvives
  BY CommittedKept DEF IInv, LineageInv
<1> QED
  BY <1>1, FileLogInvariantHolds, PTL

\* A commit record that a reclamation removed is that of a transaction whose
\* coordinator a later restart has superseded.
ReclaimedSuperseded == \A by \in Epochs : by \in reclaimed => Superseded(by)

\* Once a coordinator has an epoch, the epoch is never again one to be issued.
LEMMA StaysIssued ==
    ASSUME BaseInv, [Next]_vars, NEW e \in Epochs, lifecycle[e] # "NotIssued"
    PROVE  lifecycle'[e] # "NotIssued"
<1>1. lifecycle \in [Epochs -> Lifecycles]
  BY BaseParts DEF ClientTypes
<1>2. ASSUME NEW by, NEW status, status # "NotIssued", Now(by, status)
      PROVE  lifecycle'[e] # "NotIssued"
  BY <1>1, <1>2 DEF Now
<1>3. ASSUME lifecycle' = lifecycle
      PROVE  lifecycle'[e] # "NotIssued"
  BY <1>3
<1>4. ASSUME NEW by \in Epochs, StagePage(by)
      PROVE  lifecycle'[e] # "NotIssued"
  BY <1>2, <1>3, <1>4 DEF StagePage
<1>5. ASSUME NEW by \in Epochs, Commit(by)
      PROVE  lifecycle'[e] # "NotIssued"
  BY <1>2, <1>5 DEF Commit, CommitAppends
<1>6. ASSUME NEW by \in Epochs, Resolve(by)
      PROVE  lifecycle'[e] # "NotIssued"
  <2>1. PICK found \in LookupDurableCommit(by) :
           Now(by, IF found = {} THEN "NoDurableCommitRecord" ELSE "Committed")
    BY <1>6 DEF Resolve
  <2> QED
    BY <1>2, <2>1
<1>7. CASE AllocateEpoch
  BY <1>2, <1>3, <1>7 DEF AllocateEpoch
<1>8. CASE PowerLoss
  BY <1>8 DEF PowerLoss, Undecided
<1>9. CASE \/ AppendRawPage \/ \E i \in 1 .. Len(records) : FlushThrough(i)
           \/ \E start \in 1 .. durableLen + 1 : Reclaim(start)
           \/ Drop \/ Open \/ OpenFails \/ SyncSharedDirectory \/ UNCHANGED vars
  <2>1. lifecycle' = lifecycle
    BY <1>9 DEF AppendRawPage, FlushThrough, Reclaim, Drop, Open, OpenFails,
                SyncSharedDirectory, vars, client
  <2> QED
    BY <1>3, <2>1
<1> QED
  BY <1>4, <1>5, <1>6, <1>7, <1>8, <1>9 DEF Next

\* The owner of a commit record has an epoch that the adapter has allocated.
LEMMA OwnerIssued ==
    ASSUME BaseInv, Usable, NEW by \in Nat, CommitFrames(selected.frames, by) # {}
    PROVE  by < nextEpoch
<1> DEFINE f == selected
<1>1. /\ SoundFile(f) /\ Appendable(f) /\ MemoryKnows
  BY Ready
<1>2. /\ f \in Files /\ f.frames \in Seq(Frames) /\ Sound(f, f.frames)
      /\ nextEpoch = AllocatedEpoch(f, f.frames) + 1
  BY <1>1, AppendableReads DEF SoundFile, FileSound, Files, MemoryKnows
<1>3. PICK i \in Of(f.frames, "Record") :
         f.frames[i].record.kind = "Commit" /\ f.frames[i].record.by = by
  BY DEF CommitFrames
<1>4. by <= f.epoch + Cardinality(Before(Of(f.frames, "EpochAllocation"), i))
  BY <1>2, <1>3 DEF Sound, OwnersAllocated
<1>5. /\ AllocatedEpoch(f, f.frames) \in Nat /\ f.epoch \in Nat
      /\ Cardinality(Before(Of(f.frames, "EpochAllocation"), i)) \in Nat
      /\ f.epoch + Cardinality(Before(Of(f.frames, "EpochAllocation"), i))
           <= AllocatedEpoch(f, f.frames)
  BY <1>2, FrameNumbers DEF Files
<1> QED
  BY <1>2, <1>4, <1>5

\* A reclamation removes records of superseded coordinators only: the one that
\* the restart opened owns the newest epoch and has no record yet.
LEMMA ReclaimSupersedes ==
    ASSUME BaseInv, ReclaimedSuperseded, NEW start \in 1 .. durableLen + 1, Reclaim(start)
    PROVE  ReclaimedSuperseded'
<1>1. /\ Usable /\ Permitted /\ Reclaimable(start, Replacement(start)) /\ lifecycle' = lifecycle
      /\ reclaimed' \subseteq reclaimed \cup Gone(start)
  BY ReclaimStep DEF ReclaimOutcome, Reclaim
<1>2. PICK newest \in Epochs :
         /\ nextEpoch = newest + 1 /\ lifecycle[newest] = "Active"
         /\ \A i \in DOMAIN records : records[i].by # newest
  BY <1>1 DEF Permitted
<1>3. durableLen \in Nat /\ Len(records) = durableLen /\ records \in Seq(LogRecords)
  BY <1>1, Ready DEF Reclaimable, MemoryTypes
<1>4. ASSUME NEW by \in Epochs, by \in Gone(start)
      PROVE  Superseded(by)
  <2>1. by < nextEpoch
    BY <1>1, <1>4, OwnerIssued DEF Reclaimable, Epochs
  <2>2. PICK j \in 1 .. start - 1 : records[j].by = by
    BY <1>4 DEF Gone
  <2>3. by # newest
    BY <1>2, <1>3, <2>2
  <2>4. by < newest
    BY <1>2, <2>1, <2>3 DEF Epochs
  <2> QED
    BY <1>2, <2>4 DEF Superseded
<1> QED
  BY <1>1, <1>4 DEF ReclaimedSuperseded, Superseded

\* Only coordinators that a later one has superseded lose commit records to a
\* reclamation, whatever is interrupted, lost or opened again.
THEOREM ReclaimedAreSuperseded == Spec => []ReclaimedSuperseded
<1>1. Init => ReclaimedSuperseded
  BY DEF Init, ReclaimedSuperseded
<1>2. BaseInv /\ ReclaimedSuperseded /\ [Next]_vars => ReclaimedSuperseded'
  <2>1. SUFFICES ASSUME BaseInv, ReclaimedSuperseded, [Next]_vars
                 PROVE  ReclaimedSuperseded'
    OBVIOUS
  <2>2. ASSUME NEW start \in 1 .. durableLen + 1, Reclaim(start)
        PROVE  ReclaimedSuperseded'
    BY <2>1, <2>2, ReclaimSupersedes
  <2>3. CASE ~\E start \in 1 .. durableLen + 1 : Reclaim(start)
    <3>1. reclaimed' = reclaimed
      BY <2>1, <2>3 DEF Next, AppendRawPage, StagePage, Commit, Resolve, AllocateEpoch,
                        FlushThrough, Drop, PowerLoss, Open, OpenFails, SyncSharedDirectory,
                        vars, client
    <3>2. \A e \in Epochs : lifecycle[e] # "NotIssued" => lifecycle'[e] # "NotIssued"
      BY <2>1, StaysIssued
    <3> QED
      BY <2>1, <3>1, <3>2 DEF ReclaimedSuperseded, Superseded
  <2> QED
    BY <2>2, <2>3
<1> QED
  BY <1>1, <1>2, BaseInvariant, PTL DEF Spec

\* VerdictsStand of FileLogProperties: what commit and lookup_durable_commit
\* told a caller of a transaction is not overturned by interrupted calls,
\* reopening, reclamations and power losses, in any file that the path may name,
\* provided that renames are made permanent before an open. Nothing is assumed
\* of commits that are still unresolved at a reclamation: an answer of absence
\* that leaves out a reclaimed record goes to a superseded coordinator only.
THEOREM VerdictsAlwaysStand ==
    ASSUME ~UnsyncedRenameOpens
    PROVE  Spec => []VerdictsStand
<1>1. IInv /\ ReclaimedSuperseded => VerdictsStand
  <2>1. SUFFICES ASSUME IInv, ReclaimedSuperseded
                 PROVE  VerdictsStand
    OBVIOUS
  <2>2. BaseInv /\ VerdictInv
    BY <2>1 DEF IInv, LineageInv
  <2>3. /\ \A file \in Named : SoundFile(file)
        /\ selected \in Named /\ Named = {selected} \cup former
    BY <2>2, BaseParts DEF FilesFine, Named
  <2>4. CommittedSurvives
    BY <2>2, CommittedKept
  <2>5. ASSUME NEW by \in Epochs, lifecycle[by] = "NoDurableCommitRecord"
        PROVE  \A file \in Named : CommitsIn(Records(CompleteFrames(file)), by) = {}
    <3>1. \A file \in Named : CommitFrames(file.frames, by) = {}
      BY <2>2, <2>5 DEF VerdictInv, Uncommitted
    <3> QED
      BY <2>3, <3>1, NoCommitRead
  <2>6. \A by \in Epochs : by \in reclaimed => Superseded(by)
    BY <2>1 DEF ReclaimedSuperseded
  <2> QED
    BY <2>3, <2>4, <2>5, <2>6 DEF VerdictsStand
<1> QED
  BY <1>1, FileLogInvariantHolds, ReclaimedAreSuperseded, PTL

----------------------------------------------------------------------------
(* The file as a log                                                        *)

\* Two sequences with the same records are the same.
LEMMA SameRecords ==
    ASSUME NEW s \in Seq(LogRecords), NEW t \in Seq(LogRecords), Len(s) = Len(t),
           \A i \in 1 .. Len(s) : s[i] = t[i]
    PROVE  s = t
OBVIOUS

\* The durable part and the volatile part of a log are its beginning and its
\* end.
LEMMA Splits ==
    ASSUME NEW s \in Seq(LogRecords), NEW n \in 0 .. Len(s)
    PROVE  /\ Split(s, n).durable \in Seq(LogRecords) /\ Len(Split(s, n).durable) = n
           /\ \A i \in 1 .. n : Split(s, n).durable[i] = s[i]
           /\ Split(s, n).volatile \in Seq(LogRecords) /\ Len(Split(s, n).volatile) = Len(s) - n
           /\ \A i \in 1 .. Len(s) - n : Split(s, n).volatile[i] = s[n + i]
           /\ Split(s, n).durable \o Split(s, n).volatile = s
<1>1. Len(s) \in Nat /\ n \in Nat
  OBVIOUS
<1> DEFINE a == SubSeq(s, 1, n)  b == SubSeq(s, n + 1, Len(s))
<1>2. a \in Seq(LogRecords) /\ Len(a) = n /\ \A i \in 1 .. n : a[i] = s[i]
  BY <1>1
<1>3. b \in Seq(LogRecords) /\ Len(b) = Len(s) - n /\ \A i \in 1 .. Len(s) - n : b[i] = s[n + i]
  BY <1>1
<1>4. Split(s, n).durable = a /\ Split(s, n).volatile = b
  BY DEF Split
<1> HIDE DEF a, b
<1>5. a \o b = s
  <2>1. a \o b \in Seq(LogRecords) /\ Len(a \o b) = Len(s)
    BY <1>1, <1>2, <1>3
  <2>2. ASSUME NEW i \in 1 .. Len(s)
        PROVE  (a \o b)[i] = s[i]
    <3>1. CASE i <= n
      <4>1. (a \o b)[i] = a[i] /\ i \in 1 .. n
        BY <1>1, <1>2, <1>3, <3>1
      <4> QED
        BY <1>2, <4>1
    <3>2. CASE i > n
      <4>1. (a \o b)[i] = b[i - n] /\ i - n \in 1 .. Len(s) - n
        BY <1>1, <1>2, <1>3, <3>2
      <4>2. b[i - n] = s[n + (i - n)]
        BY <1>3, <4>1
      <4> QED
        BY <1>1, <4>1, <4>2
    <3>3. i <= n \/ i > n
      BY <1>1
    <3> QED
      BY <3>1, <3>2, <3>3
  <2>3. /\ a \o b \in Seq(LogRecords) /\ Len(a \o b) = Len(s)
        /\ \A i \in 1 .. Len(a \o b) : (a \o b)[i] = s[i]
    BY <2>1, <2>2
  <2> HIDE DEF a, b
  <2> DEFINE c == a \o b
  <2>4. c \in Seq(LogRecords) /\ Len(c) = Len(s) /\ \A i \in 1 .. Len(c) : c[i] = s[i]
    BY <2>3
  <2> HIDE DEF c
  <2>5. c = s
    BY <2>4, SameRecords
  <2> QED
    BY <2>5 DEF c
<1> QED
  BY <1>2, <1>3, <1>4, <1>5

\* A sequence that begins another is a prefix of it.
LEMMA PrefixIs ==
    ASSUME NEW s \in Seq(LogRecords), NEW t \in Seq(LogRecords), Len(s) <= Len(t),
           \A i \in 1 .. Len(s) : s[i] = t[i]
    PROVE  AsDurableLog!IsPrefix(s, t)
BY DEF AsDurableLog!IsPrefix

\* The records of a file that was read, and how many of them are there for good.
LEMMA FileContent ==
    ASSUME NEW f, SoundFile(f)
    PROVE  /\ Records(Readable(f)) \in Seq(LogRecords)
           /\ DurableLen(f, Sure(f)) \in 0 .. Len(Records(Readable(f)))
           /\ ContentOf(f) = Split(Records(Readable(f)), DurableLen(f, Sure(f)))
<1>1. /\ f \in Files /\ TornIsLast(f.frames) /\ Sound(f, Readable(f))
  BY DEF SoundFile, FileSound
<1>2. /\ Readable(f) \in Seq(Frames) /\ Sure(f) \in Seq(Frames)
      /\ Alike(Sure(f), Readable(f), Len(Sure(f)))
  BY <1>1, FileReads, SureReads
<1>3. /\ Records(Readable(f)) \in Seq(LogRecords)
      /\ DurableLen(f, Readable(f)) \in 0 .. Len(Records(Readable(f)))
      /\ DurableLen(f, Sure(f)) <= DurableLen(f, Readable(f))
      /\ Sound(f, Sure(f))
  BY <1>1, <1>2, RecordsRead, DurableCount, PrefixNumbers
<1>4. DurableLen(f, Sure(f)) \in 0 .. Len(Records(Sure(f)))
  BY CommittedRecord
<1> QED
  BY <1>3, <1>4 DEF ContentOf

\* A file that keeps another has settled some of its volatile records, and lost
\* an end of them.
LEMMA KeepsSettles ==
    ASSUME NEW f, NEW g, SoundFile(f), Keeps(f, g)
    PROVE  AsDurableLog!Settle(ContentOf(f), ContentOf(g))
<1> DEFINE s == Records(Readable(f))  m == DurableLen(f, Sure(f))
           t == Records(Readable(g))  n == DurableLen(g, Sure(g))
<1>1. /\ s \in Seq(LogRecords) /\ m \in 0 .. Len(s) /\ ContentOf(f) = Split(s, m)
  BY FileContent
<1>2. /\ t \in Seq(LogRecords) /\ n \in 0 .. Len(t) /\ ContentOf(g) = Split(t, n)
  BY FileContent DEF Keeps
<1>3. m <= n /\ Len(t) <= Len(s) /\ \A i \in 1 .. Len(t) : t[i] = s[i]
  BY DEF Keeps
<1> HIDE DEF s, m, t, n
<1> DEFINE a == ContentOf(f)  b == ContentOf(g)
<1>4. /\ a.durable \in Seq(LogRecords) /\ Len(a.durable) = m
      /\ \A i \in 1 .. m : a.durable[i] = s[i]
      /\ a.durable \o a.volatile = s
  BY <1>1, Splits
<1>5. /\ b.durable \in Seq(LogRecords) /\ Len(b.durable) = n
      /\ \A i \in 1 .. n : b.durable[i] = t[i]
      /\ b.durable \o b.volatile = t
  BY <1>2, Splits
<1> HIDE DEF a, b
<1>6. AsDurableLog!IsPrefix(a.durable, b.durable)
  <2>1. \A i \in 1 .. m : i \in 1 .. n /\ i \in 1 .. Len(t)
    BY <1>1, <1>2, <1>3
  <2>2. \A i \in 1 .. Len(a.durable) : a.durable[i] = b.durable[i]
    BY <1>3, <1>4, <1>5, <2>1
  <2> QED
    BY <1>3, <1>4, <1>5, <2>2, PrefixIs
<1>7. AsDurableLog!IsPrefix(t, s)
  BY <1>1, <1>2, <1>3, PrefixIs
<1> QED
  BY <1>4, <1>5, <1>6, <1>7 DEF AsDurableLog!Settle, a, b

\* A file that holds one record more.
LEMMA AddsAppends ==
    ASSUME NEW f, NEW g, Appendable(f), SoundFile(g), Adds(f, g)
    PROVE  \/ AsDurableLog!AppendRecord(ContentOf(f), ContentOf(g))
           \/ AsDurableLog!AppendDurably(ContentOf(f), ContentOf(g))
<1> DEFINE s == Records(Readable(f))  m == DurableLen(f, Sure(f))
           t == Records(Readable(g))  n == DurableLen(g, Sure(g))
<1>1. /\ s \in Seq(LogRecords) /\ m \in 0 .. Len(s) /\ ContentOf(f) = Split(s, m)
      /\ s = Records(f.frames)
  BY FileContent, AppendableReads DEF Appendable
<1>2. /\ t \in Seq(LogRecords) /\ n \in 0 .. Len(t) /\ ContentOf(g) = Split(t, n)
  BY FileContent
<1>3. PICK r \in LogRecords : t = Append(s, r)
  BY <1>1 DEF Adds
<1>4. n = m \/ n = Len(s) + 1
  BY <1>1 DEF Adds
<1> HIDE DEF s, m, t, n
<1>5. Len(t) = Len(s) + 1 /\ Len(s) \in Nat /\ \A i \in 1 .. Len(s) : t[i] = s[i]
  BY <1>1, <1>3
<1> DEFINE a == ContentOf(f)  b == ContentOf(g)
<1>10. s \in Seq(LogRecords) /\ m \in 0 .. Len(s) /\ a = Split(s, m)
  BY <1>1
<1> HIDE DEF a, b
<1>6. /\ a.durable \in Seq(LogRecords) /\ Len(a.durable) = m
      /\ \A i \in 1 .. m : a.durable[i] = s[i]
      /\ a.volatile \in Seq(LogRecords) /\ Len(a.volatile) = Len(s) - m
      /\ \A i \in 1 .. Len(s) - m : a.volatile[i] = s[m + i]
      /\ a.durable \o a.volatile = s
  BY <1>10, Splits
<1>11. t \in Seq(LogRecords) /\ n \in 0 .. Len(t) /\ b = Split(t, n)
  BY <1>2 DEF b
<1>7. /\ b.durable \in Seq(LogRecords) /\ Len(b.durable) = n
      /\ \A i \in 1 .. n : b.durable[i] = t[i]
      /\ b.volatile \in Seq(LogRecords) /\ Len(b.volatile) = Len(t) - n
      /\ \A i \in 1 .. Len(t) - n : b.volatile[i] = t[n + i]
      /\ b.durable \o b.volatile = t
  BY <1>11, Splits
<1>8. CASE n = m
  <2>1. b.durable = a.durable
    <3>1. \A i \in 1 .. m : i \in 1 .. Len(s)
      BY <1>1, <1>5
    <3>2. \A i \in 1 .. m : b.durable[i] = a.durable[i]
      BY <1>5, <1>6, <1>7, <1>8, <3>1
    <3>3. /\ b.durable \in Seq(LogRecords) /\ a.durable \in Seq(LogRecords)
          /\ Len(b.durable) = Len(a.durable)
          /\ \A i \in 1 .. Len(b.durable) : b.durable[i] = a.durable[i]
      BY <1>6, <1>7, <1>8, <3>2
    <3> QED
      BY <3>3, SameRecords
  <2>2. Len(b.volatile) = Len(a.volatile) + 1
    BY <1>1, <1>5, <1>6, <1>7, <1>8
  <2>3. AsDurableLog!IsPrefix(a.volatile, b.volatile)
    <3>1. ASSUME NEW i \in 1 .. Len(a.volatile)
          PROVE  a.volatile[i] = b.volatile[i]
      <4>1. i \in 1 .. Len(s) - m /\ i \in 1 .. Len(t) - n /\ m + i \in 1 .. Len(s) /\ n + i = m + i
        BY <1>1, <1>5, <1>6, <1>8
      <4>2. a.volatile[i] = s[m + i] /\ b.volatile[i] = t[n + i] /\ t[m + i] = s[m + i]
        BY <1>5, <1>6, <1>7, <4>1
      <4> QED
        BY <4>1, <4>2
    <3>2. Len(a.volatile) <= Len(b.volatile)
      BY <1>6, <2>2
    <3> QED
      BY <1>6, <1>7, <3>1, <3>2, PrefixIs
  <2> QED
    BY <2>1, <2>2, <2>3 DEF AsDurableLog!AppendRecord, a, b
<1>9. CASE n = Len(s) + 1
  <2>1. Len(b.volatile) = 0
    BY <1>5, <1>7, <1>9
  <2>2. b.volatile = <<>>
    BY <1>7, <2>1
  <2>3. ASSUME NEW i \in 1 .. Len(s)
        PROVE  s[i] = b.durable[i]
    <3>1. i \in 1 .. n
      BY <1>5, <1>9
    <3> QED
      BY <1>5, <1>7, <3>1
  <2>5. Len(b.durable) = Len(s) + 1 /\ b.durable \in Seq(LogRecords) /\ Len(s) <= Len(b.durable)
    BY <1>5, <1>7, <1>9
  <2>4. AsDurableLog!IsPrefix(s, b.durable)
    BY <1>10, <2>3, <2>5, PrefixIs
  <2> QED
    BY <1>6, <1>7, <1>9, <2>2, <2>4 DEF AsDurableLog!AppendDurably, a, b
<1> QED
  BY <1>4, <1>8, <1>9

\* The operand of Contents, for any file.
Candidates(p) ==
    UNION UNION {{{
        Split(all, sure) : all \in {Records(frames)}, sure \in {DurableLen(file, SureFrames(file, frames))}}
            : frames \in {Readable(file)}}
            : file \in {p}}

\* One file has one content.
LEMMA OneCandidate ==
    ASSUME NEW p
    PROVE  Candidates(p) = {ContentOf(p)}
<1> DEFINE In(file, frames) == {Split(all, sure) : all \in {Records(frames)},
                                                   sure \in {DurableLen(file, SureFrames(file, frames))}}
           Of2(file) == {In(file, frames) : frames \in {Readable(file)}}
<1>1. In(p, Readable(p)) = {ContentOf(p)}
  BY DEF ContentOf, Sure
<1>2. Of2(p) = {In(p, Readable(p))}
  OBVIOUS
<1> HIDE DEF In
<1>3. {Of2(file) : file \in {p}} = {Of2(p)}
  OBVIOUS
<1>4. Candidates(p) = UNION UNION {Of2(file) : file \in {p}}
  BY DEF Candidates, In
<1> HIDE DEF Of2
<1>5. UNION UNION {Of2(p)} = UNION Of2(p)
  OBVIOUS
<1>6. UNION Of2(p) = In(p, Readable(p))
  BY <1>2
<1> QED
  BY <1>1, <1>3, <1>4, <1>5, <1>6

\* The log of the abstract specification is the content of the file that the
\* disk certainly names.
LEMMA ContentsIs ==
    /\ Contents = ContentOf(Permanent)
    /\ Contents' = ContentOf(Permanent')
<1>1. Contents = CHOOSE c \in Candidates(Permanent) : TRUE
  BY DEF Contents, Candidates
<1>2. Contents' = CHOOSE c \in Candidates(Permanent') : TRUE
  BY DEF Contents, Candidates
<1>3. Candidates(Permanent) = {ContentOf(Permanent)} /\ Candidates(Permanent') = {ContentOf(Permanent')}
  BY OneCandidate
<1> QED
  BY <1>1, <1>2, <1>3

\* The file that the disk certainly names: the selected one, or the one before
\* a pending rename.
LEMMA PermanentIs ==
    /\ former = {} => Permanent = selected
    /\ former' = {} => Permanent' = selected'
    /\ \A old : (former = {old} => Permanent = old) /\ (former' = {old} => Permanent' = old)
BY DEF Permanent

\* A step of the log that the file shows.
LogMoves(old, new) ==
    \/ AsDurableLog!Settle(old, new)
    \/ AsDurableLog!AppendRecord(old, new)
    \/ AsDurableLog!AppendDurably(old, new)
    \/ AsDurableLog!Reclaim(old, new)

Moves == LogMoves(Contents, Contents') \/ Contents' = Contents

\* A step that changes no file is a stutter of the log.
LEMMA StaysPut ==
    ASSUME selected' = selected, former' = former
    PROVE  Moves
<1>1. Permanent' = Permanent
  BY DEF Permanent
<1> QED
  BY <1>1, ContentsIs DEF Moves

\* A step of the only file that the path may name.
LEMMA OneFileMoves ==
    ASSUME former = {}, former' = {}, LogMoves(ContentOf(selected), ContentOf(selected'))
    PROVE  Moves
BY PermanentIs, ContentsIs DEF Moves

\* A step that keeps the only file settles the log.
LEMMA KeepsMoves ==
    ASSUME former = {}, former' = {}, SoundFile(selected), Keeps(selected, selected')
    PROVE  Moves
BY KeepsSettles, OneFileMoves DEF LogMoves

\* A step that adds a record to the only file appends it to the log.
LEMMA AddsMoves ==
    ASSUME former = {}, former' = {}, Appendable(selected), SoundFile(selected'),
           Adds(selected, selected')
    PROVE  Moves
BY AddsAppends, OneFileMoves DEF LogMoves

\* A call of the adapter.
LEMMA CallMoves ==
    ASSUME BaseInv, ~UnsyncedRenameOpens, former' = former,
           \/ Usable /\ (Keeps(selected, selected') \/ (Adds(selected, selected') /\ SoundFile(selected')))
           \/ selected' = selected
    PROVE  Moves
<1>1. CASE Usable /\ (Keeps(selected, selected') \/ (Adds(selected, selected') /\ SoundFile(selected')))
  <2>1. former = {} /\ Appendable(selected) /\ SoundFile(selected)
    BY <1>1, OneFile, Ready
  <2>2. former' = {}
    BY <2>1
  <2> QED
    BY <1>1, <2>1, <2>2, KeepsMoves, AddsMoves
<1>2. CASE selected' = selected
  BY <1>2, StaysPut
<1> QED
  BY <1>1, <1>2

\* A page record that is written is one more in the file.
LEMMA PageAdds ==
    ASSUME BaseInv, NEW r, Usable, NextRecord(selected, r), Appended(r)
    PROVE  Adds(selected, selected') /\ SoundFile(selected')
<1>1. Appendable(selected)
  BY Ready
<1>2. selected' = Extended(selected, FramesOf(r))
  BY DEF Appended
<1>3. RecordAdded(selected, r, selected')
  BY <1>1, <1>2, RecordWritten
<1>4. Appendable(selected')
  BY Appends
<1> QED
  BY <1>1, <1>3, <1>4, AddedAdds DEF Appendable

\* An append that succeeds adds a record, and one that fails settles the log at
\* most.
LEMMA AppendMoves ==
    ASSUME BaseInv, ~UnsyncedRenameOpens, former' = former, NEW r,
           Usable => NextRecord(selected, r), Appended(r) \/ AppendFailed(r)
    PROVE  Moves
<1>1. CASE Appended(r)
  <2>1. Usable
    BY <1>1 DEF Appended
  <2> QED
    BY <1>1, <2>1, PageAdds, CallMoves
<1>2. CASE AppendFailed(r)
  BY <1>2, FailedFollows, CallMoves
<1> QED
  BY <1>1, <1>2

\* The appends of pages.
LEMMA PageMoves ==
    ASSUME BaseInv, ~UnsyncedRenameOpens,
           AppendRawPage \/ \E by \in Epochs : StagePage(by)
    PROVE  Moves
<1>1. CASE AppendRawPage
  <2> DEFINE r == [kind |-> "Page", at |-> nextPosition, by |-> 0]
  <2>1. /\ Appended(r) \/ AppendInterrupted(r)
        /\ former' = former
    BY <1>1 DEF AppendRawPage
  <2>2. Usable => NextRecord(selected, r)
    BY NextRecordIs
  <2> HIDE DEF r
  <2>3. Appended(r) \/ AppendFailed(r)
    BY <2>1 DEF AppendFailed
  <2> QED
    BY <2>1, <2>2, <2>3, AppendMoves
<1>2. ASSUME NEW by \in Epochs, StagePage(by)
      PROVE  Moves
  <2> DEFINE r == [kind |-> "Page", at |-> nextPosition, by |-> by]
  <2>1. /\ lifecycle[by] = "Active" /\ (Appended(r) \/ AppendFailed(r)) /\ former' = former
    BY <1>2 DEF StagePage
  <2>2. Usable => NextRecord(selected, r)
    <3>1. by \in Nat
      BY DEF Epochs
    <3> QED
      BY <2>1, <3>1, NextRecordIs
  <2> HIDE DEF r
  <2> QED
    BY <2>1, <2>2, AppendMoves
<1> QED
  BY <1>1, <1>2

\* A commit appends a record, perhaps durably, or settles the log.
LEMMA CommitMoves ==
    ASSUME BaseInv, ~UnsyncedRenameOpens, NEW by \in Epochs, Commit(by)
    PROVE  Moves
<1>1. /\ CommitOutcome(by)
      /\ \/ Usable /\ (Adds(selected, selected') \/ Keeps(selected, selected'))
         \/ selected' = selected
  BY CommitStep
<1>2. former' = former /\ SoundFile(selected')
  BY <1>1 DEF CommitOutcome, FollowsBut
<1> QED
  BY <1>1, <1>2, CallMoves

\* A reclamation takes records from the front once its rename is permanent.
LEMMA ReclaimMoves ==
    ASSUME BaseInv, ~UnsyncedRenameOpens, NEW start \in 1 .. durableLen + 1, Reclaim(start)
    PROVE  Moves
<1>1. /\ Usable /\ Reclaimable(start, Replacement(start))
      /\ \/ selected' = selected /\ former' \subseteq former
         \/ selected' = Replacement(start) /\ former' \subseteq former \cup {selected}
  BY ReclaimStep DEF ReclaimOutcome
<1>2. former = {}
  BY <1>1, OneFile
<1>3. CASE selected' = selected /\ former' \subseteq former
  <2>1. former' = former
    BY <1>2, <1>3
  <2> QED
    BY <1>3, <2>1, StaysPut
<1>4. CASE selected' = Replacement(start) /\ former' \subseteq {selected}
  <2>1. CASE former' = {selected}
    <3>1. Permanent = selected /\ Permanent' = selected
      BY <1>2, <2>1, PermanentIs
    <3> QED
      BY <3>1, ContentsIs DEF Moves
  <2>2. CASE former' = {}
    <3>1. AsDurableLog!Reclaim(ContentOf(selected), ContentOf(selected'))
      <4>1. /\ ContentOf(selected).volatile = <<>> /\ ContentOf(selected').volatile = <<>>
            /\ AsDurableLog!IsSuffix(ContentOf(selected').durable, ContentOf(selected).durable)
        BY <1>1, <1>4, ReclaimedContent
      <4> QED
        BY <4>1 DEF AsDurableLog!Reclaim
    <3> QED
      BY <1>2, <2>2, <3>1, OneFileMoves DEF LogMoves
  <2> QED
    BY <1>4, <2>1, <2>2
<1> QED
  BY <1>1, <1>2, <1>3, <1>4

\* A file whose records are all there for good stays what it is.
LEMMA WholeStays ==
    ASSUME NEW f, NEW g, SoundFile(f), Keeps(f, g), ContentOf(f).volatile = <<>>
    PROVE  ContentOf(g) = ContentOf(f)
<1> DEFINE s == Records(Readable(f))  m == DurableLen(f, Sure(f))
           t == Records(Readable(g))  n == DurableLen(g, Sure(g))
<1>1. /\ s \in Seq(LogRecords) /\ m \in 0 .. Len(s) /\ ContentOf(f) = Split(s, m)
  BY FileContent
<1>2. /\ t \in Seq(LogRecords) /\ n \in 0 .. Len(t) /\ ContentOf(g) = Split(t, n)
  BY FileContent DEF Keeps
<1>3. m <= n /\ Len(t) <= Len(s) /\ \A i \in 1 .. Len(t) : t[i] = s[i]
  BY DEF Keeps
<1> HIDE DEF s, m, t, n
<1>4. Len(Split(s, m).volatile) = Len(s) - m
  BY <1>1, Splits
<1>5. Len(s) = m
  <2>1. Len(Split(s, m).volatile) = 0
    BY <1>1
  <2> QED
    BY <1>1, <1>4, <2>1
<1>6. n = m /\ Len(t) = Len(s)
  BY <1>1, <1>2, <1>3, <1>5
<1>7. t = s
  BY <1>1, <1>2, <1>3, <1>6, SameRecords
<1> QED
  BY <1>1, <1>2, <1>6, <1>7

\* The directory entry of a renamed file becomes permanent.
LEMMA RenameMoves ==
    ASSUME FormerInv, NEW old \in former, former' = {},
           ContentOf(selected') = ContentOf(selected)
    PROVE  Moves
<1>1. /\ former = {old}
      /\ ContentOf(old).volatile = <<>> /\ ContentOf(selected).volatile = <<>>
      /\ AsDurableLog!IsSuffix(ContentOf(selected).durable, ContentOf(old).durable)
  BY DEF FormerInv
<1>2. Permanent = old /\ Permanent' = selected'
  BY <1>1, PermanentIs
<1>3. AsDurableLog!Reclaim(ContentOf(old), ContentOf(selected))
  BY <1>1 DEF AsDurableLog!Reclaim
<1> QED
  BY <1>2, <1>3, ContentsIs DEF Moves, LogMoves

\* A power loss settles the log, or makes a pending rename permanent.
LEMMA PowerLossMoves ==
    ASSUME BaseInv, FormerInv, PowerLoss
    PROVE  Moves
<1>1. PICK file \in {selected} \cup former : selected' \in AfterPowerLoss(file)
  BY DEF PowerLoss
<1>2. former' = {} /\ ~opened
  BY DEF PowerLoss
<1>3. SoundFile(selected) /\ \A old \in former : SoundFile(old)
  BY <1>2, WhenClosed DEF FilesFine
<1>4. SoundFile(file)
  BY <1>3
<1>5. Keeps(file, selected')
  BY <1>1, <1>4, PowerLossKeeps
<1>6. CASE former = {}
  <2>1. file = selected
    BY <1>6
  <2> QED
    BY <1>2, <1>3, <1>5, <1>6, <2>1, KeepsMoves
<1>7. ASSUME NEW old \in former
      PROVE  Moves
  <2>1. former = {old} /\ ContentOf(selected).volatile = <<>>
    BY <1>7 DEF FormerInv
  <2>2. CASE file = selected
    <3>1. ContentOf(selected') = ContentOf(selected)
      BY <1>3, <1>5, <2>1, <2>2, WholeStays
    <3> QED
      BY <1>2, <3>1, RenameMoves
  <2>3. CASE file = old
    <3>1. Permanent = old /\ Permanent' = selected'
      BY <1>2, <2>1, PermanentIs
    <3>2. AsDurableLog!Settle(ContentOf(old), ContentOf(selected'))
      BY <1>4, <1>5, <2>3, KeepsSettles
    <3> QED
      BY <3>1, <3>2, ContentsIs DEF Moves, LogMoves
  <2> QED
    BY <2>1, <2>2, <2>3
<1> QED
  BY <1>6, <1>7

\* An open, or one that fails, settles the log.
LEMMA OpenMoves ==
    ASSUME BaseInv, ~UnsyncedRenameOpens, Open \/ OpenFails
    PROVE  Moves
<1>1. former = {} /\ former' = {} /\ ~opened
  BY DEF Open, OpenFails, FormerAfterCleanup
<1>2. SoundFile(selected)
  BY <1>1, WhenClosed
<1>3. Keeps(selected, selected')
  <2>1. CASE Open
    <3>1. Accepted(Synced(selected)) /\ selected' = Repaired(Synced(selected))
      BY <2>1 DEF Open
    <3> QED
      BY <1>1, <3>1, AcceptedWhole
  <2>2. CASE OpenFails
    BY <2>2, OpenFailsKeeps
  <2> QED
    BY <2>1, <2>2
<1> QED
  BY <1>1, <1>2, <1>3, KeepsMoves

\* A pending rename becomes permanent, which reclaims what it left out.
LEMMA SyncSharedDirectoryMoves ==
    ASSUME FormerInv, SyncSharedDirectory
    PROVE  Moves
<1>1. former # {} /\ former' = {} /\ selected' = selected
  BY DEF SyncSharedDirectory
<1>2. PICK old : old \in former
  BY <1>1
<1> QED
  BY <1>1, <1>2, RenameMoves

\* Every step of the file is a step of the log, or a stutter.
LEMMA StepMoves ==
    ASSUME BaseInv, ~UnsyncedRenameOpens, FormerInv, [Next]_vars
    PROVE  Moves
<1>1. CASE AppendRawPage \/ \E by \in Epochs : StagePage(by)
  BY <1>1, PageMoves
<1>2. ASSUME NEW by \in Epochs, Commit(by)
      PROVE  Moves
  BY <1>2, CommitMoves
<1>3. ASSUME NEW by \in Epochs, Resolve(by)
      PROVE  Moves
  BY <1>3, StaysPut DEF Resolve
<1>4. CASE AllocateEpoch
  <2>1. Usable /\ former' = former
    BY <1>4 DEF AllocateEpoch
  <2> QED
    BY <1>4, <2>1, AllocateEpochStep, CallMoves
<1>5. ASSUME NEW i \in 1 .. Len(records), FlushThrough(i)
      PROVE  Moves
  <2>1. Usable /\ former' = former
    BY <1>5 DEF FlushThrough
  <2> QED
    BY <1>5, <2>1, FlushThroughStep, CallMoves
<1>6. ASSUME NEW start \in 1 .. durableLen + 1, Reclaim(start)
      PROVE  Moves
  BY <1>6, ReclaimMoves
<1>7. CASE Drop
  BY <1>7, StaysPut DEF Drop
<1>8. CASE PowerLoss
  BY <1>8, PowerLossMoves
<1>9. CASE Open \/ OpenFails
  BY <1>9, OpenMoves
<1>10. CASE SyncSharedDirectory
  BY <1>10, SyncSharedDirectoryMoves
<1>11. CASE UNCHANGED vars
  BY <1>11, StaysPut DEF vars
<1> QED
  BY <1>1, <1>2, <1>3, <1>4, <1>5, <1>6, <1>7, <1>8, <1>9, <1>10, <1>11 DEF Next

\* A new file is an empty log.
LEMMA StartsEmpty ==
    ASSUME Init
    PROVE  AsDurableLog!Init
<1>1. Permanent = EmptyFile
  BY DEF Init, Permanent
<1>2. /\ Appendable(EmptyFile) /\ Records(EmptyFile.frames) = <<>>
      /\ EmptyFile.synced = 0 /\ EmptyFile.frames = <<>>
  BY EmptyLog
<1>3. Readable(EmptyFile) = EmptyFile.frames /\ SoundFile(EmptyFile)
  BY <1>2, AppendableReads DEF Appendable
<1>4. /\ DurableLen(EmptyFile, Sure(EmptyFile)) \in 0 .. Len(Records(Readable(EmptyFile)))
      /\ ContentOf(EmptyFile) = Split(Records(Readable(EmptyFile)), DurableLen(EmptyFile, Sure(EmptyFile)))
  BY <1>3, FileContent
<1>5. Len(Records(Readable(EmptyFile))) = 0
  BY <1>2, <1>3
<1>6. ContentOf(EmptyFile) = Split(<<>>, 0)
  BY <1>2, <1>3, <1>4, <1>5
<1>7. Split(<<>>, 0) = [durable |-> <<>>, volatile |-> <<>>]
  BY DEF Split
<1> QED
  BY <1>1, <1>6, <1>7, ContentsIs DEF AsDurableLog!Init

\* ImplementsDurableLog of FileLogProperties: through partial writes, poison,
\* repairs, replacements and power losses the file is a log in the sense of
\* DurableLog, provided that renames are made permanent before an open.
THEOREM ImplementsLog ==
    ASSUME ~UnsyncedRenameOpens
    PROVE  Spec => ImplementsDurableLog
<1>1. Init => AsDurableLog!Init
  BY StartsEmpty
<1>2. IInv /\ [Next]_vars => [AsDurableLog!Next]_Contents
  <2>1. SUFFICES ASSUME IInv, [Next]_vars
                 PROVE  [AsDurableLog!Next]_Contents
    OBVIOUS
  <2>2. BaseInv /\ FormerInv
    BY <2>1 DEF IInv, LineageInv
  <2>3. Moves
    BY <2>1, <2>2, StepMoves
  <2> QED
    BY <2>3 DEF Moves, LogMoves, AsDurableLog!Next
<1> QED
  BY <1>1, <1>2, FileLogInvariantHolds, PTL DEF Spec, ImplementsDurableLog, AsDurableLog!Spec
============================================================================
