------------------------ MODULE FilePageStoreSafety ------------------------
(***************************************************************************)
(* Proofs about the file page store, for any pages, sizes of a group,      *)
(* numbers of images and snapshots, and faults: an open store agrees with  *)
(* its file, and the snapshots are written and recovered as PageImages     *)
(* promises.                                                               *)
(***************************************************************************)
EXTENDS FilePageStoreInvariant, ExtremaProofs, SequenceTheorems, FiniteSetTheorems

-------------------------------------------------------------------------------
(* Frames *)

\* A frame is what its kind says.
LEMMA FrameKinds ==
    /\ Torn \in Frames /\ Malformed \in Frames
    /\ Torn.kind = "Torn" /\ Malformed.kind = "Malformed"
    /\ \A frame \in SnapshotFrames :
           /\ frame \in Frames /\ frame.kind = "Snapshot"
           /\ frame.part \in 1 .. GroupFrames /\ frame.sequence \in Nat
           /\ frame.page \in Pages /\ frame.at \in Nat
    /\ \A frame \in Frames :
           \/ frame \in SnapshotFrames
           \/ frame = Torn
           \/ frame = Malformed
  BY DEF Frames, SnapshotFrames, Torn, Malformed

\* The elements of a sequence of frames.
LEMMA FramesElements ==
    ASSUME NEW frames \in Seq(Frames)
    PROVE  /\ Len(frames) \in Nat
           /\ DOMAIN frames = 1 .. Len(frames)
           /\ \A i \in 1 .. Len(frames) : frames[i] \in Frames
  BY LenProperties

\* The first n frames of a file.
LEMMA PrefixElements ==
    ASSUME NEW frames \in Seq(Frames), NEW n \in 0 .. Len(frames)
    PROVE  /\ SubSeq(frames, 1, n) \in Seq(Frames)
           /\ Len(SubSeq(frames, 1, n)) = n
           /\ \A i \in 1 .. n : SubSeq(frames, 1, n)[i] = frames[i]
<1>1. \A i \in 1 .. n : frames[i] \in Frames
  BY FramesElements
<1>2. /\ SubSeq(frames, 1, n) \in Seq(Frames)
      /\ Len(SubSeq(frames, 1, n)) = IF 1 <= n THEN n - 1 + 1 ELSE 0
      /\ \A i \in 1 .. n - 1 + 1 : SubSeq(frames, 1, n)[i] = frames[1 + i - 1]
  BY <1>1, SubSeqProperties
<1> QED
  BY <1>2, FramesElements

\* The file without a torn end.
LEMMA CompleteElements ==
    ASSUME NEW f \in [frames : Seq(Frames), synced : Nat]
    PROVE  /\ \E n \in 0 .. Len(f.frames) : CompleteFrames(f) = SubSeq(f.frames, 1, n)
           /\ CompleteFrames(f) \in Seq(Frames)
           /\ EndsTorn(f.frames) =>
                /\ Len(f.frames) > 0
                /\ CompleteFrames(f) = SubSeq(f.frames, 1, Len(f.frames) - 1)
                /\ Len(CompleteFrames(f)) = Len(f.frames) - 1
                /\ f.frames[Len(f.frames)] = Torn
           /\ ~EndsTorn(f.frames) => CompleteFrames(f) = f.frames
           /\ \A i \in 1 .. Len(CompleteFrames(f)) :
                i <= Len(f.frames) /\ CompleteFrames(f)[i] = f.frames[i]
<1>1. f.frames \in Seq(Frames)
  OBVIOUS
<1>2. CASE EndsTorn(f.frames)
  <2>1. Len(f.frames) \in Nat \ {0}
    BY <1>1, <1>2, EmptySeq DEF EndsTorn
  <2>2. f.frames[Len(f.frames)] = Torn
    BY <1>1, <1>2, <2>1, FramesElements, FrameKinds DEF EndsTorn
  <2>3. CompleteFrames(f) = SubSeq(f.frames, 1, Len(f.frames) - 1)
    BY <1>2 DEF CompleteFrames
  <2>4. Len(f.frames) - 1 \in 0 .. Len(f.frames)
    BY <2>1
  <2>5. /\ CompleteFrames(f) \in Seq(Frames)
        /\ Len(CompleteFrames(f)) = Len(f.frames) - 1
        /\ \A i \in 1 .. Len(f.frames) - 1 : CompleteFrames(f)[i] = f.frames[i]
    BY <1>1, <2>3, <2>4, PrefixElements
  <2>6. \E n \in 0 .. Len(f.frames) : CompleteFrames(f) = SubSeq(f.frames, 1, n)
    BY <2>3, <2>4
  <2> QED
    BY <1>2, <2>1, <2>2, <2>3, <2>5, <2>6
<1>3. CASE ~EndsTorn(f.frames)
  <2>1. CompleteFrames(f) = f.frames
    BY <1>3 DEF CompleteFrames
  <2>2. f.frames = SubSeq(f.frames, 1, Len(f.frames))
    BY <1>1, SubSeqFull
  <2> QED
    BY <1>1, <1>3, <2>1, <2>2, FramesElements
<1> QED
  BY <1>2, <1>3

-------------------------------------------------------------------------------
(* Ends of groups *)

LEMMA EndsElements ==
    ASSUME NEW frames \in Seq(Frames)
    PROVE  /\ \A i : i \in Ends(frames) <=>
                  /\ i \in 1 .. Len(frames)
                  /\ frames[i] \in SnapshotFrames
                  /\ frames[i].part = GroupFrames
           /\ Ends(frames) \subseteq 1 .. Len(frames)
           /\ IsFiniteSet(Ends(frames)) /\ Cardinality(Ends(frames)) \in Nat
           /\ Latest(Ends(frames)) \in 0 .. Len(frames)
           /\ \A i \in Ends(frames) : i <= Latest(Ends(frames))
           /\ Ends(frames) # {} => Latest(Ends(frames)) \in Ends(frames)
           /\ Ends(frames) = {} => Latest(Ends(frames)) = 0
<1>1. /\ Len(frames) \in Nat /\ DOMAIN frames = 1 .. Len(frames)
      /\ \A i \in 1 .. Len(frames) : frames[i] \in Frames
  BY FramesElements
<1>2. \A i : i \in Ends(frames) <=>
          /\ i \in 1 .. Len(frames)
          /\ frames[i] \in SnapshotFrames
          /\ frames[i].part = GroupFrames
  <2>1. \A frame \in Frames : frame.kind = "Snapshot" <=> frame \in SnapshotFrames
    BY FrameKinds
  <2> QED
    BY <1>1, <2>1 DEF Ends, Of
<1>3. Ends(frames) \subseteq 1 .. Len(frames)
  BY <1>2
<1>4. IsFiniteSet(Ends(frames)) /\ Cardinality(Ends(frames)) \in Nat
  <2>1. IsFiniteSet(1 .. Len(frames))
    BY <1>1, FS_Interval
  <2>2. IsFiniteSet(Ends(frames))
    BY <1>3, <2>1, FS_Subset
  <2> QED
    BY <2>2, FS_CardinalityType
<1>5. Ends(frames) \in SUBSET (0 .. Len(frames))
  BY <1>1, <1>3
<1>6. /\ Ends(frames) = {} => Latest(Ends(frames)) = 0
      /\ Ends(frames) # {} => IsLatest(Latest(Ends(frames)), Ends(frames))
  BY <1>1, <1>5, LatestIsLast
<1> QED
  BY <1>1, <1>2, <1>3, <1>4, <1>5, <1>6 DEF IsLatest

\* Snapshots depend on the ends of the groups only.
LEMMA SnapshotsOfEnds ==
    ASSUME NEW F \in Seq(Frames), NEW G \in Seq(Frames), Ends(F) = Ends(G),
           \A i \in Ends(F) : F[i] = G[i]
    PROVE  Snapshots(F) = Snapshots(G)
<1>1. ASSUME NEW p \in Pages
      PROVE  {i \in Ends(F) : F[i].page = p} = {i \in Ends(G) : G[i].page = p}
  OBVIOUS
<1>2. ASSUME NEW p \in Pages, {i \in Ends(F) : F[i].page = p} # {}
      PROVE  Latest({i \in Ends(F) : F[i].page = p}) \in Ends(F)
  <2>1. {i \in Ends(F) : F[i].page = p} \in SUBSET (0 .. Len(F)) /\ Len(F) \in Nat
    BY EndsElements, FramesElements
  <2> QED
    BY <1>2, <2>1, LatestIsLast DEF IsLatest
<1>3. ASSUME NEW p \in Pages
      PROVE  Snapshots(F)[p] = Snapshots(G)[p]
  <2>1. CASE {i \in Ends(F) : F[i].page = p} = {}
    BY <1>1, <2>1 DEF Snapshots
  <2>2. CASE {i \in Ends(F) : F[i].page = p} # {}
    BY <1>1, <1>2, <2>2 DEF Snapshots
  <2> QED
    BY <2>1, <2>2
<1> QED
  BY <1>3 DEF Snapshots

LEMMA SnapshotsType ==
    ASSUME NEW F \in Seq(Frames)
    PROVE  Snapshots(F) \in [Pages -> Nat]
<1>1. ASSUME NEW p \in Pages
      PROVE  Snapshots(F)[p] \in Nat
  <2> DEFINE S == {i \in Ends(F) : F[i].page = p}
  <2>1. S \in SUBSET (0 .. Len(F)) /\ Len(F) \in Nat
    BY EndsElements, FramesElements
  <2>2. S # {} => Latest(S) \in Ends(F)
    BY <2>1, LatestIsLast DEF IsLatest
  <2>3. S # {} => F[Latest(S)].at \in Nat
    BY <2>2, EndsElements, FrameKinds
  <2> QED
    BY <2>3 DEF Snapshots
<1> QED
  BY <1>1 DEF Snapshots

-------------------------------------------------------------------------------
(* A prefix of a sound file *)

LEMMA PrefixEnds ==
    ASSUME NEW frames \in Seq(Frames), NEW n \in 0 .. Len(frames)
    PROVE  Ends(SubSeq(frames, 1, n)) = {i \in Ends(frames) : i <= n}
<1> DEFINE G == SubSeq(frames, 1, n)
<1>1. /\ G \in Seq(Frames) /\ Len(G) = n /\ Len(frames) \in Nat
      /\ \A i \in 1 .. n : G[i] = frames[i]
  BY PrefixElements, FramesElements
<1> HIDE DEF G
<1>2. \A i : i \in Ends(G) <=>
          i \in 1 .. n /\ G[i] \in SnapshotFrames /\ G[i].part = GroupFrames
  BY <1>1, EndsElements
<1>3. \A i : i \in Ends(frames) <=>
          /\ i \in 1 .. Len(frames)
          /\ frames[i] \in SnapshotFrames /\ frames[i].part = GroupFrames
  BY EndsElements
<1>4. \A i : i \in Ends(G) <=> i \in Ends(frames) /\ i <= n
  BY <1>1, <1>2, <1>3
<1> QED
  BY <1>4 DEF G

LEMMA PrefixSound ==
    ASSUME NEW frames \in Seq(Frames), NEW n \in 0 .. Len(frames), Sound(frames)
    PROVE  Sound(SubSeq(frames, 1, n))
<1> DEFINE G == SubSeq(frames, 1, n)
<1>1. /\ G \in Seq(Frames) /\ Len(G) = n /\ Len(frames) \in Nat
      /\ \A i \in 1 .. n : G[i] = frames[i]
  BY PrefixElements, FramesElements
<1>2. Ends(G) = {i \in Ends(frames) : i <= n}
  BY PrefixEnds
<1> HIDE DEF G
<1>3. Chained(G)
  <2> SUFFICES ASSUME NEW i \in 1 .. Len(G)
               PROVE  Follows(G[i], IF i = 1 THEN Nothing ELSE G[i - 1])
    BY DEF Chained
  <2>1. Follows(frames[i], IF i = 1 THEN Nothing ELSE frames[i - 1])
    BY <1>1 DEF Sound, Chained
  <2>2. G[i] = frames[i] /\ (i # 1 => G[i - 1] = frames[i - 1])
    BY <1>1
  <2> QED
    BY <2>1, <2>2
<1>4. Numbered(G)
  <2> SUFFICES ASSUME NEW i \in Ends(G)
               PROVE  G[i].sequence = Cardinality({j \in Ends(G) : j <= i})
    BY DEF Numbered
  <2>1. i \in Ends(frames) /\ i <= n /\ G[i] = frames[i]
    BY <1>1, <1>2, EndsElements
  <2>2. {j \in Ends(G) : j <= i} = {j \in Ends(frames) : j <= i}
    BY <1>1, <1>2, <2>1, EndsElements
  <2>3. frames[i].sequence = Cardinality({j \in Ends(frames) : j <= i})
    BY <2>1 DEF Sound, Numbered
  <2> QED
    BY <2>1, <2>2, <2>3
<1> QED
  BY <1>3, <1>4 DEF Sound, G

-------------------------------------------------------------------------------
(* Appending the frames of a group *)

\* The frames of a group.
LEMMA GroupElements ==
    ASSUME NEW p \in Pages, NEW at \in Nat, NEW s \in Nat, NEW n \in 0 .. GroupFrames
    PROVE  /\ SubSeq(GroupOf(p, at, s), 1, n) \in Seq(Frames)
           /\ Len(SubSeq(GroupOf(p, at, s), 1, n)) = n
           /\ \A i \in 1 .. n :
                SubSeq(GroupOf(p, at, s), 1, n)[i] = SnapshotFrame(p, at, s, i)
           /\ GroupOf(p, at, s) \in Seq(Frames) /\ Len(GroupOf(p, at, s)) = GroupFrames
           /\ SubSeq(GroupOf(p, at, s), 1, GroupFrames) = GroupOf(p, at, s)
           /\ \A i \in 1 .. GroupFrames : SnapshotFrame(p, at, s, i) \in SnapshotFrames
<1>1. GroupFrames \in Nat
  BY GroupAssumption
<1>2. \A i \in 1 .. GroupFrames : SnapshotFrame(p, at, s, i) \in SnapshotFrames
  BY DEF SnapshotFrame, SnapshotFrames
<1>3. GroupOf(p, at, s) \in [1 .. GroupFrames -> Frames]
  BY <1>2, FrameKinds DEF GroupOf
<1>4. GroupOf(p, at, s) \in Seq(Frames)
  BY <1>1, <1>3, SeqDef
<1>5. Len(GroupOf(p, at, s)) = GroupFrames
  BY <1>1, <1>4, LenProperties DEF GroupOf
<1>6. \A i \in 1 .. GroupFrames : GroupOf(p, at, s)[i] = SnapshotFrame(p, at, s, i)
  BY DEF GroupOf
<1>7. SubSeq(GroupOf(p, at, s), 1, GroupFrames) = GroupOf(p, at, s)
  BY <1>4, <1>5, SubSeqFull
<1> QED
  BY <1>1, <1>2, <1>4, <1>5, <1>6, <1>7, PrefixElements

\* A file whose last group is whole.
WholeGroups(frames) ==
    /\ frames \in Seq(Frames) /\ Sound(frames)
    /\ Latest(Ends(frames)) = Len(frames)

\* The first n frames of the next group are appended to it.
Begun(frames, p, at, n) ==
    frames \o SubSeq(GroupOf(p, at, Cardinality(Ends(frames)) + 1), 1, n)

LEMMA BegunElements ==
    ASSUME NEW frames, WholeGroups(frames),
           NEW p \in Pages, NEW at \in Nat, NEW n \in 0 .. GroupFrames
    PROVE  /\ Begun(frames, p, at, n) \in Seq(Frames)
           /\ Len(Begun(frames, p, at, n)) = Len(frames) + n
           /\ \A i \in 1 .. Len(frames) : Begun(frames, p, at, n)[i] = frames[i]
           /\ \A i \in 1 .. n :
                Begun(frames, p, at, n)[Len(frames) + i]
                    = SnapshotFrame(p, at, Cardinality(Ends(frames)) + 1, i)
<1> DEFINE s == Cardinality(Ends(frames)) + 1
           H == SubSeq(GroupOf(p, at, s), 1, n)
<1>1. frames \in Seq(Frames) /\ Len(frames) \in Nat /\ s \in Nat /\ n \in Nat
  BY EndsElements, FramesElements, GroupAssumption DEF WholeGroups
<1>2. /\ H \in Seq(Frames) /\ Len(H) = n
      /\ \A i \in 1 .. n : H[i] = SnapshotFrame(p, at, s, i)
  BY <1>1, GroupElements
<1> HIDE DEF H
<1>3. /\ frames \o H \in Seq(Frames)
      /\ Len(frames \o H) = Len(frames) + Len(H)
      /\ \A i \in 1 .. Len(frames) + Len(H) : (frames \o H)[i] =
            IF i <= Len(frames) THEN frames[i] ELSE H[i - Len(frames)]
  BY <1>1, <1>2, ConcatProperties
<1>4. Begun(frames, p, at, n) = frames \o H
  BY DEF Begun, H
<1> QED
  BY <1>1, <1>2, <1>3, <1>4

LEMMA BegunEnds ==
    ASSUME NEW frames, WholeGroups(frames),
           NEW p \in Pages, NEW at \in Nat, NEW n \in 0 .. GroupFrames
    PROVE  /\ n = GroupFrames =>
                Ends(Begun(frames, p, at, n)) = Ends(frames) \cup {Len(frames) + GroupFrames}
           /\ n # GroupFrames => Ends(Begun(frames, p, at, n)) = Ends(frames)
<1> DEFINE s == Cardinality(Ends(frames)) + 1
           G == Begun(frames, p, at, n)
<1>1. /\ frames \in Seq(Frames) /\ Len(frames) \in Nat /\ s \in Nat
      /\ n \in Nat /\ GroupFrames \in Nat \ {0, 1, 2}
  BY EndsElements, FramesElements, GroupAssumption DEF WholeGroups
<1>2. /\ G \in Seq(Frames) /\ Len(G) = Len(frames) + n
      /\ \A i \in 1 .. Len(frames) : G[i] = frames[i]
      /\ \A i \in 1 .. n : G[Len(frames) + i] = SnapshotFrame(p, at, s, i)
  BY BegunElements
<1>3. \A i \in 1 .. GroupFrames :
          /\ SnapshotFrame(p, at, s, i) \in SnapshotFrames
          /\ SnapshotFrame(p, at, s, i).part = i
  BY <1>1, GroupElements DEF SnapshotFrame
<1> HIDE DEF G, s
<1>4. \A i : i \in Ends(G) <=>
          /\ i \in 1 .. Len(G)
          /\ G[i] \in SnapshotFrames /\ G[i].part = GroupFrames
  BY <1>2, EndsElements
<1>5. \A i : i \in Ends(frames) <=>
          /\ i \in 1 .. Len(frames)
          /\ frames[i] \in SnapshotFrames /\ frames[i].part = GroupFrames
  BY <1>1, EndsElements
<1>6. \A i \in 1 .. n : Len(frames) + i \in Ends(G) <=> i = GroupFrames
  <2> SUFFICES ASSUME NEW i \in 1 .. n
               PROVE  Len(frames) + i \in Ends(G) <=> i = GroupFrames
    OBVIOUS
  <2>1. i \in 1 .. GroupFrames /\ Len(frames) + i \in 1 .. Len(G)
    BY <1>1, <1>2
  <2>2. G[Len(frames) + i] \in SnapshotFrames /\ G[Len(frames) + i].part = i
    BY <1>2, <1>3, <2>1
  <2>3. Len(frames) + i \in Ends(G) <=>
            /\ Len(frames) + i \in 1 .. Len(G)
            /\ G[Len(frames) + i] \in SnapshotFrames
            /\ G[Len(frames) + i].part = GroupFrames
    BY <1>4
  <2> QED
    BY <2>1, <2>2, <2>3
<1>7. \A i \in 1 .. Len(frames) : i \in Ends(G) <=> i \in Ends(frames)
  BY <1>1, <1>2, <1>4, <1>5
<1>8. \A i \in Ends(G) : i \in 1 .. Len(frames) \/ \E j \in 1 .. n : i = Len(frames) + j
  <2> SUFFICES ASSUME NEW i \in Ends(G), i \notin 1 .. Len(frames)
               PROVE  \E j \in 1 .. n : i = Len(frames) + j
    OBVIOUS
  <2>1. i - Len(frames) \in 1 .. n /\ i = Len(frames) + (i - Len(frames))
    BY <1>1, <1>2, <1>4
  <2> QED
    BY <2>1
<1>9. CASE n = GroupFrames
  <2>1. Len(frames) + GroupFrames \in Ends(G)
    BY <1>1, <1>6, <1>9
  <2>2. \A i \in Ends(G) : i \in Ends(frames) \/ i = Len(frames) + GroupFrames
    BY <1>1, <1>6, <1>7, <1>8
  <2>3. Ends(frames) \subseteq Ends(G)
    BY <1>5, <1>7
  <2> QED
    BY <1>9, <2>1, <2>2, <2>3 DEF G
<1>10. CASE n # GroupFrames
  <2>1. \A i \in 1 .. n : i # GroupFrames
    BY <1>1, <1>10
  <2>2. \A i \in Ends(G) : i \in Ends(frames)
    BY <1>6, <1>7, <1>8, <2>1
  <2>3. Ends(frames) \subseteq Ends(G)
    BY <1>5, <1>7
  <2> QED
    BY <1>10, <2>2, <2>3 DEF G
<1> QED
  BY <1>9, <1>10

LEMMA BegunSound ==
    ASSUME NEW frames, WholeGroups(frames),
           NEW p \in Pages, NEW at \in Nat, NEW n \in 0 .. GroupFrames
    PROVE  Sound(Begun(frames, p, at, n))
<1> DEFINE E == Ends(frames)
           s == Cardinality(E) + 1
           G == Begun(frames, p, at, n)
<1>1. /\ frames \in Seq(Frames) /\ Len(frames) \in Nat /\ s \in Nat
      /\ Cardinality(E) \in Nat /\ IsFiniteSet(E)
      /\ n \in Nat /\ GroupFrames \in Nat \ {0, 1, 2}
      /\ E \subseteq 1 .. Len(frames)
      /\ Sound(frames) /\ Latest(E) = Len(frames)
  BY EndsElements, FramesElements, GroupAssumption DEF WholeGroups
<1>2. /\ G \in Seq(Frames) /\ Len(G) = Len(frames) + n
      /\ \A i \in 1 .. Len(frames) : G[i] = frames[i]
      /\ \A i \in 1 .. n : G[Len(frames) + i] = SnapshotFrame(p, at, s, i)
  BY BegunElements
<1>3. /\ n = GroupFrames => Ends(G) = E \cup {Len(frames) + GroupFrames}
      /\ n # GroupFrames => Ends(G) = E
  BY BegunEnds
<1>4. Len(frames) > 0 =>
          /\ frames[Len(frames)].part = GroupFrames
          /\ frames[Len(frames)].sequence = Cardinality(E)
  <2> SUFFICES ASSUME Len(frames) > 0
               PROVE  /\ frames[Len(frames)].part = GroupFrames
                      /\ frames[Len(frames)].sequence = Cardinality(E)
    OBVIOUS
  <2>1. Len(frames) \in E
    BY <1>1, EndsElements
  <2>2. {j \in E : j <= Len(frames)} = E
    BY <1>1
  <2>3. frames[Len(frames)].sequence = Cardinality({j \in E : j <= Len(frames)})
    BY <1>1, <2>1 DEF Sound, Numbered
  <2> QED
    BY <1>1, <2>1, <2>2, <2>3, EndsElements
<1>5. Len(frames) = 0 => Cardinality(E) = 0
  BY <1>1, FS_EmptySet
<1> HIDE DEF G, s, E
<1>6. Chained(G)
  <2> SUFFICES ASSUME NEW i \in 1 .. Len(G)
               PROVE  Follows(G[i], IF i = 1 THEN Nothing ELSE G[i - 1])
    BY DEF Chained
  <2>1. CASE i <= Len(frames)
    <3>1. Follows(frames[i], IF i = 1 THEN Nothing ELSE frames[i - 1])
      BY <1>1, <2>1 DEF Sound, Chained
    <3>2. G[i] = frames[i] /\ (i # 1 => G[i - 1] = frames[i - 1])
      BY <1>1, <1>2, <2>1
    <3> QED
      BY <3>1, <3>2
  <2>2. CASE i = Len(frames) + 1
    <3>1. G[i] = SnapshotFrame(p, at, s, 1)
      BY <1>1, <1>2, <2>2
    <3>2. G[i].part = 1 /\ G[i].sequence = Cardinality(E) + 1
      BY <3>1 DEF SnapshotFrame, s
    <3>3. i # 1 => G[i - 1].part = GroupFrames /\ G[i - 1].sequence = Cardinality(E)
      BY <1>1, <1>2, <1>4, <2>2
    <3>4. Nothing.part = GroupFrames /\ Nothing.sequence = 0
      BY DEF Nothing, SnapshotFrame
    <3>5. i = 1 => Cardinality(E) = 0
      BY <1>1, <1>5, <2>2
    <3> QED
      BY <3>2, <3>3, <3>4, <3>5 DEF Follows
  <2>3. CASE i > Len(frames) + 1
    <3>1. PICK k \in 1 .. n - 1 : i = Len(frames) + (k + 1)
      <4>1. i - Len(frames) - 1 \in 1 .. n - 1
        BY <1>1, <1>2, <2>3
      <4>2. i = Len(frames) + ((i - Len(frames) - 1) + 1)
        BY <1>1
      <4> QED
        BY <4>1, <4>2
    <3>2. G[i] = SnapshotFrame(p, at, s, k + 1)
      BY <1>1, <1>2, <3>1
    <3>3. i - 1 = Len(frames) + k /\ k \in 1 .. n
      BY <1>1, <3>1
    <3>4. G[i - 1] = SnapshotFrame(p, at, s, k)
      BY <1>2, <3>3
    <3>5. G[i].part > 1 /\ G[i].part - 1 = k
      BY <1>1, <3>1, <3>2 DEF SnapshotFrame
    <3>6. G[i - 1] = [G[i] EXCEPT !.part = G[i].part - 1]
      BY <3>2, <3>4, <3>5 DEF SnapshotFrame
    <3>7. i # 1
      BY <1>1, <2>3
    <3> QED
      BY <3>5, <3>6, <3>7 DEF Follows
  <2> QED
    BY <1>1, <1>2, <2>1, <2>2, <2>3
<1>7. Numbered(G)
  <2> SUFFICES ASSUME NEW i \in Ends(G)
               PROVE  G[i].sequence = Cardinality({j \in Ends(G) : j <= i})
    BY DEF Numbered
  <2>1. CASE i \in E
    <3>1. {j \in Ends(G) : j <= i} = {j \in E : j <= i}
      BY <1>1, <1>3, <2>1
    <3>2. frames[i].sequence = Cardinality({j \in E : j <= i})
      BY <1>1, <2>1 DEF Sound, Numbered, E
    <3>3. G[i] = frames[i]
      BY <1>1, <1>2, <2>1
    <3> QED
      BY <3>1, <3>2, <3>3
  <2>2. CASE i \notin E
    <3>1. n = GroupFrames /\ i = Len(frames) + n /\ Ends(G) = E \cup {i}
      BY <1>3, <2>2
    <3>2. {j \in Ends(G) : j <= i} = E \cup {i}
      <4>1. i \in Nat /\ \A j \in E \cup {i} : j <= i
        BY <1>1, <3>1
      <4> QED
        BY <3>1, <4>1
    <3>3. Cardinality(E \cup {i}) = Cardinality(E) + 1
      BY <1>1, <2>2, FS_AddElement
    <3>4. G[i] = SnapshotFrame(p, at, s, n)
      BY <1>1, <1>2, <3>1
    <3>5. G[i].sequence = Cardinality(E) + 1
      BY <3>4 DEF SnapshotFrame, s
    <3> QED
      BY <3>2, <3>3, <3>5
  <2> QED
    BY <2>1, <2>2
<1> QED
  BY <1>6, <1>7 DEF Sound, G

\* What a reader finds after a whole group, and after part of one.
LEMMA BegunSnapshots ==
    ASSUME NEW frames, WholeGroups(frames),
           NEW p \in Pages, NEW at \in Nat, NEW n \in 0 .. GroupFrames
    PROVE  /\ n = GroupFrames =>
                /\ WholeGroups(Begun(frames, p, at, n))
                /\ Cardinality(Ends(Begun(frames, p, at, n))) = Cardinality(Ends(frames)) + 1
                /\ Snapshots(Begun(frames, p, at, n)) = [Snapshots(frames) EXCEPT ![p] = at]
           /\ n # GroupFrames => Snapshots(Begun(frames, p, at, n)) = Snapshots(frames)
<1> DEFINE E == Ends(frames)
           s == Cardinality(E) + 1
           G == Begun(frames, p, at, n)
           last == Len(frames) + GroupFrames
<1>1. /\ frames \in Seq(Frames) /\ Len(frames) \in Nat /\ s \in Nat
      /\ Cardinality(E) \in Nat /\ IsFiniteSet(E)
      /\ n \in Nat /\ GroupFrames \in Nat \ {0, 1, 2}
      /\ E \subseteq 1 .. Len(frames)
      /\ Sound(frames) /\ Latest(E) = Len(frames)
  BY EndsElements, FramesElements, GroupAssumption DEF WholeGroups
<1>2. /\ G \in Seq(Frames) /\ Len(G) = Len(frames) + n
      /\ \A i \in 1 .. Len(frames) : G[i] = frames[i]
      /\ \A i \in 1 .. n : G[Len(frames) + i] = SnapshotFrame(p, at, s, i)
  BY BegunElements
<1>3. /\ n = GroupFrames => Ends(G) = E \cup {last}
      /\ n # GroupFrames => Ends(G) = E
  BY BegunEnds
<1>4. CASE n # GroupFrames
  <2>1. \A i \in Ends(G) : G[i] = frames[i]
    BY <1>1, <1>2, <1>3, <1>4
  <2> QED
    BY <1>1, <1>2, <1>3, <1>4, <2>1, SnapshotsOfEnds
<1>5. CASE n = GroupFrames
  <2>1. last \in Nat /\ last \notin E /\ \A i \in E : i < last
    BY <1>1
  <2>2. Cardinality(Ends(G)) = Cardinality(E) + 1
    BY <1>1, <1>3, <1>5, <2>1, FS_AddElement
  <2>3. WholeGroups(G)
    <3>1. Latest(Ends(G)) \in 0 .. Len(G) /\ last <= Latest(Ends(G))
      BY <1>2, <1>3, <1>5, EndsElements
    <3>2. Latest(Ends(G)) = Len(G)
      <4>1. Len(G) = last /\ last \in Nat
        BY <1>1, <1>2, <1>5
      <4> HIDE DEF G, last
      <4> QED
        BY <3>1, <4>1
    <3> QED
      BY <1>2, <3>2, BegunSound DEF WholeGroups
  <2>4. G[last].page = p /\ G[last].at = at
    <3>1. G[last] = SnapshotFrame(p, at, s, GroupFrames)
      BY <1>1, <1>2, <1>5
    <3> QED
      BY <3>1 DEF SnapshotFrame
  <2>5. ASSUME NEW q \in Pages
        PROVE  Snapshots(G)[q] = [Snapshots(frames) EXCEPT ![p] = at][q]
    <3> DEFINE S == {i \in Ends(G) : G[i].page = q}
               R == {i \in E : frames[i].page = q}
    <3>1. Snapshots(G)[q] = IF S = {} THEN 0 ELSE G[Latest(S)].at
      BY DEF Snapshots
    <3>2. Snapshots(frames)[q] = IF R = {} THEN 0 ELSE frames[Latest(R)].at
      BY DEF Snapshots
    <3>3. \A i \in E : G[i] = frames[i]
      BY <1>1, <1>2
    <3>4. CASE q = p
      <4>1. last \in S /\ S \in SUBSET (0 .. last)
        BY <1>1, <1>3, <1>5, <2>1, <2>4, <3>4
      <4>2. IsLatest(Latest(S), S)
        BY <2>1, <4>1, LatestIsLast
      <4>3. Latest(S) = last
        <5>1. Latest(S) \in 0 .. last /\ last <= Latest(S)
          BY <4>1, <4>2 DEF IsLatest
        <5> HIDE DEF S, last
        <5> QED
          BY <2>1, <5>1
      <4>4. Snapshots(G)[q] = at
        BY <2>4, <3>1, <4>1, <4>3
      <4> QED
        BY <3>4, <4>4 DEF Snapshots
    <3>5. CASE q # p
      <4>1. S = R
        BY <1>3, <1>5, <2>4, <3>3, <3>5
      <4>2. R # {} => Latest(R) \in E
        <5>1. R \in SUBSET (0 .. Len(frames))
          BY <1>1
        <5> QED
          BY <1>1, <5>1, LatestIsLast DEF IsLatest
      <4>3. Snapshots(G)[q] = Snapshots(frames)[q]
        BY <3>1, <3>2, <3>3, <4>1, <4>2
      <4> QED
        BY <3>5, <4>3 DEF Snapshots
    <3> QED
      BY <3>4, <3>5
  <2>6. Snapshots(G) = [Snapshots(frames) EXCEPT ![p] = at]
    BY <2>5 DEF Snapshots
  <2> QED
    BY <1>5, <2>2, <2>3, <2>6
<1> QED
  BY <1>4, <1>5

-------------------------------------------------------------------------------
(* Torn and lost frames *)

FileType == [frames : Seq(Frames), synced : Nat]

Untorn(frames) == \A i \in 1 .. Len(frames) : frames[i].kind # "Torn"

LEMMA TailType ==
    ASSUME NEW tail \in {<<>>, <<Torn>>}
    PROVE  tail \in Seq(Frames)
<1>1. <<>> \in Seq(Frames) /\ <<Torn>> \in Seq(Frames)
  BY FrameKinds
<1> QED
  BY <1>1

\* A torn end is no complete frame.
LEMMA TornEnd ==
    ASSUME NEW f \in FileType, NEW G \in Seq(Frames), Untorn(G),
           NEW tail \in {<<>>, <<Torn>>}, f.frames = G \o tail
    PROVE  /\ CompleteFrames(f) = G
           /\ TornIsLast(f.frames)
           /\ Lost(f.frames) <=> Lost(G)
           /\ Len(G) <= Len(f.frames)
<1>1. /\ f.frames \in Seq(Frames) /\ Len(G) \in Nat
      /\ \A i \in 1 .. Len(G) : G[i] \in Frames
  BY FramesElements DEF FileType
<1>2. CASE tail = <<>>
  <2>1. f.frames = G
    BY <1>2, ConcatEmptySeq
  <2>2. ~EndsTorn(G)
    BY <1>1, EmptySeq DEF EndsTorn, Untorn
  <2> QED
    BY <1>1, <2>1, <2>2 DEF CompleteFrames, TornIsLast, Untorn
<1>3. CASE tail = <<Torn>>
  <2>1. <<Torn>> \in Seq(Frames) /\ Len(<<Torn>>) = 1 /\ <<Torn>>[1] = Torn
    BY FrameKinds
  <2>2. /\ Len(f.frames) = Len(G) + 1
        /\ \A i \in 1 .. Len(G) + 1 :
             f.frames[i] = IF i <= Len(G) THEN G[i] ELSE <<Torn>>[i - Len(G)]
    BY <1>1, <1>3, <2>1, ConcatProperties
  <2>3. f.frames[Len(G) + 1] = Torn
    BY <1>1, <2>1, <2>2
  <2>4. \A i \in 1 .. Len(G) : f.frames[i] = G[i]
    BY <1>1, <2>2
  <2>5. EndsTorn(f.frames)
    <3>1. f.frames # <<>>
      BY <1>1, <2>2, EmptySeq
    <3> QED
      BY <2>2, <2>3, <3>1, FrameKinds DEF EndsTorn
  <2>6. CompleteFrames(f) = SubSeq(f.frames, 1, Len(G))
    BY <1>1, <2>2, <2>5 DEF CompleteFrames
  <2>7. SubSeq(f.frames, 1, Len(G)) = G
    <3>1. Len(G) \in 0 .. Len(f.frames)
      BY <1>1, <2>2
    <3>2. /\ SubSeq(f.frames, 1, Len(G)) \in Seq(Frames)
          /\ Len(SubSeq(f.frames, 1, Len(G))) = Len(G)
          /\ \A i \in 1 .. Len(G) : SubSeq(f.frames, 1, Len(G))[i] = f.frames[i]
      BY <1>1, <3>1, PrefixElements
    <3> QED
      BY <2>4, <3>2, SeqEqual
  <2>8. TornIsLast(f.frames)
    BY <1>1, <2>2, <2>4 DEF TornIsLast, Untorn
  <2>9. Lost(f.frames) <=> Lost(G)
    <3>1. Torn.kind # "Malformed"
      BY FrameKinds
    <3>2. \A i \in 1 .. Len(f.frames) :
            f.frames[i].kind = "Malformed" => i \in 1 .. Len(G) /\ G[i].kind = "Malformed"
      BY <1>1, <2>2, <2>3, <2>4, <3>1
    <3>3. \A i \in 1 .. Len(G) :
            G[i].kind = "Malformed" =>
                i \in 1 .. Len(f.frames) /\ f.frames[i].kind = "Malformed"
      BY <1>1, <2>2, <2>4
    <3> QED
      BY <3>2, <3>3 DEF Lost
  <2> QED
    BY <1>1, <2>2, <2>6, <2>7, <2>8, <2>9
<1> QED
  BY <1>2, <1>3

\* The complete frames of a file whose torn frames are last.
LEMMA CompleteUntorn ==
    ASSUME NEW f \in FileType, TornIsLast(f.frames)
    PROVE  /\ CompleteFrames(f) \in Seq(Frames) /\ Untorn(CompleteFrames(f))
           /\ Lost(CompleteFrames(f)) <=> Lost(f.frames)
           /\ Len(CompleteFrames(f)) \in 0 .. Len(f.frames)
           /\ Len(f.frames) <= Len(CompleteFrames(f)) + 1
           /\ CompleteFrames(f) = SubSeq(f.frames, 1, Len(CompleteFrames(f)))
           /\ \A i \in 1 .. Len(CompleteFrames(f)) : CompleteFrames(f)[i] = f.frames[i]
           /\ \A i \in 1 .. Len(f.frames) :
                i \notin 1 .. Len(CompleteFrames(f)) => f.frames[i] = Torn /\ i = Len(f.frames)
<1> DEFINE C == CompleteFrames(f)
<1>1. /\ f.frames \in Seq(Frames) /\ Len(f.frames) \in Nat
      /\ \A i \in 1 .. Len(f.frames) : f.frames[i] \in Frames
  BY FramesElements DEF FileType
<1>2. /\ C \in Seq(Frames) /\ Len(C) \in Nat
      /\ \A i \in 1 .. Len(C) : i <= Len(f.frames) /\ C[i] = f.frames[i]
      /\ EndsTorn(f.frames) => /\ Len(f.frames) > 0
                               /\ C = SubSeq(f.frames, 1, Len(f.frames) - 1)
                               /\ Len(C) = Len(f.frames) - 1
                               /\ f.frames[Len(f.frames)] = Torn
      /\ ~EndsTorn(f.frames) => C = f.frames
  BY CompleteElements, FramesElements DEF FileType
<1>3. CASE EndsTorn(f.frames)
  <2>1. Len(C) = Len(f.frames) - 1 /\ f.frames[Len(f.frames)] = Torn
        /\ C = SubSeq(f.frames, 1, Len(C)) /\ Len(f.frames) > 0
    BY <1>2, <1>3
  <2> HIDE DEF C
  <2>2. Untorn(C)
    <3> SUFFICES ASSUME NEW i \in 1 .. Len(C)
                 PROVE  C[i].kind # "Torn"
      BY DEF Untorn
    <3>1. i \in 1 .. Len(f.frames) /\ i # Len(f.frames) /\ C[i] = f.frames[i]
      BY <1>1, <1>2, <2>1
    <3> QED
      BY <3>1 DEF TornIsLast
  <2>3. \A i \in 1 .. Len(f.frames) : i \notin 1 .. Len(C) => i = Len(f.frames)
    BY <1>1, <1>2, <2>1
  <2>4. Torn.kind # "Malformed"
    BY FrameKinds
  <2>5. Lost(C) <=> Lost(f.frames)
    <3>1. \A i \in 1 .. Len(f.frames) :
            f.frames[i].kind = "Malformed" => i \in 1 .. Len(C) /\ C[i].kind = "Malformed"
      BY <1>1, <1>2, <2>1, <2>3, <2>4
    <3>2. \A i \in 1 .. Len(C) :
            C[i].kind = "Malformed" =>
                i \in 1 .. Len(f.frames) /\ f.frames[i].kind = "Malformed"
      BY <1>1, <1>2
    <3> QED
      BY <3>1, <3>2 DEF Lost
  <2>6. Len(C) \in 0 .. Len(f.frames) /\ Len(f.frames) <= Len(C) + 1
    BY <1>1, <1>2, <2>1
  <2>7. \A i \in 1 .. Len(C) : C[i] = f.frames[i]
    BY <1>2
  <2>8. \A i \in 1 .. Len(f.frames) :
            i \notin 1 .. Len(C) => f.frames[i] = Torn /\ i = Len(f.frames)
    BY <2>1, <2>3
  <2>9. C \in Seq(Frames)
    BY <1>2
  <2> QED
    BY <2>1, <2>2, <2>5, <2>6, <2>7, <2>8, <2>9 DEF C
<1>4. CASE ~EndsTorn(f.frames)
  <2>1. C = f.frames /\ C = SubSeq(f.frames, 1, Len(C))
    BY <1>1, <1>2, <1>4, SubSeqFull
  <2>2. Untorn(f.frames)
    <3> SUFFICES ASSUME NEW i \in 1 .. Len(f.frames), f.frames[i].kind = "Torn"
                 PROVE  FALSE
      BY DEF Untorn
    <3>1. i = Len(f.frames)
      BY DEF TornIsLast
    <3>2. f.frames # <<>>
      BY <1>1, <3>1, EmptySeq
    <3> QED
      BY <1>4, <3>1, <3>2 DEF EndsTorn
  <2> QED
    BY <1>1, <2>1, <2>2
<1> QED
  BY <1>3, <1>4

-------------------------------------------------------------------------------
(* What a power loss leaves *)

\* The frames up to the last that is kept, with those before it that are not in their place.
Survivors(f, kept) ==
    [i \in 1 .. Latest(kept \cup {f.synced}) |->
        IF i <= f.synced \/ i \in kept THEN f.frames[i] ELSE Malformed]

LEMMA SurvivorsElements ==
    ASSUME NEW f \in FileType, f.synced <= Len(f.frames),
           NEW kept \in SUBSET (f.synced + 1 .. Len(f.frames))
    PROVE  /\ Survivors(f, kept) \in Seq(Frames)
           /\ Len(Survivors(f, kept)) \in f.synced .. Len(f.frames)
           /\ \A i \in 1 .. Len(Survivors(f, kept)) :
                Survivors(f, kept)[i] = f.frames[i] \/ Survivors(f, kept)[i] = Malformed
           /\ \A i \in 1 .. f.synced : Survivors(f, kept)[i] = f.frames[i]
           /\ Len(Survivors(f, kept)) > 0 =>
                Survivors(f, kept)[Len(Survivors(f, kept))]
                    = f.frames[Len(Survivors(f, kept))]
<1> DEFINE S == kept \cup {f.synced}
           n == Latest(S)
<1>1. /\ f.frames \in Seq(Frames) /\ Len(f.frames) \in Nat /\ f.synced \in Nat
      /\ \A i \in 1 .. Len(f.frames) : f.frames[i] \in Frames
  BY FramesElements DEF FileType
<1>2. S \in SUBSET (0 .. Len(f.frames)) /\ S # {}
  <2>1. f.synced \in 0 .. Len(f.frames)
    BY <1>1
  <2>2. \A q \in kept : q \in 0 .. Len(f.frames)
    BY <1>1
  <2> QED
    BY <2>1, <2>2
<1>3. n \in S /\ \A q \in S : q <= n
  BY <1>1, <1>2, LatestIsLast DEF IsLatest
<1>4. n \in f.synced .. Len(f.frames) /\ n \in Nat
  BY <1>1, <1>2, <1>3
<1>5. n = f.synced \/ n \in kept
  BY <1>3
<1> HIDE DEF n
<1>6. Survivors(f, kept) =
        [i \in 1 .. n |-> IF i <= f.synced \/ i \in kept THEN f.frames[i] ELSE Malformed]
  BY DEF Survivors, n
<1>7. Survivors(f, kept) \in [1 .. n -> Frames]
  BY <1>1, <1>4, <1>6, FrameKinds
<1>8. Survivors(f, kept) \in Seq(Frames)
  BY <1>4, <1>7, SeqDef
<1>9. Len(Survivors(f, kept)) = n
  BY <1>4, <1>6, <1>8, LenProperties
<1>10. \A i \in 1 .. n : Survivors(f, kept)[i] = f.frames[i] \/ Survivors(f, kept)[i] = Malformed
  BY <1>6
<1>11. \A i \in 1 .. f.synced : Survivors(f, kept)[i] = f.frames[i]
  BY <1>1, <1>4, <1>6
<1>12. n > 0 => Survivors(f, kept)[n] = f.frames[n]
  BY <1>1, <1>4, <1>5, <1>6
<1> QED
  BY <1>4, <1>8, <1>9, <1>10, <1>11, <1>12

LEMMA PowerLossElements ==
    ASSUME NEW f \in FileType, f.synced <= Len(f.frames), NEW g \in AfterPowerLoss(f)
    PROVE  \E kept \in SUBSET (f.synced + 1 .. Len(f.frames)), tail \in {<<>>, <<Torn>>} :
              /\ g.frames = Survivors(f, kept) \o tail
              /\ g \in FileType /\ g.synced = Len(g.frames)
              /\ Len(Survivors(f, kept)) = Len(f.frames) => tail = <<>>
<1> DEFINE Image(kept) ==
            LET length == Latest(kept \cup {f.synced}) IN
            [i \in 1 .. length |->
                IF i <= f.synced \/ i \in kept THEN f.frames[i] ELSE Malformed]
           Tails(frames) == IF Len(frames) < Len(f.frames) THEN {<<>>, <<Torn>>} ELSE {<<>>}
<1>1. PICK kept \in SUBSET (f.synced + 1 .. Len(f.frames)) :
        g \in {Synced([f EXCEPT !.frames = Image(kept) \o tail]) : tail \in Tails(Image(kept))}
  BY DEF AfterPowerLoss
<1>2. PICK tail \in Tails(Image(kept)) : g = Synced([f EXCEPT !.frames = Image(kept) \o tail])
  BY <1>1
<1>3. Image(kept) = Survivors(f, kept)
  BY DEF Survivors
<1> HIDE DEF Image
<1>4. tail \in {<<>>, <<Torn>>}
  BY <1>2
<1>5. g = Synced([f EXCEPT !.frames = Survivors(f, kept) \o tail])
  BY <1>2, <1>3
<1>6. Len(f.frames) \in Nat
  BY FramesElements DEF FileType
<1>7. Len(Survivors(f, kept)) = Len(f.frames) => tail = <<>>
  BY <1>2, <1>3, <1>6
<1>8. <<>> \in Seq(Frames) /\ <<Torn>> \in Seq(Frames)
  BY FrameKinds
<1>9. Survivors(f, kept) \o tail \in Seq(Frames)
  BY <1>4, <1>8, SurvivorsElements, ConcatProperties
<1>10. Len(Survivors(f, kept) \o tail) \in Nat
  BY <1>9, FramesElements
<1>11. g = [frames |-> Survivors(f, kept) \o tail, synced |-> Len(Survivors(f, kept) \o tail)]
  BY <1>5 DEF Synced, FileType
<1>12. g \in FileType /\ g.frames = Survivors(f, kept) \o tail /\ g.synced = Len(g.frames)
  BY <1>9, <1>10, <1>11 DEF FileType
<1> QED
  BY <1>4, <1>7, <1>12

\* The frames that can be read are the complete ones, up to the first that is lost.
LEMMA ReadableElements ==
    ASSUME NEW f \in FileType, TornIsLast(f.frames)
    PROVE  /\ ~Lost(f.frames) => Readable(f) = CompleteFrames(f)
           /\ Lost(f.frames) =>
                \E e \in 1 .. Len(CompleteFrames(f)) :
                    /\ Readable(f) = SubSeq(CompleteFrames(f), 1, e - 1)
                    /\ CompleteFrames(f)[e].kind = "Malformed"
                    /\ \A i \in 1 .. e - 1 : CompleteFrames(f)[i].kind # "Malformed"
<1> DEFINE C == CompleteFrames(f)
           lost == Of(C, "Malformed")
<1>1. /\ C \in Seq(Frames) /\ Len(C) \in Nat /\ DOMAIN C = 1 .. Len(C)
      /\ Lost(C) <=> Lost(f.frames)
  BY CompleteUntorn, FramesElements
<1> HIDE DEF C
<1>2. lost = {i \in 1 .. Len(C) : C[i].kind = "Malformed"}
  BY <1>1 DEF Of
<1>3. Lost(C) <=> lost # {}
  BY <1>2 DEF Lost
<1>4. Readable(f) = SubSeq(C, 1, IF lost = {} THEN Len(C) ELSE Earliest(lost) - 1)
  BY DEF Readable, C
<1> HIDE DEF lost
<1>5. CASE ~Lost(f.frames)
  <2>1. Readable(f) = SubSeq(C, 1, Len(C))
    BY <1>1, <1>3, <1>4, <1>5
  <2> QED
    BY <1>1, <1>5, <2>1, SubSeqFull DEF C
<1>6. CASE Lost(f.frames)
  <2>1. lost \in SUBSET Nat /\ lost # {}
    BY <1>1, <1>2, <1>3, <1>6
  <2>2. IsEarliest(Earliest(lost), lost)
    BY <2>1, EarliestIsFirst
  <2> DEFINE e == Earliest(lost)
  <2>3. e \in lost /\ \A q \in lost : e <= q
    BY <2>2 DEF IsEarliest
  <2>4. Readable(f) = SubSeq(C, 1, e - 1)
    BY <1>4, <2>1
  <2> HIDE DEF e
  <2>5. e \in 1 .. Len(C) /\ C[e].kind = "Malformed"
    BY <1>2, <2>3
  <2>6. \A i \in 1 .. e - 1 : C[i].kind # "Malformed"
    BY <1>1, <1>2, <2>3, <2>5
  <2> QED
    BY <1>6, <2>4, <2>5, <2>6 DEF C
<1> QED
  BY <1>5, <1>6

\* A power loss leaves at least the frames that were permanent; what can be read of
\* the file is a beginning of what it held.
LEMMA PowerLossReads ==
    ASSUME NEW f \in FileType, f.synced <= Len(f.frames), TornIsLast(f.frames),
           Lost(f.frames) => f.synced = Len(f.frames),
           NEW g \in AfterPowerLoss(f)
    PROVE  /\ g \in FileType /\ g.synced = Len(g.frames) /\ TornIsLast(g.frames)
           /\ Lost(f.frames) => g.frames = f.frames
           /\ ~Lost(f.frames) =>
                \E n \in 0 .. Len(CompleteFrames(f)) :
                    /\ Readable(g) = SubSeq(CompleteFrames(f), 1, n)
                    /\ f.synced <= n \/ n = Len(CompleteFrames(f))
<1> DEFINE C == CompleteFrames(f)
<1>1. /\ f.frames \in Seq(Frames) /\ Len(f.frames) \in Nat /\ f.synced \in Nat
      /\ \A i \in 1 .. Len(f.frames) : f.frames[i] \in Frames
  BY FramesElements DEF FileType
<1>2. /\ C \in Seq(Frames) /\ Untorn(C) /\ (Lost(C) <=> Lost(f.frames))
      /\ Len(C) \in 0 .. Len(f.frames) /\ Len(f.frames) <= Len(C) + 1
      /\ \A i \in 1 .. Len(C) : C[i] = f.frames[i]
  BY CompleteUntorn
<1>3. PICK kept \in SUBSET (f.synced + 1 .. Len(f.frames)), tail \in {<<>>, <<Torn>>} :
          /\ g.frames = Survivors(f, kept) \o tail
          /\ g \in FileType /\ g.synced = Len(g.frames)
          /\ Len(Survivors(f, kept)) = Len(f.frames) => tail = <<>>
  BY PowerLossElements
<1> DEFINE S == Survivors(f, kept)
<1>4. /\ S \in Seq(Frames) /\ Len(S) \in f.synced .. Len(f.frames)
      /\ \A i \in 1 .. Len(S) : S[i] = f.frames[i] \/ S[i] = Malformed
      /\ \A i \in 1 .. f.synced : S[i] = f.frames[i]
  BY SurvivorsElements
<1> HIDE DEF S, C
<1>5. g.frames = S \o tail /\ (Len(S) = Len(f.frames) => tail = <<>>)
  BY <1>3 DEF S
<1>6. Malformed.kind = "Malformed"
  BY FrameKinds
<1>7. Len(S) < Len(f.frames) => Untorn(S)
  <2> SUFFICES ASSUME Len(S) < Len(f.frames), NEW i \in 1 .. Len(S)
               PROVE  S[i].kind # "Torn"
    BY DEF Untorn
  <2>1. i \in 1 .. Len(f.frames) /\ i # Len(f.frames)
    BY <1>1, <1>4
  <2>2. f.frames[i].kind # "Torn"
    BY <2>1 DEF TornIsLast
  <2> QED
    BY <1>4, <1>6, <2>2
<1>8. Len(S) = Len(f.frames) => g.frames = S
  BY <1>4, <1>5, ConcatEmptySeq
<1>9. TornIsLast(g.frames)
  <2>1. CASE Len(S) < Len(f.frames)
    BY <1>3, <1>4, <1>5, <1>7, <2>1, TornEnd
  <2>2. CASE Len(S) = Len(f.frames)
    <3> SUFFICES ASSUME NEW i \in 1 .. Len(S), S[i].kind = "Torn"
                 PROVE  i = Len(S)
      BY <1>8, <2>2 DEF TornIsLast
    <3>1. f.frames[i].kind = "Torn" /\ i \in 1 .. Len(f.frames)
      BY <1>4, <1>6, <2>2
    <3> QED
      BY <2>2, <3>1 DEF TornIsLast
  <2> QED
    BY <1>1, <1>4, <2>1, <2>2
<1>10. ASSUME Lost(f.frames)
       PROVE  g.frames = f.frames
  <2>1. Len(S) = Len(f.frames) /\ \A i \in 1 .. Len(S) : S[i] = f.frames[i]
    BY <1>1, <1>4, <1>10
  <2> QED
    BY <1>1, <1>4, <1>8, <2>1, SeqEqual
<1>11. ASSUME NEW n \in 0 .. Len(CompleteFrames(g)), n <= Len(C),
              \A i \in 1 .. n : CompleteFrames(g)[i] = f.frames[i]
       PROVE  SubSeq(CompleteFrames(g), 1, n) = SubSeq(C, 1, n)
  <2>1. CompleteFrames(g) \in Seq(Frames)
    BY <1>3, <1>9, CompleteUntorn
  <2>2. n \in 0 .. Len(C)
    BY <1>1, <1>2, <1>11, <2>1, FramesElements
  <2>3. \A i \in 1 .. n : CompleteFrames(g)[i] = C[i]
    BY <1>1, <1>2, <1>11, <2>2
  <2> QED
    BY <1>2, <2>1, <2>2, <2>3, PrefixElements, SeqEqual
<1>12. ASSUME ~Lost(f.frames), ~Lost(g.frames)
       PROVE  \E n \in 0 .. Len(C) : Readable(g) = SubSeq(C, 1, n) /\ (f.synced <= n \/ n = Len(C))
  <2>1. Readable(g) = CompleteFrames(g)
    BY <1>3, <1>9, <1>12, ReadableElements
  <2>2. CASE Len(S) < Len(f.frames)
    <3>1. CompleteFrames(g) = S /\ ~Lost(S)
      BY <1>3, <1>4, <1>5, <1>7, <1>12, <2>2, TornEnd
    <3>2. \A i \in 1 .. Len(S) : S[i] = f.frames[i]
      BY <1>4, <1>6, <3>1 DEF Lost
    <3>3. Len(S) \in 0 .. Len(C) /\ f.synced <= Len(S)
      BY <1>1, <1>2, <1>4, <2>2
    <3>4. SubSeq(S, 1, Len(S)) = SubSeq(C, 1, Len(S))
      BY <1>1, <1>2, <1>4, <1>11, <3>1, <3>2, <3>3
    <3>5. SubSeq(S, 1, Len(S)) = S
      BY <1>4, SubSeqFull
    <3> QED
      BY <2>1, <3>1, <3>3, <3>4, <3>5
  <2>3. CASE Len(S) = Len(f.frames)
    <3>1. \A i \in 1 .. Len(S) : S[i] = f.frames[i]
      BY <1>4, <1>6, <1>8, <1>12, <2>3 DEF Lost
    <3>2. g.frames = f.frames
      BY <1>1, <1>4, <1>8, <2>3, <3>1, SeqEqual
    <3>3. CompleteFrames(g) = C
      BY <3>2 DEF CompleteFrames, C
    <3>4. SubSeq(C, 1, Len(C)) = C
      BY <1>2, SubSeqFull
    <3>5. Len(C) \in 0 .. Len(C) /\ Readable(g) = SubSeq(C, 1, Len(C))
      BY <1>1, <1>2, <2>1, <3>3, <3>4
    <3> QED
      BY <3>5
  <2> QED
    BY <1>1, <1>4, <2>2, <2>3
<1>13. ASSUME ~Lost(f.frames), Lost(g.frames)
       PROVE  \E n \in 0 .. Len(C) : Readable(g) = SubSeq(C, 1, n) /\ (f.synced <= n \/ n = Len(C))
  <2> DEFINE D == CompleteFrames(g)
  <2>1. PICK e \in 1 .. Len(D) :
          /\ Readable(g) = SubSeq(D, 1, e - 1)
          /\ D[e].kind = "Malformed"
          /\ \A i \in 1 .. e - 1 : D[i].kind # "Malformed"
    BY <1>3, <1>9, <1>13, ReadableElements
  <2>2. D \in Seq(Frames) /\ Len(D) \in Nat
    BY <1>3, <1>9, CompleteUntorn, FramesElements
  <2>3. Len(D) <= Len(S) /\ \A i \in 1 .. Len(D) : D[i] = S[i]
    <3>1. CASE Len(S) < Len(f.frames)
      <4>1. D = S
        BY <1>3, <1>4, <1>5, <1>7, <3>1, TornEnd
      <4> QED
        BY <1>1, <1>4, <4>1
    <3>2. CASE Len(S) = Len(f.frames)
      <4>1. /\ Len(D) \in 0 .. Len(g.frames)
            /\ \A i \in 1 .. Len(D) : D[i] = g.frames[i]
        BY <1>3, <1>9, CompleteUntorn
      <4>2. g.frames = S
        BY <1>8, <3>2
      <4> HIDE DEF D
      <4> QED
        BY <4>1, <4>2
    <3> QED
      BY <1>1, <1>4, <3>1, <3>2
  <2> HIDE DEF D
  <2>4. f.synced < e
    <3> SUFFICES ASSUME e <= f.synced PROVE FALSE
      BY <1>1, <2>2
    <3>1. e \in 1 .. f.synced /\ D[e] = f.frames[e]
      BY <1>1, <1>4, <2>2, <2>3
    <3>2. e \in 1 .. Len(f.frames)
      BY <1>1, <3>1
    <3> QED
      BY <1>13, <2>1, <3>1, <3>2 DEF Lost
  <2>5. e - 1 \in 0 .. Len(D) /\ e - 1 \in 0 .. Len(C) /\ f.synced <= e - 1
    BY <1>1, <1>2, <1>4, <2>2, <2>3, <2>4
  <2>6. \A i \in 1 .. e - 1 : D[i] = f.frames[i]
    <3> SUFFICES ASSUME NEW i \in 1 .. e - 1
                 PROVE  D[i] = f.frames[i]
      OBVIOUS
    <3>1. i \in 1 .. Len(D) /\ i \in 1 .. Len(S)
      BY <1>1, <1>4, <2>2, <2>3
    <3>2. D[i] = S[i] /\ S[i] # Malformed
      BY <1>6, <2>1, <2>3, <3>1
    <3> QED
      BY <1>4, <3>1, <3>2
  <2>7. SubSeq(D, 1, e - 1) = SubSeq(C, 1, e - 1)
    BY <1>1, <1>2, <1>11, <2>5, <2>6 DEF D
  <2> QED
    BY <2>1, <2>5, <2>7
<1> QED
  BY <1>3, <1>9, <1>10, <1>12, <1>13 DEF C

-------------------------------------------------------------------------------
(* Writing a group *)

\* An open store that was not poisoned has only whole groups in its file.
LEMMA HealthyFile ==
    ASSUME IInv, Healthy
    PROVE  /\ file \in FileType /\ file.synced = Len(file.frames)
           /\ WholeGroups(file.frames) /\ Untorn(file.frames) /\ ~Lost(file.frames)
           /\ CompleteFrames(file) = file.frames
           /\ pages = Snapshots(file.frames)
           /\ nextSequence = Cardinality(Ends(file.frames)) + 1
           /\ file.frames \in Seq(Frames) /\ Len(file.frames) \in Nat
<1>1. file \in FileType /\ file.frames \in Seq(Frames) /\ Len(file.frames) \in Nat
  BY FramesElements DEF IInv, TypeInv, FileType
<1>2. /\ file.synced = Len(file.frames)
      /\ ~EndsTorn(file.frames)
      /\ Latest(Ends(file.frames)) = Len(file.frames)
      /\ pages = Snapshots(file.frames)
      /\ nextSequence = Cardinality(Ends(file.frames)) + 1
  BY DEF IInv, HealthyInv
<1>3. ~Lost(file.frames) /\ TornIsLast(file.frames)
  BY DEF IInv, FileInv, Healthy
<1>4. CompleteFrames(file) = file.frames
  BY <1>2 DEF CompleteFrames
<1>5. Untorn(file.frames)
  BY <1>1, <1>3, <1>4, CompleteUntorn
<1>6. WholeGroups(file.frames)
  BY <1>1, <1>2, <1>3, <1>4 DEF IInv, FileInv, WholeGroups
<1> QED
  BY <1>1, <1>2, <1>3, <1>4, <1>5, <1>6

LEMMA BegunComplete ==
    ASSUME NEW frames, WholeGroups(frames), Untorn(frames), ~Lost(frames),
           NEW p \in Pages, NEW at \in Nat, NEW n \in 0 .. GroupFrames
    PROVE  Untorn(Begun(frames, p, at, n)) /\ ~Lost(Begun(frames, p, at, n))
<1> DEFINE G == Begun(frames, p, at, n)
           s == Cardinality(Ends(frames)) + 1
<1>1. /\ frames \in Seq(Frames) /\ Len(frames) \in Nat /\ s \in Nat
      /\ n \in Nat /\ GroupFrames \in Nat
  BY EndsElements, FramesElements, GroupAssumption DEF WholeGroups
<1>2. /\ Len(G) = Len(frames) + n
      /\ \A i \in 1 .. Len(frames) : G[i] = frames[i]
      /\ \A i \in 1 .. n : G[Len(frames) + i] = SnapshotFrame(p, at, s, i)
  BY BegunElements
<1>3. \A i \in 1 .. n : SnapshotFrame(p, at, s, i).kind = "Snapshot"
  BY DEF SnapshotFrame
<1> HIDE DEF G, s
<1>4. ASSUME NEW i \in 1 .. Len(G)
      PROVE  G[i].kind # "Torn" /\ G[i].kind # "Malformed"
  <2>1. CASE i <= Len(frames)
    <3>1. i \in 1 .. Len(frames)
      BY <1>1, <1>2, <2>1
    <3> QED
      BY <1>2, <3>1 DEF Untorn, Lost
  <2>2. CASE i > Len(frames)
    <3>1. i - Len(frames) \in 1 .. n /\ i = Len(frames) + (i - Len(frames))
      BY <1>1, <1>2, <2>2
    <3>2. G[i].kind = "Snapshot"
      BY <1>2, <1>3, <3>1
    <3> QED
      BY <3>2
  <2> QED
    BY <1>1, <1>2, <2>1, <2>2
<1> QED
  BY <1>4 DEF Untorn, Lost, G

LEMMA AppendedInTurn ==
    ASSUME NEW a \in Seq(Frames), NEW b \in Seq(Frames), NEW c \in Seq(Frames)
    PROVE  (a \o b) \o c = a \o (b \o c)
  BY ConcatAssociative, SMTT(30)

LEMMA ExtendedRecord ==
    ASSUME NEW f \in FileType, NEW frames
    PROVE  Extended(f, frames) = [frames |-> f.frames \o frames, synced |-> f.synced]
<1>1. f = [frames |-> f.frames, synced |-> f.synced]
  BY DEF FileType
<1> DEFINE longer == f.frames \o frames
<1>2. Extended(f, frames) = [f EXCEPT !.frames = longer]
  BY DEF Extended
<1> HIDE DEF longer
<1>3. [f EXCEPT !.frames = longer] = [frames |-> longer, synced |-> f.synced]
  BY <1>1
<1> QED
  BY <1>2, <1>3 DEF longer

\* The outcomes of writing a group, all that reaches the disk included.
Written(p, at) ==
    /\ file' = [frames |-> Begun(file.frames, p, at, GroupFrames),
                synced |-> Len(Begun(file.frames, p, at, GroupFrames))]
    /\ pages' = [pages EXCEPT ![p] = at]
    /\ nextSequence' = nextSequence + 1
    /\ UNCHANGED <<poisoned, faults>>

WriteFailed(p, at, n, tail) ==
    /\ file' = [frames |-> Begun(file.frames, p, at, n) \o tail, synced |-> file.synced]
    /\ n = GroupFrames => tail = <<>>
    /\ poisoned' = TRUE
    /\ faults' = faults + 1
    /\ UNCHANGED memory

LEMMA WriteOutcomes ==
    ASSUME IInv, owner # "Nobody", NEW p \in Pages, NEW at \in Nat,
           WriteSnapshotGroup(p, at)
    PROVE  /\ Healthy /\ owner' = owner
           /\ \/ Written(p, at)
              \/ \E n \in 0 .. GroupFrames, tail \in {<<>>, <<Torn>>} :
                    WriteFailed(p, at, n, tail)
<1> DEFINE s == Cardinality(Ends(file.frames)) + 1
           group == GroupOf(p, at, nextSequence)
           written == Extended(file, group)
           B(n) == Begun(file.frames, p, at, n)
<1>1. Healthy /\ owner' = owner
  BY DEF WriteSnapshotGroup, Healthy
<1>2. /\ file \in FileType /\ file.frames \in Seq(Frames) /\ WholeGroups(file.frames)
      /\ nextSequence = s /\ s \in Nat /\ GroupFrames \in Nat \ {0}
  BY <1>1, HealthyFile, EndsElements, GroupAssumption
<1>3. GroupFrames \in 0 .. GroupFrames
  BY <1>2
<1>4. /\ group \in Seq(Frames) /\ Len(group) = GroupFrames
      /\ SubSeq(group, 1, GroupFrames) = group
  BY <1>2, GroupElements
<1>5. \A n \in 0 .. GroupFrames : B(n) = file.frames \o SubSeq(group, 1, n)
  BY <1>2 DEF Begun
<1>6. written = [frames |-> B(GroupFrames), synced |-> file.synced]
  <2>1. written = [frames |-> file.frames \o group, synced |-> file.synced]
    BY <1>2, ExtendedRecord
  <2>2. B(GroupFrames) = file.frames \o group
    BY <1>3, <1>4, <1>5
  <2> QED
    BY <2>1, <2>2
<1>7. GroupSynced(written) = [frames |-> B(GroupFrames), synced |-> Len(B(GroupFrames))]
  BY <1>6 DEF GroupSynced, Synced
<1>8. ASSUME NEW g \in Interrupted(file, group)
      PROVE  \E n \in 0 .. GroupFrames, tail \in {<<>>, <<Torn>>} :
                /\ g = [frames |-> B(n) \o tail, synced |-> file.synced]
                /\ n = GroupFrames => tail = <<>>
  <2>1. PICK n \in 0 .. Len(group) - 1, tail \in {<<>>, <<Torn>>} :
            g = Extended(file, SubSeq(group, 1, n) \o tail)
    BY <1>8 DEF Interrupted
  <2>2. n \in 0 .. GroupFrames /\ n # GroupFrames
    BY <1>2, <1>4, <2>1
  <2>3. g = [frames |-> file.frames \o (SubSeq(group, 1, n) \o tail), synced |-> file.synced]
    BY <1>2, <2>1, ExtendedRecord
  <2>4. SubSeq(group, 1, n) \in Seq(Frames)
    BY <1>2, <2>2, GroupElements
  <2>5. tail \in Seq(Frames)
    BY TailType
  <2>6. file.frames \o (SubSeq(group, 1, n) \o tail) = B(n) \o tail
    <3>1. B(n) = file.frames \o SubSeq(group, 1, n)
      BY <1>5, <2>2
    <3> DEFINE part == SubSeq(group, 1, n)
    <3>2. part \in Seq(Frames)
      BY <2>4
    <3> HIDE DEF part
    <3>3. (file.frames \o part) \o tail = file.frames \o (part \o tail)
      BY <1>2, <2>5, <3>2, AppendedInTurn
    <3> QED
      BY <3>1, <3>3 DEF part
  <2> QED
    BY <2>2, <2>3, <2>6
<1>9. written = [frames |-> B(GroupFrames) \o <<>>, synced |-> file.synced]
  <2>1. B(GroupFrames) \in Seq(Frames)
    BY <1>2, <1>3, BegunElements
  <2> QED
    BY <1>6, <2>1, ConcatEmptySeq
<1> HIDE DEF group, written, B
<1>10. CASE /\ file' = GroupSynced(written)
            /\ pages' = [pages EXCEPT ![p] = at]
            /\ nextSequence' = nextSequence + 1
            /\ UNCHANGED <<poisoned, faults>>
  BY <1>1, <1>7, <1>10 DEF Written, B
<1>11. CASE /\ Fault
            /\ file' \in Interrupted(file, group) \cup {written}
            /\ poisoned' = TRUE
            /\ UNCHANGED memory
  <2>1. \E n \in 0 .. GroupFrames, tail \in {<<>>, <<Torn>>} :
            /\ file' = [frames |-> B(n) \o tail, synced |-> file.synced]
            /\ n = GroupFrames => tail = <<>>
    <3>1. CASE file' \in Interrupted(file, group)
      BY <1>8, <3>1
    <3>2. CASE file' = written
      BY <1>3, <1>9, <3>2
    <3> QED
      BY <1>11, <3>1, <3>2
  <2> QED
    BY <1>1, <1>11, <2>1 DEF WriteFailed, B, Fault
<1> QED
  BY <1>10, <1>11 DEF WriteSnapshotGroup, group, written

\* The invariant after a group was written, or part of it.
LEMMA WriteKeeps ==
    ASSUME IInv, owner # "Nobody", NEW p \in Pages, NEW at \in Nat,
           WriteSnapshotGroup(p, at)
    PROVE  /\ file' \in [frames : Seq(Frames), synced : Nat]
           /\ (file.synced <= Len(file.frames))'
           /\ pages' \in [Pages -> Nat] /\ nextSequence' \in Nat
           /\ poisoned' \in BOOLEAN /\ faults' \in Nat
           /\ FileInv' /\ OneGroupUnsynced' /\ HealthyInv' /\ ClosedInv'
<1> DEFINE F == file.frames
           B(n) == Begun(F, p, at, n)
<1>1. /\ Healthy /\ owner' = owner
      /\ \/ Written(p, at)
         \/ \E n \in 0 .. GroupFrames, tail \in {<<>>, <<Torn>>} : WriteFailed(p, at, n, tail)
  BY WriteOutcomes
<1>2. /\ file \in FileType /\ file.synced = Len(F)
      /\ WholeGroups(F) /\ Untorn(F) /\ ~Lost(F)
      /\ pages = Snapshots(F) /\ nextSequence = Cardinality(Ends(F)) + 1
      /\ F \in Seq(Frames) /\ Len(F) \in Nat
  BY <1>1, HealthyFile
<1>3. GroupFrames \in Nat \ {0} /\ Cardinality(Ends(F)) \in Nat /\ faults \in Nat
      /\ pages \in [Pages -> Nat] /\ poisoned = FALSE
  BY <1>1, <1>2, GroupAssumption, EndsElements DEF IInv, TypeInv, Healthy
<1>4. ASSUME NEW n \in 0 .. GroupFrames
      PROVE  /\ B(n) \in Seq(Frames) /\ Len(B(n)) = Len(F) + n
             /\ Sound(B(n)) /\ Untorn(B(n)) /\ ~Lost(B(n))
             /\ n = GroupFrames => Ends(B(n)) = Ends(F) \cup {Len(F) + GroupFrames}
             /\ n # GroupFrames => Ends(B(n)) = Ends(F)
  <2>1. WholeGroups(F) /\ Untorn(F) /\ ~Lost(F)
    BY <1>2
  <2> HIDE DEF F
  <2>2. B(n) \in Seq(Frames) /\ Len(B(n)) = Len(F) + n
    BY <2>1, BegunElements
  <2>3. Sound(B(n)) /\ Untorn(B(n)) /\ ~Lost(B(n))
    BY <2>1, BegunSound, BegunComplete
  <2>4. /\ n = GroupFrames => Ends(B(n)) = Ends(F) \cup {Len(F) + GroupFrames}
        /\ n # GroupFrames => Ends(B(n)) = Ends(F)
    BY <2>1, BegunEnds
  <2> QED
    BY <2>2, <2>3, <2>4
<1>5. Ends(F) \subseteq 1 .. Len(F)
  BY <1>2, EndsElements
<1> HIDE DEF B, F
<1>6. CASE Written(p, at)
  <2>1. GroupFrames \in 0 .. GroupFrames
    BY <1>3
  <2> DEFINE G == B(GroupFrames)
  <2>2. /\ G \in Seq(Frames) /\ Len(G) \in Nat /\ Sound(G) /\ Untorn(G) /\ ~Lost(G)
    BY <1>4, <2>1, FramesElements
  <2>3. /\ WholeGroups(G) /\ Cardinality(Ends(G)) = Cardinality(Ends(F)) + 1
        /\ Snapshots(G) = [Snapshots(F) EXCEPT ![p] = at]
    BY <1>2, <2>1, BegunSnapshots DEF B
  <2> HIDE DEF G
  <2>4. file' = [frames |-> G, synced |-> Len(G)]
    BY <1>6 DEF Written, G, B, F
  <2>5. file' \in [frames : Seq(Frames), synced : Nat] /\ file'.frames = G
        /\ file'.synced = Len(G)
    BY <2>2, <2>4
  <2>6. G \o <<>> = G
    BY <2>2, ConcatEmptySeq
  <2>7. /\ CompleteFrames(file') = G /\ TornIsLast(G)
    BY <2>2, <2>5, <2>6, TornEnd DEF FileType
  <2>8. ~EndsTorn(G)
    BY <2>2, EmptySeq DEF EndsTorn, Untorn
  <2>9. /\ pages' = Snapshots(G) /\ nextSequence' = Cardinality(Ends(G)) + 1
        /\ poisoned' = poisoned /\ faults' = faults
    BY <1>2, <1>3, <1>6, <2>3 DEF Written
  <2>10. pages' \in [Pages -> Nat] /\ nextSequence' \in Nat
    BY <1>2, <1>3, <1>6 DEF Written
  <2>11. FileInv'
    BY <2>2, <2>5, <2>7 DEF FileInv
  <2>12. OneGroupUnsynced'
    BY <2>2, <2>5, <2>7, EndsElements DEF OneGroupUnsynced
  <2>13. HealthyInv'
    BY <2>3, <2>5, <2>8, <2>9 DEF HealthyInv, WholeGroups
  <2>14. ClosedInv'
    BY <1>1, <1>3, <2>9 DEF ClosedInv
  <2>15. (file.synced <= Len(file.frames))' /\ poisoned' \in BOOLEAN /\ faults' \in Nat
    <3>1. file'.synced <= Len(file'.frames)
      BY <2>2, <2>5
    <3>2. poisoned' = FALSE /\ faults' \in Nat
      BY <1>3, <2>9
    <3> QED
      BY <3>1, <3>2
  <2> QED
    BY <2>5, <2>10, <2>11, <2>12, <2>13, <2>14, <2>15
<1>7. ASSUME NEW n \in 0 .. GroupFrames, NEW tail \in {<<>>, <<Torn>>},
             WriteFailed(p, at, n, tail)
      PROVE  /\ file' \in [frames : Seq(Frames), synced : Nat]
             /\ (file.synced <= Len(file.frames))'
             /\ pages' \in [Pages -> Nat] /\ nextSequence' \in Nat
             /\ poisoned' \in BOOLEAN /\ faults' \in Nat
             /\ FileInv' /\ OneGroupUnsynced' /\ HealthyInv' /\ ClosedInv'
  <2> DEFINE G == B(n)
  <2>1. /\ G \in Seq(Frames) /\ Len(G) = Len(F) + n /\ Sound(G) /\ Untorn(G) /\ ~Lost(G)
        /\ n = GroupFrames => Ends(G) = Ends(F) \cup {Len(G)}
        /\ n # GroupFrames => Ends(G) = Ends(F)
    BY <1>4
  <2> HIDE DEF G
  <2>2. file' = [frames |-> G \o tail, synced |-> Len(F)]
    BY <1>2, <1>7 DEF WriteFailed, G, B, F
  <2>3. G \o tail \in Seq(Frames)
    BY <2>1, TailType, ConcatProperties
  <2>4. /\ file' \in FileType /\ file'.frames = G \o tail /\ file'.synced = Len(F)
    BY <1>2, <2>2, <2>3 DEF FileType
  <2>5. /\ CompleteFrames(file') = G /\ TornIsLast(file'.frames) /\ ~Lost(file'.frames)
        /\ Len(G) <= Len(file'.frames)
    BY <2>1, <2>4, TornEnd
  <2>6. /\ poisoned' = TRUE /\ faults' = faults + 1
        /\ pages' = pages /\ nextSequence' = nextSequence
    BY <1>7 DEF WriteFailed, memory
  <2>7. FileInv'
    BY <2>1, <2>5 DEF FileInv
  <2>8. OneGroupUnsynced'
    <3>1. \A i \in Ends(G) : i <= Len(F) \/ i = Len(G)
      BY <1>2, <1>5, <2>1
    <3> QED
      BY <2>4, <2>5, <3>1 DEF OneGroupUnsynced
  <2>9. HealthyInv' /\ ClosedInv'
    BY <1>1, <2>6 DEF HealthyInv, ClosedInv, Healthy
  <2>10. (file.synced <= Len(file.frames))'
    <3>1. Len(file'.frames) \in Nat
      BY <2>3, <2>4, FramesElements
    <3> QED
      BY <1>2, <1>3, <2>1, <2>4, <2>5, <3>1
  <2> QED
    BY <1>2, <1>3, <2>4, <2>6, <2>7, <2>8, <2>9, <2>10 DEF FileType
<1> QED
  BY <1>1, <1>6, <1>7

-------------------------------------------------------------------------------
(* Opening the file *)

LEMMA SyncedRecord ==
    ASSUME NEW f \in FileType
    PROVE  /\ Synced(f) = [frames |-> f.frames, synced |-> Len(f.frames)]
           /\ Synced(f) \in FileType
           /\ CompleteFrames(Synced(f)) = CompleteFrames(f)
<1>1. f = [frames |-> f.frames, synced |-> f.synced] /\ Len(f.frames) \in Nat
  BY FramesElements DEF FileType
<1>2. Synced(f) = [frames |-> f.frames, synced |-> Len(f.frames)]
  BY <1>1 DEF Synced
<1> QED
  BY <1>1, <1>2 DEF FileType, CompleteFrames

\* A file that is accepted has lost no frame.
LEMMA AcceptedNotLost ==
    ASSUME NEW f \in FileType, TornIsLast(f.frames)
    PROVE  /\ Of(f.frames, "Malformed") = {} <=> ~Lost(f.frames)
           /\ Accepted(f) <=> ~Lost(f.frames) /\ Chained(CompleteFrames(f))
<1>1. /\ f.frames \in Seq(Frames) /\ DOMAIN f.frames = 1 .. Len(f.frames)
  BY FramesElements DEF FileType
<1>2. /\ CompleteFrames(f) \in Seq(Frames)
      /\ DOMAIN CompleteFrames(f) = 1 .. Len(CompleteFrames(f))
      /\ Lost(CompleteFrames(f)) <=> Lost(f.frames)
  BY CompleteUntorn, FramesElements
<1> QED
  BY <1>1, <1>2 DEF Accepted, Of, Lost, Chained

\* The repair of an open cuts off what is no whole group, and nothing that a reader finds.
LEMMA RepairedElements ==
    ASSUME NEW f \in FileType, TornIsLast(f.frames), ~Lost(f.frames),
           Sound(CompleteFrames(f))
    PROVE  /\ Repaired(f) \in FileType
           /\ Repaired(f).synced = Len(Repaired(f).frames)
           /\ WholeGroups(Repaired(f).frames)
           /\ Untorn(Repaired(f).frames) /\ ~Lost(Repaired(f).frames)
           /\ Ends(Repaired(f).frames) = Ends(CompleteFrames(f))
           /\ Snapshots(Repaired(f).frames) = Snapshots(CompleteFrames(f))
<1> DEFINE C == CompleteFrames(f)
           n == Latest(Ends(C))
           G == SubSeq(C, 1, n)
<1>1. /\ C \in Seq(Frames) /\ Len(C) \in Nat /\ Untorn(C) /\ ~Lost(C) /\ Sound(C)
  BY CompleteUntorn, FramesElements
<1> HIDE DEF C
<1>2. /\ n \in 0 .. Len(C) /\ \A i \in Ends(C) : i <= n
      /\ Ends(C) # {} => n \in Ends(C)
      /\ Ends(C) = {} => n = 0
      /\ Ends(C) \subseteq 1 .. Len(C)
  BY <1>1, EndsElements
<1>3. Repaired(f) = Synced([f EXCEPT !.frames = G])
  <2>1. Len(C) - Pending(C) = n
    BY <1>1, <1>2 DEF Pending
  <2> QED
    BY <2>1 DEF Repaired, C
<1>4. /\ G \in Seq(Frames) /\ Len(G) = n /\ \A i \in 1 .. n : G[i] = C[i]
      /\ Ends(G) = {i \in Ends(C) : i <= n} /\ Sound(G)
  BY <1>1, <1>2, PrefixElements, PrefixEnds, PrefixSound
<1> HIDE DEF G, n
<1>5. [f EXCEPT !.frames = G] \in FileType /\ [f EXCEPT !.frames = G].frames = G
  BY <1>4 DEF FileType
<1>6. /\ Repaired(f) \in FileType /\ Repaired(f).frames = G /\ Repaired(f).synced = Len(G)
  <2> DEFINE g == [f EXCEPT !.frames = G]
  <2>1. g \in FileType /\ g.frames = G
    BY <1>5
  <2> HIDE DEF g
  <2>2. Synced(g) = [frames |-> G, synced |-> Len(G)] /\ Synced(g) \in FileType
    BY <2>1, SyncedRecord
  <2> QED
    BY <1>3, <2>2 DEF g
<1>7. Ends(G) = Ends(C)
  BY <1>2, <1>4
<1>8. Untorn(G) /\ ~Lost(G)
  <2>1. \A i \in 1 .. n : i \in 1 .. Len(C)
    BY <1>1, <1>2
  <2> QED
    BY <1>1, <1>4, <2>1 DEF Untorn, Lost
<1>9. Snapshots(G) = Snapshots(C)
  <2>1. \A i \in Ends(G) : G[i] = C[i]
    BY <1>1, <1>2, <1>4, <1>7
  <2> QED
    BY <1>1, <1>4, <1>7, <2>1, SnapshotsOfEnds
<1>10. WholeGroups(G)
  BY <1>4, <1>7 DEF WholeGroups, n
<1> QED
  BY <1>6, <1>7, <1>8, <1>9, <1>10 DEF C

LEMMA UntornComplete ==
    ASSUME NEW f \in FileType, Untorn(f.frames)
    PROVE  CompleteFrames(f) = f.frames /\ TornIsLast(f.frames) /\ ~EndsTorn(f.frames)
<1>1. f.frames \in Seq(Frames)
  BY DEF FileType
<1>2. ~EndsTorn(f.frames)
  BY <1>1, EmptySeq DEF EndsTorn, Untorn
<1> QED
  BY <1>2 DEF CompleteFrames, Untorn, TornIsLast

\* What the invariant says of the file while nobody has the store open.
ClosedFile(f) ==
    /\ f \in FileType /\ f.synced = Len(f.frames) /\ TornIsLast(f.frames)
    /\ ~Lost(f.frames) => Sound(CompleteFrames(f))

LEMMA ClosedFileKeeps ==
    ASSUME ClosedFile(file'), owner' = "Nobody", poisoned' = FALSE
    PROVE  /\ file' \in [frames : Seq(Frames), synced : Nat]
           /\ (file.synced <= Len(file.frames))'
           /\ FileInv' /\ OneGroupUnsynced' /\ HealthyInv' /\ ClosedInv'
<1>1. /\ file' \in FileType /\ file'.synced = Len(file'.frames) /\ TornIsLast(file'.frames)
      /\ ~Lost(file'.frames) => Sound(CompleteFrames(file'))
  BY DEF ClosedFile
<1>2. Len(file'.frames) \in Nat
  BY <1>1, FramesElements DEF FileType
<1>3. /\ CompleteFrames(file') \in Seq(Frames)
      /\ Len(CompleteFrames(file')) \in 0 .. Len(file'.frames)
  BY <1>1, CompleteUntorn
<1>4. OneGroupUnsynced'
  BY <1>1, <1>2, <1>3, EndsElements DEF OneGroupUnsynced
<1>5. FileInv'
  BY <1>1 DEF FileInv
<1>6. HealthyInv' /\ ClosedInv'
  BY DEF HealthyInv, ClosedInv, Healthy
<1> QED
  BY <1>1, <1>2, <1>4, <1>5, <1>6 DEF FileType

\* The files that an interrupted open and a power loss leave.
LEMMA ClosedFiles ==
    ASSUME IInv
    PROVE  /\ ClosedFile(Synced(file))
           /\ Accepted(file) => ClosedFile(Repaired(file))
           /\ \A g \in AfterPowerLoss(file) : ClosedFile(g)
<1>1. /\ file \in FileType /\ file.synced <= Len(file.frames) /\ TornIsLast(file.frames)
      /\ ~Lost(file.frames) => Sound(CompleteFrames(file))
      /\ Lost(file.frames) => file.synced = Len(file.frames)
  BY DEF IInv, TypeInv, FileInv, FileType
<1>2. ClosedFile(Synced(file))
  <2>1. /\ Synced(file) \in FileType
        /\ Synced(file).frames = file.frames /\ Synced(file).synced = Len(file.frames)
        /\ CompleteFrames(Synced(file)) = CompleteFrames(file)
    BY <1>1, SyncedRecord
  <2> QED
    BY <1>1, <2>1 DEF ClosedFile
<1>3. ASSUME Accepted(file)
      PROVE  ClosedFile(Repaired(file))
  <2>1. ~Lost(file.frames)
    BY <1>1, <1>3, AcceptedNotLost
  <2>2. /\ Repaired(file) \in FileType /\ Repaired(file).synced = Len(Repaired(file).frames)
        /\ WholeGroups(Repaired(file).frames) /\ Untorn(Repaired(file).frames)
    BY <1>1, <2>1, RepairedElements
  <2>3. /\ CompleteFrames(Repaired(file)) = Repaired(file).frames
        /\ TornIsLast(Repaired(file).frames)
    BY <2>2, UntornComplete
  <2> QED
    BY <2>2, <2>3 DEF ClosedFile, WholeGroups
<1>4. ASSUME NEW g \in AfterPowerLoss(file)
      PROVE  ClosedFile(g)
  <2>1. /\ g \in FileType /\ g.synced = Len(g.frames) /\ TornIsLast(g.frames)
        /\ Lost(file.frames) => g.frames = file.frames
        /\ ~Lost(file.frames) =>
             \E n \in 0 .. Len(CompleteFrames(file)) :
                Readable(g) = SubSeq(CompleteFrames(file), 1, n)
    BY <1>1, PowerLossReads
  <2>2. ASSUME ~Lost(g.frames)
        PROVE  Sound(CompleteFrames(g))
    <3>1. ~Lost(file.frames)
      BY <2>1, <2>2
    <3>2. CompleteFrames(file) \in Seq(Frames) /\ Sound(CompleteFrames(file))
      BY <1>1, <3>1, CompleteUntorn
    <3>3. PICK n \in 0 .. Len(CompleteFrames(file)) :
            Readable(g) = SubSeq(CompleteFrames(file), 1, n)
      BY <2>1, <3>1
    <3>4. Readable(g) = CompleteFrames(g)
      BY <2>1, <2>2, ReadableElements
    <3> QED
      BY <3>2, <3>3, <3>4, PrefixSound
  <2> QED
    BY <2>1, <2>2 DEF ClosedFile
<1> QED
  BY <1>2, <1>3, <1>4

-------------------------------------------------------------------------------
(* The invariant *)

\* The files of an empty store.
LEMMA EmptyFile ==
    /\ <<>> \in Seq(Frames) /\ Len(<<>>) = 0
    /\ Ends(<<>>) = {} /\ Snapshots(<<>>) = NoPages
    /\ Cardinality(Ends(<<>>)) = 0 /\ Latest(Ends(<<>>)) = 0
    /\ ~EndsTorn(<<>>) /\ ~Lost(<<>>) /\ TornIsLast(<<>>) /\ Sound(<<>>)
<1>1. <<>> \in Seq(Frames) /\ Len(<<>>) = 0
  OBVIOUS
<1>2. Ends(<<>>) = {}
  <2>1. Ends(<<>>) \subseteq 1 .. Len(<<>>)
    BY <1>1, EndsElements
  <2> QED
    BY <1>1, <2>1
<1>3. Cardinality(Ends(<<>>)) = 0 /\ Latest(Ends(<<>>)) = 0
  BY <1>2, FS_EmptySet DEF Latest
<1>4. Snapshots(<<>>) = NoPages
  BY <1>2 DEF Snapshots, NoPages
<1>5. Sound(<<>>)
  BY <1>1, <1>2 DEF Sound, Chained, Numbered
<1> QED
  BY <1>1, <1>2, <1>3, <1>4, <1>5 DEF EndsTorn, Lost, TornIsLast

LEMMA InitInvariant ==
    ASSUME Init
    PROVE  IInv
<1> DEFINE f == [frames |-> <<>>, synced |-> 0]
<1>1. file = f /\ owner = "Recovery" /\ pages = NoPages /\ nextSequence = 1
      /\ poisoned = FALSE /\ faults = 0 /\ durable = NoPages /\ dirty = {}
  BY DEF Init
<1>2. file \in [frames : Seq(Frames), synced : Nat] /\ file.frames = <<>> /\ file.synced = 0
  BY <1>1, EmptyFile
<1>3. TypeInv
  <2>1. durable \in [Pages -> 0 .. MaxPosition] /\ pages \in [Pages -> Nat]
    BY <1>1, StoreBounds DEF NoPages
  <2>2. file.synced <= Len(file.frames)
    BY <1>2, EmptyFile
  <2> QED
    BY <1>1, <1>2, <2>1, <2>2 DEF TypeInv
<1>4. CompleteFrames(file) = <<>>
  BY <1>2, EmptyFile DEF CompleteFrames
<1> QED
  BY <1>1, <1>2, <1>3, <1>4, EmptyFile
  DEF IInv, FileInv, OneGroupUnsynced, HealthyInv, ClosedInv

LEMMA CommitImageKeeps ==
    ASSUME IInv, NEW p \in Pages, CommitImage(p)
    PROVE  IInv'
<1> DEFINE at == Latest({durable[q] : q \in Pages}) + 1
<1>1. at \in Nat
  <2>1. {durable[q] : q \in Pages} \in SUBSET (0 .. MaxPosition) /\ MaxPosition \in Nat
    BY StoreBounds DEF IInv, TypeInv
  <2>2. {durable[q] : q \in Pages} # {}
    BY PagesAssumption
  <2>3. Latest({durable[q] : q \in Pages}) \in 0 .. MaxPosition
    BY <2>1, <2>2, LatestIsLast DEF IsLatest
  <2> QED
    BY <2>3, StoreBounds
<1> HIDE DEF at
<1>2. /\ at <= MaxPosition
      /\ durable' = [durable EXCEPT ![p] = at]
      /\ dirty' = dirty \cup {[page |-> p, at |-> at]}
      /\ UNCHANGED <<storeVars, faults>>
  BY DEF CommitImage, at
<1>3. durable' \in [Pages -> 0 .. MaxPosition]
  BY <1>1, <1>2, StoreBounds DEF IInv, TypeInv
<1>4. dirty' \subseteq [page : Pages, at : Nat]
  BY <1>1, <1>2 DEF IInv, TypeInv
<1> QED
  BY <1>2, <1>3, <1>4
  DEF IInv, TypeInv, FileInv, OneGroupUnsynced, HealthyInv, ClosedInv, Healthy, storeVars, memory

LEMMA StepInvariant ==
    ASSUME IInv, [Next]_vars
    PROVE  IInv'
<1>1. /\ file \in FileType /\ durable \in [Pages -> 0 .. MaxPosition]
      /\ dirty \subseteq [page : Pages, at : Nat] /\ faults \in Nat
      /\ owner \in {"Nobody", "Recovery", "Live"}
  BY DEF IInv, TypeInv, FileType
<1>2. NoPages \in [Pages -> Nat]
  BY DEF NoPages
<1>3. ASSUME Open
      PROVE  IInv'
  <2>1. /\ Accepted(file) /\ file' = Repaired(file) /\ owner' = "Recovery"
        /\ pages' = Snapshots(CompleteFrames(file))
        /\ nextSequence' = Cardinality(Ends(CompleteFrames(file))) + 1
        /\ UNCHANGED <<durable, dirty, poisoned, faults>>
        /\ poisoned = FALSE
    BY <1>3 DEF Open, IInv, ClosedInv, TypeInv
  <2>2. TornIsLast(file.frames) /\ ~Lost(file.frames) /\ Sound(CompleteFrames(file))
    BY <1>1, <2>1, AcceptedNotLost DEF IInv, FileInv
  <2>3. /\ file' \in FileType /\ file'.synced = Len(file'.frames)
        /\ WholeGroups(file'.frames) /\ Untorn(file'.frames) /\ ~Lost(file'.frames)
        /\ Ends(file'.frames) = Ends(CompleteFrames(file))
        /\ Snapshots(file'.frames) = Snapshots(CompleteFrames(file))
    BY <1>1, <2>1, <2>2, RepairedElements
  <2>4. /\ CompleteFrames(file') = file'.frames
        /\ TornIsLast(file'.frames) /\ ~EndsTorn(file'.frames)
    BY <2>3, UntornComplete
  <2>5. CompleteFrames(file) \in Seq(Frames)
    BY <1>1, <2>2, CompleteUntorn
  <2>6. pages' \in [Pages -> Nat] /\ nextSequence' \in Nat /\ Len(file'.frames) \in Nat
    BY <2>1, <2>3, <2>5, SnapshotsType, EndsElements, FramesElements DEF FileType
  <2>7. TypeInv'
    <3>1. file'.synced <= Len(file'.frames)
      BY <2>3, <2>6
    <3>2. poisoned' \in BOOLEAN /\ owner' \in {"Nobody", "Recovery", "Live"}
      BY <2>1
    <3>3. /\ durable' \in [Pages -> 0 .. MaxPosition]
          /\ dirty' \subseteq [page : Pages, at : Nat] /\ faults' \in Nat
      BY <1>1, <2>1
    <3>4. file' \in [frames : Seq(Frames), synced : Nat]
      BY <2>3 DEF FileType
    <3> QED
      BY <2>6, <3>1, <3>2, <3>3, <3>4 DEF TypeInv
  <2>8. FileInv' /\ HealthyInv' /\ ClosedInv'
    BY <2>1, <2>3, <2>4 DEF FileInv, HealthyInv, ClosedInv, WholeGroups
  <2>9. OneGroupUnsynced'
    BY <2>3, <2>4, <2>6, EndsElements DEF OneGroupUnsynced, FileType
  <2> QED
    BY <2>7, <2>8, <2>9 DEF IInv
<1>4. ASSUME NEW p \in Pages, CompareAndReplace(p)
      PROVE  IInv'
  <2>1. /\ owner = "Recovery" /\ WriteSnapshotGroup(p, durable[p]) /\ durable[p] \in Nat
        /\ UNCHANGED <<durable, dirty>>
    BY <1>1, <1>4, StoreBounds DEF CompareAndReplace
  <2>2. owner' = owner
    BY <2>1 DEF WriteSnapshotGroup
  <2> QED
    BY <1>1, <2>1, <2>2, WriteKeeps DEF IInv, TypeInv
<1>5. ASSUME Recovered
      PROVE  IInv'
  BY <1>5
  DEF Recovered, IInv, TypeInv, FileInv, OneGroupUnsynced, HealthyInv, ClosedInv, Healthy, memory
<1>6. ASSUME Closed, UNCHANGED <<durable, dirty, file, faults>>, owner # "Nobody"
      PROVE  IInv'
  <2>1. /\ owner' = "Nobody" /\ poisoned' = FALSE /\ pages' = NoPages /\ nextSequence' = 0
    BY <1>6 DEF Closed
  <2>2. ~Lost(file.frames) /\ FileInv' /\ OneGroupUnsynced' /\ HealthyInv' /\ ClosedInv'
    BY <1>6, <2>1
    DEF IInv, FileInv, OneGroupUnsynced, HealthyInv, ClosedInv, Healthy
  <2> QED
    BY <1>1, <1>2, <1>6, <2>1, <2>2 DEF IInv, TypeInv
<1>7. ASSUME NEW p \in Pages, CommitImage(p)
      PROVE  IInv'
  BY <1>7, CommitImageKeeps
<1>8. ASSUME NEW page \in dirty, WritePage(page)
      PROVE  IInv'
  <2>1. /\ owner = "Live" /\ dirty' \subseteq [page : Pages, at : Nat] /\ UNCHANGED durable
        /\ page.page \in Pages /\ page.at \in Nat
        /\ WriteSnapshotGroup(page.page, page.at) \/ NothingWritten
    BY <1>1, <1>8 DEF WritePage
  <2>2. CASE WriteSnapshotGroup(page.page, page.at)
    <3>1. owner' = owner
      BY <2>2 DEF WriteSnapshotGroup
    <3> QED
      BY <1>1, <2>1, <2>2, <3>1, WriteKeeps DEF IInv, TypeInv
  <2>3. CASE NothingWritten
    <3>1. UNCHANGED <<storeVars>> /\ faults' \in Nat
      BY <1>1, <2>3 DEF NothingWritten, Fault
    <3> QED
      BY <1>1, <2>1, <3>1
      DEF IInv, TypeInv, FileInv, OneGroupUnsynced, HealthyInv, ClosedInv, Healthy,
          storeVars, memory
  <2> QED
    BY <2>1, <2>2, <2>3
<1>9. ASSUME PowerLoss
      PROVE  IInv'
  <2>1. /\ owner' = "Nobody" /\ poisoned' = FALSE /\ pages' = NoPages /\ nextSequence' = 0
        /\ dirty' = {} /\ durable' = durable /\ faults' = faults + 1
        /\ file' \in AfterPowerLoss(file)
    BY <1>9 DEF PowerLoss, Closed, Fault
  <2>2. ClosedFile(file')
    BY <2>1, ClosedFiles
  <2>3. /\ file' \in [frames : Seq(Frames), synced : Nat]
        /\ (file.synced <= Len(file.frames))'
        /\ FileInv' /\ OneGroupUnsynced' /\ HealthyInv' /\ ClosedInv'
    BY <2>1, <2>2, ClosedFileKeeps
  <2>4. /\ durable' \in [Pages -> 0 .. MaxPosition]
        /\ dirty' \subseteq [page : Pages, at : Nat] /\ faults' \in Nat
    BY <1>1, <2>1
  <2>5. pages' \in [Pages -> Nat] /\ nextSequence' \in Nat
    BY <1>2, <2>1
  <2>6. owner' \in {"Nobody", "Recovery", "Live"} /\ poisoned' \in BOOLEAN
    BY <2>1
  <2>7. TypeInv'
    BY <2>3, <2>4, <2>5, <2>6 DEF TypeInv
  <2> QED
    BY <2>3, <2>7 DEF IInv
<1>10. ASSUME OpenFails
       PROVE  IInv'
  <2>1. /\ owner = "Nobody" /\ UNCHANGED <<durable, dirty, owner, memory, poisoned>>
        /\ faults' \in Nat
        /\ file' = Synced(file) \/ (Accepted(file) /\ file' = Repaired(file))
    BY <1>1, <1>10 DEF OpenFails, Fault
  <2>2. ClosedFile(file')
    BY <2>1, ClosedFiles
  <2>3. poisoned' = FALSE /\ owner' = "Nobody"
    BY <2>1 DEF IInv, ClosedInv, TypeInv
  <2> QED
    BY <1>1, <2>1, <2>2, <2>3, ClosedFileKeeps DEF IInv, TypeInv, memory
<1>11. ASSUME UNCHANGED vars
       PROVE  IInv'
  BY <1>11
  DEF IInv, TypeInv, FileInv, OneGroupUnsynced, HealthyInv, ClosedInv, Healthy,
      vars, storeVars, memory
<1>12. ASSUME Drop \/ GiveUp
       PROVE  IInv'
  BY <1>6, <1>12 DEF Drop, GiveUp
<1> QED
  BY <1>3, <1>4, <1>5, <1>7, <1>8, <1>9, <1>10, <1>11, <1>12 DEF Next, RecoveryStep

(* The inductive invariant: every interrupted call leaves a file that a     *)
(* later open can repair, and an open store knows its file.                 *)
THEOREM StoreInvariant == Spec => []IInv
<1>1. Init => IInv
  BY InitInvariant
<1>2. IInv /\ [Next]_vars => IInv'
  BY StepInvariant
<1> QED
  BY <1>1, <1>2, PTL DEF Spec

LEMMA InvariantMatches ==
    ASSUME IInv
    PROVE  StoreMatchesFile
<1>1. /\ file \in FileType /\ TornIsLast(file.frames)
      /\ ~Lost(file.frames) => Sound(CompleteFrames(file))
  BY DEF IInv, TypeInv, FileInv, FileType
<1>2. Of(file.frames, "Malformed") = {} => Accepted(file)
  BY <1>1, AcceptedNotLost DEF Sound
<1>3. ASSUME Healthy
      PROVE  file = Repaired(file)
  <2>1. /\ file.synced = Len(file.frames) /\ CompleteFrames(file) = file.frames
        /\ WholeGroups(file.frames)
        /\ file.frames \in Seq(Frames) /\ Len(file.frames) \in Nat
    BY <1>3, HealthyFile
  <2>2. Pending(file.frames) = 0
    BY <2>1 DEF Pending, WholeGroups
  <2>3. SubSeq(file.frames, 1, Len(file.frames) - Pending(file.frames)) = file.frames
    BY <2>1, <2>2, SubSeqFull
  <2>4. file = [frames |-> file.frames, synced |-> Len(file.frames)]
    BY <1>1, <2>1 DEF FileType
  <2>5. [file EXCEPT !.frames = file.frames] = file
    BY <2>4
  <2>6. Repaired(file) = Synced(file)
    BY <2>1, <2>3, <2>5 DEF Repaired
  <2> QED
    BY <1>1, <2>4, <2>6, SyncedRecord
<1>4. Healthy => pages = Snapshots(file.frames)
                 /\ nextSequence = Cardinality(Ends(file.frames)) + 1
  BY HealthyFile
<1> QED
  BY <1>2, <1>3, <1>4 DEF StoreMatchesFile, Healthy

(* A store that is open and not poisoned agrees with its file, and whatever *)
(* failures leave is opened again unless a power loss took a frame before   *)
(* one that it kept.                                                        *)
THEOREM StoreAlwaysMatchesFile == Spec => []StoreMatchesFile
<1>1. IInv => StoreMatchesFile
  BY InvariantMatches
<1> QED
  BY <1>1, StoreInvariant, PTL

-------------------------------------------------------------------------------
(* The images that the file holds *)

SyncedPart(f) == [f EXCEPT !.frames = SubSeq(@, 1, f.synced)]

ImagesOf(f) ==
    [shown |-> Snapshots(Readable(SyncedPart(f))),
     possible |-> {Snapshots(Readable(SyncedPart(f))), Snapshots(Readable(f))}]

SettledAt(shown) == [shown |-> shown, possible |-> {shown}]

LEMMA ImagesAre ==
    /\ Images = ImagesOf(file)
    /\ Images' = ImagesOf(file')
<1>1. \A a, b :
        (CHOOSE images \in
            {[shown |-> s[1], possible |-> {s[1], s[2]}]
             : s \in {<<Snapshots(f[1]), Snapshots(f[2])>> : f \in {<<a, b>>}}} : TRUE)
        = [shown |-> Snapshots(a), possible |-> {Snapshots(a), Snapshots(b)}]
  <2> SUFFICES ASSUME NEW a, NEW b
               PROVE  (CHOOSE images \in
                        {[shown |-> s[1], possible |-> {s[1], s[2]}]
                         : s \in {<<Snapshots(f[1]), Snapshots(f[2])>> : f \in {<<a, b>>}}}
                            : TRUE)
                    = [shown |-> Snapshots(a), possible |-> {Snapshots(a), Snapshots(b)}]
    OBVIOUS
  <2> DEFINE x == Snapshots(a)
             y == Snapshots(b)
             T == {<<Snapshots(f[1]), Snapshots(f[2])>> : f \in {<<a, b>>}}
             U == {[shown |-> s[1], possible |-> {s[1], s[2]}] : s \in T}
             image == [shown |-> x, possible |-> {x, y}]
  <2>1. T = {<<x, y>>}
    OBVIOUS
  <2> HIDE DEF T, x, y
  <2>2. U = {image}
    BY <2>1
  <2> HIDE DEF U, image
  <2>3. (CHOOSE images \in U : TRUE) = image
    BY <2>2
  <2> QED
    BY <2>3 DEF U, T, image, x, y
<1>2. Images = ImagesOf(file)
  <2>1. Certain = Readable(SyncedPart(file))
    BY DEF Certain, SyncedPart
  <2> QED
    BY <1>1, <2>1 DEF Images, ImagesOf
<1>3. Images' = ImagesOf(file')
  <2>1. Certain' = Readable(SyncedPart(file'))
    BY DEF Certain, SyncedPart
  <2> QED
    BY <1>1, <2>1 DEF Images, ImagesOf
<1> QED
  BY <1>2, <1>3

LEMMA SyncedPartRecord ==
    ASSUME NEW f \in FileType, f.synced <= Len(f.frames)
    PROVE  /\ SyncedPart(f) \in FileType
           /\ SyncedPart(f).frames = SubSeq(f.frames, 1, f.synced)
           /\ f.synced = Len(f.frames) => SyncedPart(f) = f
<1>1. /\ f = [frames |-> f.frames, synced |-> f.synced]
      /\ f.frames \in Seq(Frames) /\ Len(f.frames) \in Nat /\ f.synced \in Nat
  BY FramesElements DEF FileType
<1> DEFINE part == SubSeq(f.frames, 1, f.synced)
<1>2. part \in Seq(Frames)
  BY <1>1, PrefixElements
<1>3. f.synced = Len(f.frames) => part = f.frames
  BY <1>1, SubSeqFull
<1>4. SyncedPart(f) = [f EXCEPT !.frames = part]
  BY DEF SyncedPart
<1> HIDE DEF part
<1>5. [f EXCEPT !.frames = part] = [frames |-> part, synced |-> f.synced]
  BY <1>1
<1> QED
  BY <1>1, <1>2, <1>3, <1>4, <1>5 DEF FileType, part

\* A file that is permanent leaves nothing open.
LEMMA PermanentImages ==
    ASSUME NEW f \in FileType, f.synced = Len(f.frames)
    PROVE  ImagesOf(f) = SettledAt(Snapshots(Readable(f)))
<1>1. f.synced <= Len(f.frames)
  BY FramesElements DEF FileType
<1>2. SyncedPart(f) = f
  BY <1>1, SyncedPartRecord
<1> QED
  BY <1>2 DEF ImagesOf, SettledAt

\* What can be read is decided by the frames.
LEMMA ReadableSynced ==
    ASSUME NEW f \in FileType
    PROVE  Readable(Synced(f)) = Readable(f)
  BY SyncedRecord DEF Readable

\* The permanent part of a file that has lost nothing.
LEMMA CertainFrames ==
    ASSUME NEW f \in FileType, f.synced <= Len(f.frames), TornIsLast(f.frames),
           ~Lost(f.frames)
    PROVE  \E n \in 0 .. Len(CompleteFrames(f)) :
              /\ Readable(SyncedPart(f)) = SubSeq(CompleteFrames(f), 1, n)
              /\ n <= f.synced
              /\ n = f.synced \/ n = Len(CompleteFrames(f))
<1> DEFINE C == CompleteFrames(f)
           D == SubSeq(f.frames, 1, f.synced)
<1>1. /\ C \in Seq(Frames) /\ Len(C) \in 0 .. Len(f.frames)
      /\ Len(f.frames) <= Len(C) + 1
      /\ \A i \in 1 .. Len(C) : C[i] = f.frames[i]
      /\ f.frames \in Seq(Frames) /\ Len(f.frames) \in Nat /\ f.synced \in Nat
  BY CompleteUntorn, FramesElements DEF FileType
<1>2. CASE f.synced = Len(f.frames)
  <2>1. SyncedPart(f) = f
    BY <1>2, SyncedPartRecord
  <2>2. Readable(f) = C
    BY ReadableElements
  <2>3. C = SubSeq(C, 1, Len(C))
    BY <1>1, SubSeqFull
  <2> HIDE DEF C
  <2>4. Len(C) \in 0 .. Len(C) /\ Len(C) <= f.synced
    BY <1>1, <1>2
  <2> QED
    BY <2>1, <2>2, <2>3, <2>4 DEF C
<1>3. CASE f.synced < Len(f.frames)
  <2>1. /\ D \in Seq(Frames) /\ Len(D) = f.synced
        /\ \A i \in 1 .. f.synced : D[i] = f.frames[i]
    BY <1>1, <1>3, PrefixElements
  <2>2. SyncedPart(f) \in FileType /\ SyncedPart(f).frames = D
    BY SyncedPartRecord
  <2> HIDE DEF D, C
  <2>3. Untorn(D) /\ ~Lost(D)
    <3>1. \A i \in 1 .. f.synced : i \in 1 .. Len(f.frames) /\ i # Len(f.frames)
      BY <1>1, <1>3
    <3> QED
      BY <2>1, <3>1 DEF Untorn, Lost, TornIsLast
  <2>4. Readable(SyncedPart(f)) = D
    BY <2>2, <2>3, UntornComplete, ReadableElements
  <2>5. f.synced \in 0 .. Len(C)
    BY <1>1, <1>3
  <2>6. /\ SubSeq(C, 1, f.synced) \in Seq(Frames) /\ Len(SubSeq(C, 1, f.synced)) = f.synced
        /\ \A i \in 1 .. f.synced : SubSeq(C, 1, f.synced)[i] = C[i]
    BY <1>1, <2>5, PrefixElements
  <2>7. \A i \in 1 .. f.synced : i \in 1 .. Len(C)
    BY <1>1, <2>5
  <2>8. D = SubSeq(C, 1, f.synced)
    BY <1>1, <2>1, <2>6, <2>7, SeqEqual
  <2> QED
    BY <1>1, <2>4, <2>5, <2>8 DEF C
<1> QED
  BY <1>1, <1>2, <1>3

\* A reader finds one of the two possible images in whatever of the file is left to read.
LEMMA PrefixImages ==
    ASSUME NEW f \in FileType, f.synced <= Len(f.frames), TornIsLast(f.frames),
           ~Lost(f.frames), Sound(CompleteFrames(f)),
           \A i \in Ends(CompleteFrames(f)) : i <= f.synced \/ i = Len(CompleteFrames(f)),
           NEW n \in 0 .. Len(CompleteFrames(f)),
           f.synced <= n \/ n = Len(CompleteFrames(f))
    PROVE  Snapshots(SubSeq(CompleteFrames(f), 1, n)) \in ImagesOf(f).possible
<1> DEFINE C == CompleteFrames(f)
<1>1. C \in Seq(Frames) /\ Len(C) \in Nat /\ f.synced \in Nat
  BY CompleteUntorn, FramesElements DEF FileType
<1>2. PICK m \in 0 .. Len(C) :
          /\ Readable(SyncedPart(f)) = SubSeq(C, 1, m)
          /\ m <= f.synced
          /\ m = f.synced \/ m = Len(C)
  BY CertainFrames
<1>3. Readable(f) = C
  BY ReadableElements
<1> HIDE DEF C
<1>4. CASE n = Len(C)
  <2>1. SubSeq(C, 1, n) = C
    BY <1>1, <1>4, SubSeqFull
  <2> QED
    BY <1>3, <2>1 DEF ImagesOf, C
<1>5. CASE n # Len(C)
  <2>1. f.synced <= n /\ n < Len(C) /\ m = f.synced /\ m <= n
    BY <1>1, <1>2, <1>5 DEF C
  <2>2. /\ SubSeq(C, 1, n) \in Seq(Frames) /\ SubSeq(C, 1, m) \in Seq(Frames)
        /\ \A i \in 1 .. n : SubSeq(C, 1, n)[i] = C[i]
        /\ \A i \in 1 .. m : SubSeq(C, 1, m)[i] = C[i]
        /\ Ends(SubSeq(C, 1, n)) = {i \in Ends(C) : i <= n}
        /\ Ends(SubSeq(C, 1, m)) = {i \in Ends(C) : i <= m}
    BY <1>1, PrefixElements, PrefixEnds DEF C
  <2>3. Ends(C) \subseteq 1 .. Len(C)
    BY <1>1, EndsElements
  <2>4. \A i \in Ends(C) : i <= n <=> i <= m
    BY <1>1, <2>1, <2>3 DEF C
  <2>5. Ends(SubSeq(C, 1, n)) = Ends(SubSeq(C, 1, m))
    BY <2>2, <2>4
  <2>6. \A i \in Ends(SubSeq(C, 1, n)) : i \in 1 .. m /\ i \in 1 .. n
    BY <1>1, <2>1, <2>2, <2>3, <2>4
  <2>7. Snapshots(SubSeq(C, 1, n)) = Snapshots(SubSeq(C, 1, m))
    BY <2>2, <2>5, <2>6, SnapshotsOfEnds
  <2> QED
    BY <1>2, <2>7 DEF ImagesOf, C
<1> QED
  BY <1>4, <1>5

-------------------------------------------------------------------------------
(* The store implements PageImages *)

\* What the invariant says of the file, whoever has it open.
LEMMA FileFacts ==
    ASSUME IInv
    PROVE  /\ file \in FileType /\ file.synced <= Len(file.frames) /\ TornIsLast(file.frames)
           /\ Lost(file.frames) => file.synced = Len(file.frames)
           /\ ~Lost(file.frames) => Sound(CompleteFrames(file))
           /\ \A i \in Ends(CompleteFrames(file)) :
                i <= file.synced \/ i = Len(CompleteFrames(file))
           /\ Snapshots(Readable(file)) \in ImagesOf(file).possible
  BY DEF IInv, TypeInv, FileInv, OneGroupUnsynced, FileType, ImagesOf

\* An open and a power loss decide for one of the possible images.
LEMMA OpenDecides ==
    ASSUME IInv
    PROVE  /\ ImagesOf(Synced(file)) = SettledAt(Snapshots(Readable(file)))
           /\ Accepted(file) =>
                ImagesOf(Repaired(file)) = SettledAt(Snapshots(Readable(file)))
<1>1. /\ file \in FileType /\ TornIsLast(file.frames)
      /\ ~Lost(file.frames) => Sound(CompleteFrames(file))
  BY FileFacts
<1>2. ImagesOf(Synced(file)) = SettledAt(Snapshots(Readable(file)))
  <2>1. Synced(file) \in FileType /\ Synced(file).synced = Len(Synced(file).frames)
    BY <1>1, SyncedRecord
  <2> QED
    BY <1>1, <2>1, PermanentImages, ReadableSynced
<1>3. ASSUME Accepted(file)
      PROVE  ImagesOf(Repaired(file)) = SettledAt(Snapshots(Readable(file)))
  <2> DEFINE g == Repaired(file)
  <2>1. ~Lost(file.frames)
    BY <1>1, <1>3, AcceptedNotLost
  <2>2. /\ g \in FileType /\ g.synced = Len(g.frames) /\ Untorn(g.frames) /\ ~Lost(g.frames)
        /\ Snapshots(g.frames) = Snapshots(CompleteFrames(file))
    BY <1>1, <2>1, RepairedElements
  <2> HIDE DEF g
  <2>3. Readable(g) = g.frames /\ Readable(file) = CompleteFrames(file)
    BY <1>1, <2>1, <2>2, UntornComplete, ReadableElements
  <2>4. ImagesOf(g) = SettledAt(Snapshots(Readable(g)))
    BY <2>2, PermanentImages
  <2> QED
    BY <2>2, <2>3, <2>4 DEF g
<1> QED
  BY <1>2, <1>3

LEMMA PowerLossDecides ==
    ASSUME IInv, NEW g \in AfterPowerLoss(file)
    PROVE  \E shown \in ImagesOf(file).possible : ImagesOf(g) = SettledAt(shown)
<1>1. /\ file \in FileType /\ file.synced <= Len(file.frames) /\ TornIsLast(file.frames)
      /\ Lost(file.frames) => file.synced = Len(file.frames)
      /\ ~Lost(file.frames) => Sound(CompleteFrames(file))
      /\ \A i \in Ends(CompleteFrames(file)) :
            i <= file.synced \/ i = Len(CompleteFrames(file))
      /\ Snapshots(Readable(file)) \in ImagesOf(file).possible
  BY FileFacts
<1>2. /\ g \in FileType /\ g.synced = Len(g.frames) /\ TornIsLast(g.frames)
      /\ Lost(file.frames) => g.frames = file.frames
      /\ ~Lost(file.frames) =>
            \E n \in 0 .. Len(CompleteFrames(file)) :
                /\ Readable(g) = SubSeq(CompleteFrames(file), 1, n)
                /\ file.synced <= n \/ n = Len(CompleteFrames(file))
  BY <1>1, PowerLossReads
<1>3. ImagesOf(g) = SettledAt(Snapshots(Readable(g)))
  BY <1>2, PermanentImages
<1>4. Snapshots(Readable(g)) \in ImagesOf(file).possible
  <2>1. CASE Lost(file.frames)
    <3>1. Readable(g) = Readable(file)
      BY <1>2, <2>1 DEF Readable, CompleteFrames
    <3> QED
      BY <1>1, <3>1
  <2>2. CASE ~Lost(file.frames)
    <3>1. PICK n \in 0 .. Len(CompleteFrames(file)) :
            /\ Readable(g) = SubSeq(CompleteFrames(file), 1, n)
            /\ file.synced <= n \/ n = Len(CompleteFrames(file))
      BY <1>2, <2>2
    <3>2. Snapshots(SubSeq(CompleteFrames(file), 1, n)) \in ImagesOf(file).possible
      BY <1>1, <2>2, <3>1, PrefixImages
    <3> QED
      BY <3>1, <3>2
  <2> QED
    BY <2>1, <2>2
<1> QED
  BY <1>3, <1>4

\* A write replaces the image of its page, or leaves it open whether it does.
LEMMA WriteReplaces ==
    ASSUME IInv, owner # "Nobody", NEW p \in Pages, NEW at \in Nat,
           WriteSnapshotGroup(p, at)
    PROVE  \E old, new \in [Pages -> Nat] :
              /\ ImagesOf(file) = SettledAt(old)
              /\ new = [old EXCEPT ![p] = at]
              /\ \/ ImagesOf(file') = SettledAt(new)
                 \/ ImagesOf(file') = SettledAt(old)
                 \/ ImagesOf(file') = [shown |-> old, possible |-> {old, new}]
<1> DEFINE F == file.frames
           B(n) == Begun(F, p, at, n)
           old == Snapshots(F)
           new == [old EXCEPT ![p] = at]
<1>1. /\ Healthy
      /\ \/ Written(p, at)
         \/ \E n \in 0 .. GroupFrames, tail \in {<<>>, <<Torn>>} : WriteFailed(p, at, n, tail)
  BY WriteOutcomes
<1>2. /\ file \in FileType /\ file.synced = Len(F)
      /\ WholeGroups(F) /\ Untorn(F) /\ ~Lost(F)
      /\ F \in Seq(Frames) /\ Len(F) \in Nat
  BY <1>1, HealthyFile
<1>3. GroupFrames \in 0 .. GroupFrames
  BY GroupAssumption
<1>4. old \in [Pages -> Nat] /\ new \in [Pages -> Nat]
  BY <1>2, SnapshotsType
<1>5. ImagesOf(file) = SettledAt(old)
  <2>1. Readable(file) = F
    BY <1>2, UntornComplete, ReadableElements
  <2> QED
    BY <1>2, <2>1, PermanentImages
<1>6. ASSUME NEW n \in 0 .. GroupFrames
      PROVE  /\ B(n) \in Seq(Frames) /\ Len(B(n)) = Len(F) + n
             /\ \A i \in 1 .. Len(F) : B(n)[i] = F[i]
             /\ Untorn(B(n)) /\ ~Lost(B(n))
             /\ n = GroupFrames => Snapshots(B(n)) = new
             /\ n # GroupFrames => Snapshots(B(n)) = old
  <2>1. WholeGroups(F) /\ Untorn(F) /\ ~Lost(F)
    BY <1>2
  <2> HIDE DEF F
  <2>2. /\ B(n) \in Seq(Frames) /\ Len(B(n)) = Len(F) + n
        /\ \A i \in 1 .. Len(F) : B(n)[i] = F[i]
    BY <2>1, BegunElements
  <2>3. Untorn(B(n)) /\ ~Lost(B(n))
    BY <2>1, BegunComplete
  <2>4. /\ n = GroupFrames => Snapshots(B(n)) = new
        /\ n # GroupFrames => Snapshots(B(n)) = old
    BY <2>1, BegunSnapshots
  <2> QED
    BY <2>2, <2>3, <2>4
<1> HIDE DEF B, F, old, new
<1>7. ASSUME Written(p, at)
      PROVE  ImagesOf(file') = SettledAt(new)
  <2> DEFINE G == B(GroupFrames)
  <2>1. /\ G \in Seq(Frames) /\ Len(G) \in Nat /\ Untorn(G) /\ ~Lost(G) /\ Snapshots(G) = new
    BY <1>3, <1>6, FramesElements
  <2>2. file' = [frames |-> G, synced |-> Len(G)]
    BY <1>7 DEF Written, B, F
  <2> HIDE DEF G
  <2>3. file' \in FileType /\ file'.frames = G /\ file'.synced = Len(file'.frames)
    BY <2>1, <2>2 DEF FileType
  <2>4. Readable(file') = G
    BY <2>1, <2>3, UntornComplete, ReadableElements
  <2> QED
    BY <2>1, <2>3, <2>4, PermanentImages
<1>8. ASSUME NEW n \in 0 .. GroupFrames, NEW tail \in {<<>>, <<Torn>>},
             WriteFailed(p, at, n, tail)
      PROVE  \/ ImagesOf(file') = SettledAt(old)
             \/ ImagesOf(file') = [shown |-> old, possible |-> {old, new}]
  <2> DEFINE G == B(n)
             part == SyncedPart(file')
  <2>1. /\ G \in Seq(Frames) /\ Len(G) = Len(F) + n
        /\ \A i \in 1 .. Len(F) : G[i] = F[i]
        /\ Untorn(G) /\ ~Lost(G)
        /\ n = GroupFrames => Snapshots(G) = new
        /\ n # GroupFrames => Snapshots(G) = old
    BY <1>6
  <2>2. file' = [frames |-> G \o tail, synced |-> Len(F)]
    BY <1>2, <1>8 DEF WriteFailed, B, F
  <2> HIDE DEF G, part
  <2>3. G \o tail \in Seq(Frames)
    BY <2>1, TailType, ConcatProperties
  <2>4. /\ file' \in FileType /\ file'.frames = G \o tail /\ file'.synced = Len(F)
    BY <1>2, <2>2, <2>3 DEF FileType
  <2>5. /\ CompleteFrames(file') = G /\ TornIsLast(file'.frames) /\ ~Lost(file'.frames)
        /\ Len(G) <= Len(file'.frames) /\ Len(file'.frames) \in Nat
    BY <2>1, <2>3, <2>4, TornEnd, FramesElements
  <2>6. Readable(file') = G
    BY <2>4, <2>5, ReadableElements
  <2>7. n \in Nat /\ Len(F) <= Len(file'.frames) /\ Len(F) \in 0 .. Len(G)
    BY <1>2, <2>1, <2>5, GroupAssumption
  <2>8. PICK m \in 0 .. Len(G) :
          /\ Readable(part) = SubSeq(G, 1, m)
          /\ m <= Len(F)
          /\ m = Len(F) \/ m = Len(G)
    BY <2>4, <2>5, <2>7, CertainFrames DEF part
  <2>9. m = Len(F)
    BY <1>2, <2>1, <2>7, <2>8
  <2>10. SubSeq(G, 1, Len(F)) = F
    BY <1>2, <2>1, <2>7, PrefixElements, SeqEqual
  <2>11. ImagesOf(file') = [shown |-> old, possible |-> {old, Snapshots(G)}]
    BY <2>6, <2>8, <2>9, <2>10 DEF ImagesOf, part, old
  <2> QED
    BY <2>1, <2>11 DEF SettledAt
<1>9. new = [old EXCEPT ![p] = at]
  BY DEF new
<1> QED
  BY <1>1, <1>4, <1>5, <1>7, <1>8, <1>9

LEMMA StoreStep ==
    ASSUME IInv, [Next]_vars
    PROVE  [AsPageImages!Next]_Images
<1> DEFINE old == ImagesOf(file)
           new == ImagesOf(file')
<1>1. Images = old /\ Images' = new
  BY ImagesAre
<1>2. SUFFICES \/ new = old
               \/ AsPageImages!Write(old, new)
               \/ AsPageImages!Attempt(old, new)
               \/ AsPageImages!Decide(old, new)
  BY <1>1 DEF AsPageImages!Next
<1>3. ASSUME UNCHANGED file
      PROVE  new = old
  BY <1>3
<1>4. ASSUME NEW shown \in old.possible, new = SettledAt(shown)
      PROVE  AsPageImages!Decide(old, new)
  <2>1. new.shown = shown
    BY <1>4 DEF SettledAt
  <2> HIDE DEF old, new
  <2> QED
    BY <1>4, <2>1 DEF AsPageImages!Decide, AsPageImages!Settled, AsPageImages!At, SettledAt
<1>5. ASSUME Open \/ (OpenFails /\ owner = "Nobody")
      PROVE  AsPageImages!Decide(old, new)
  <2>1. file' = Synced(file) \/ (Accepted(file) /\ file' = Repaired(file))
    BY <1>5 DEF Open, OpenFails
  <2>2. new = SettledAt(Snapshots(Readable(file)))
    BY <2>1, OpenDecides
  <2>3. Snapshots(Readable(file)) \in old.possible
    BY FileFacts
  <2> QED
    BY <1>4, <2>2, <2>3
<1>6. ASSUME PowerLoss
      PROVE  AsPageImages!Decide(old, new)
  <2>1. file' \in AfterPowerLoss(file)
    BY <1>6 DEF PowerLoss
  <2>2. \E shown \in old.possible : new = SettledAt(shown)
    BY <2>1, PowerLossDecides
  <2> QED
    BY <1>4, <2>2
<1>7. ASSUME owner # "Nobody", NEW p \in Pages, NEW at \in Nat, WriteSnapshotGroup(p, at)
      PROVE  \/ new = old
             \/ AsPageImages!Write(old, new)
             \/ AsPageImages!Attempt(old, new)
  <2>1. PICK before, after \in [Pages -> Nat] :
          /\ old = SettledAt(before)
          /\ after = [before EXCEPT ![p] = at]
          /\ \/ new = SettledAt(after)
             \/ new = SettledAt(before)
             \/ new = [shown |-> before, possible |-> {before, after}]
    BY <1>7, WriteReplaces
  <2> HIDE DEF old, new
  <2>2. AsPageImages!Replaced(before, after)
    BY <2>1 DEF AsPageImages!Replaced
  <2>3. AsPageImages!Settled(old) /\ old.shown = before
    BY <2>1 DEF AsPageImages!Settled, AsPageImages!At, SettledAt
  <2>4. CASE new = SettledAt(after)
    <3>1. AsPageImages!Settled(new) /\ new.shown = after
      BY <2>4 DEF AsPageImages!Settled, AsPageImages!At, SettledAt
    <3> QED
      BY <2>2, <2>3, <3>1 DEF AsPageImages!Write
  <2>5. CASE new = SettledAt(before)
    BY <2>1, <2>5
  <2>6. CASE new = [shown |-> before, possible |-> {before, after}]
    <3>1. new.shown = before /\ new.possible = {before, after}
      BY <2>6
    <3> QED
      BY <2>2, <2>3, <3>1 DEF AsPageImages!Attempt
  <2> QED
    BY <2>1, <2>4, <2>5, <2>6
<1>8. ASSUME NEW p \in Pages, CompareAndReplace(p)
      PROVE  \/ new = old
             \/ AsPageImages!Write(old, new)
             \/ AsPageImages!Attempt(old, new)
  <2>1. owner # "Nobody" /\ WriteSnapshotGroup(p, durable[p]) /\ durable[p] \in Nat
    BY <1>8, StoreBounds DEF CompareAndReplace, IInv, TypeInv
  <2> QED
    BY <1>7, <2>1
<1>9. ASSUME NEW page \in dirty, WritePage(page)
      PROVE  \/ new = old
             \/ AsPageImages!Write(old, new)
             \/ AsPageImages!Attempt(old, new)
  <2>1. /\ owner # "Nobody" /\ page.page \in Pages /\ page.at \in Nat
        /\ WriteSnapshotGroup(page.page, page.at) \/ NothingWritten
    BY <1>9 DEF WritePage, IInv, TypeInv
  <2>2. CASE NothingWritten
    BY <1>3, <2>2 DEF NothingWritten, storeVars
  <2> QED
    BY <1>7, <2>1, <2>2
<1>10. ASSUME \/ Recovered \/ GiveUp \/ Drop \/ UNCHANGED vars
              \/ \E p \in Pages : CommitImage(p)
       PROVE  UNCHANGED file
  BY <1>10 DEF Recovered, GiveUp, Drop, CommitImage, vars, storeVars
<1>11. OpenFails => owner = "Nobody"
  BY DEF OpenFails
<1> QED
  BY <1>3, <1>5, <1>6, <1>8, <1>9, <1>10, <1>11 DEF Next, RecoveryStep

LEMMA StoreInit ==
    ASSUME Init
    PROVE  AsPageImages!Init
<1>1. file = [frames |-> <<>>, synced |-> 0]
  BY DEF Init
<1>2. file \in FileType /\ file.frames = <<>> /\ file.synced = Len(file.frames)
  BY <1>1, EmptyFile DEF FileType
<1>3. Untorn(<<>>)
  BY EmptyFile DEF Untorn
<1>4. Readable(file) = <<>>
  BY <1>2, <1>3, EmptyFile, UntornComplete, ReadableElements
<1>5. ImagesOf(file) = SettledAt(NoPages)
  BY <1>2, <1>4, EmptyFile, PermanentImages
<1> QED
  BY <1>5, ImagesAre DEF AsPageImages!Init, AsPageImages!At, SettledAt, NoPages

(* Through partial groups, failed syncs, poison, drops, repairs and power   *)
(* losses a page shows the last snapshot that was reported written, or a    *)
(* whole later one whose write failed.                                      *)
THEOREM StoreImplementsPageImages == Spec => ImplementsPageImages
<1>1. Init => AsPageImages!Init
  BY StoreInit
<1>2. IInv /\ [Next]_vars => [AsPageImages!Next]_Images
  BY StoreStep
<1> QED
  BY <1>1, <1>2, StoreInvariant, PTL DEF Spec, ImplementsPageImages, AsPageImages!Spec
=============================================================================
