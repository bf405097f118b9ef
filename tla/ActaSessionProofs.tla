------------------------- MODULE ActaSessionProofs -------------------------
(***************************************************************************)
(* What the operators of ActaFile return, for every file, and proofs about *)
(* ActaSession, for any set of processes and files, any row                *)
(* target and any bounds: its types, who holds which lock, the safety of   *)
(* append sessions and repairs, and what no session, repair or loss of     *)
(* power takes away: the committed frames of the path, and of them the     *)
(* ones reported durable.  Then what a repair says of its tail, that       *)
(* the path behaves as a log, and, about ActaLive, what a reader and its   *)
(* tail see of a path on which processes create, append, die and repair:   *)
(* committed frames only, each of them once.                               *)
(***************************************************************************)
EXTENDS ActaLive, ActaFoldProofs

-----------------------------------------------------------------------------
(* Files                                                                   *)

\* The runs of a file, and the last of them.
LEMMA RunsOfFile ==
    ASSUME NEW f \in Seq(Run)
    PROVE  /\ Len(f) \in Nat
           /\ \A k \in 1..Len(f) : f[k] \in Run
           /\ f # <<>> => Len(f) \in Nat \ {0} /\ f[Len(f)] \in Run
  BY LenProperties, ElementOfSeq, EmptySeq

LEMMA IntervalCardinality ==
    ASSUME NEW n \in Nat
    PROVE  IsFiniteSet(1..n) /\ Cardinality(1..n) = n
<1>1. 1 \in Int /\ n \in Int
  OBVIOUS
<1>2. IsFiniteSet(1..n) /\ Cardinality(1..n) = IF 1 > n THEN 0 ELSE n - 1 + 1
  BY <1>1, FS_Interval
<1> QED
  BY <1>2

\* The walk accepts no more frames than the file has runs.
LEMMA FrameCountType ==
    ASSUME NEW f \in Seq(Run)
    PROVE  FrameCount(f) \in 0..Len(f)
<1> DEFINE S == {n \in 1..Len(f) : \A k \in 1..n : CompleteFrame(f, k)}
<1>1. IsFiniteSet(1..Len(f)) /\ Cardinality(1..Len(f)) = Len(f)
  BY RunsOfFile, IntervalCardinality
<1>2. S \subseteq 1..Len(f)
  OBVIOUS
<1>3. IsFiniteSet(S) /\ Cardinality(S) <= Cardinality(1..Len(f))
  BY <1>1, <1>2, FS_Subset
<1>4. Cardinality(S) \in Nat
  BY <1>3, FS_CardinalityType
<1> QED
  BY <1>1, <1>3, <1>4 DEF FrameCount

LEMMA FileSizeType ==
    ASSUME NEW f \in Seq(Run)
    PROVE  FileSize(f) \in Nat
<1>1. CASE f = <<>>
  BY <1>1 DEF FileSize
<1>2. CASE f # <<>>
  <2>1. f[Len(f)] \in Run
    BY <1>2, RunsOfFile
  <2> QED
    BY <1>2, <2>1 DEF FileSize, Run
<1> QED
  BY <1>1, <1>2

LEMMA WalkFields ==
    ASSUME NEW f
    PROVE  /\ Walk(f).frame_count = FrameCount(f)
           /\ Walk(f).file_size = FileSize(f)
           /\ Walk(f).next_sequence = FrameCount(f)
           /\ Walk(f).last_good_offset =
                IF FrameCount(f) = 0 THEN 0
                ELSE f[FrameCount(f)].offset + f[FrameCount(f)].units
           /\ Walk(f).next_row_id =
                IF FrameCount(f) = 0 \/ ~RowIds THEN FIRST_BASE_ROW_ID
                ELSE ExpectedBase(f, FrameCount(f) + 1)
           /\ Walk(f).incomplete_tail =
                (FrameCount(f) < Len(f) /\ IncompleteTailAt(f, FrameCount(f)))
           /\ Walk(f).corruption =
                (FrameCount(f) < Len(f) /\ ~IncompleteTailAt(f, FrameCount(f)))
  BY DEF Walk

LEMMA WalkType ==
    ASSUME NEW f \in Seq(Run)
    PROVE  Walk(f) \in Plans
<1> DEFINE n == FrameCount(f)
<1>1. n \in 0..Len(f)
  BY FrameCountType
<1>2. FileSize(f) \in Nat
  BY FileSizeType
<1>r. n # 0 => f[n] \in Run
  BY <1>1, RunsOfFile
<1>3. (IF n = 0 THEN 0 ELSE f[n].offset + f[n].units) \in Nat
  BY <1>r DEF Run
<1>4. (IF n = 0 \/ ~RowIds THEN FIRST_BASE_ROW_ID ELSE ExpectedBase(f, n + 1)) \in Nat
  <2>1. CASE n = 0
    BY <2>1 DEF FIRST_BASE_ROW_ID
  <2>2. CASE n # 0
    <3>1. (n + 1) - 1 = n
      BY <1>1
    <3> HIDE DEF n
    <3>2. f[n] \in Run
      BY <2>2, <1>r
    <3>3. f[n].base_row_id + f[n].row_count \in Nat
      BY <3>2 DEF Run
    <3> QED
      BY <2>2, <3>1, <3>3 DEF ExpectedBase, FIRST_BASE_ROW_ID
  <2> QED
    BY <2>1, <2>2
<1> HIDE DEF n
<1> QED
  BY <1>1, <1>2, <1>3, <1>4 DEF Walk, Plans, n

LEMMA DataFramesType ==
    ASSUME NEW f \in Seq(Run)
    PROVE  DataFrames(f) \in Seq(FrameSet)
<1>1. FrameCount(f) \in 0..Len(f)
  BY FrameCountType
<1>2. CASE FrameCount(f) = 0
  BY <1>2 DEF DataFrames
<1>3. CASE FrameCount(f) # 0
  <2> DEFINE n == FrameCount(f)
  <2>1. n - 1 \in Nat
    BY <1>1, <1>3
  <2>2. ASSUME NEW k \in 1..(n - 1)
        PROVE  FrameOf(f[k+1]) \in FrameSet
    <3>1. k + 1 \in 1..Len(f)
      BY <1>1, RunsOfFile
    <3>2. f[k+1] \in Run
      BY <3>1, RunsOfFile
    <3> QED
      BY <3>2 DEF FrameOf, FrameSet, Run
  <2> HIDE DEF n
  <2> QED
    BY <1>3, <2>1, <2>2 DEF DataFrames, n
<1> QED
  BY <1>2, <1>3

LEMMA AppendUnitType ==
    ASSUME NEW f \in Seq(Run), NEW frame \in FrameSet, NEW done \in Nat
    PROVE  AppendUnit(f, frame, done) \in Seq(Run)
<1> DEFINE new == [ sequence |-> frame.sequence, base_row_id |-> frame.base_row_id,
                    row_count |-> frame.row_count, body |-> frame.body,
                    offset |-> FileSize(f), units |-> 1 ]
<1>1. new \in Run
  <2>1. FileSize(f) \in Nat
    BY FileSizeType
  <2> QED
    BY <2>1 DEF Run, FrameSet
<1>2. Append(f, new) \in Seq(Run)
  BY <1>1
<1>3. ASSUME f # <<>>
      PROVE  [f EXCEPT ![Len(f)].units = done + 1] \in Seq(Run)
  <2>1. Len(f) \in 1..Len(f) /\ f[Len(f)] \in Run
    BY <1>3, RunsOfFile
  <2>2. [f[Len(f)] EXCEPT !.units = done + 1] \in Run
    <3>1. done + 1 \in Nat \ {0}
      OBVIOUS
    <3> QED
      BY <2>1, <3>1 DEF Run
  <2> QED
    BY <2>1, <2>2, ExceptSeq
<1> QED
  BY <1>2, <1>3 DEF AppendUnit

LEMMA CutToType ==
    ASSUME NEW f \in Seq(Run), NEW k \in 0..Len(f),
           NEW u \in 0..(IF k < Len(f) THEN f[k+1].units ELSE 0)
    PROVE  CutTo(f, k, u) \in Seq(Run)
<1>1. SubSeq(f, 1, k) \in Seq(Run)
  OBVIOUS
<1>2. ASSUME k < Len(f), u # 0
      PROVE  [f[k+1] EXCEPT !.units = u] \in Run
  <2>1. f[k+1] \in Run
    BY <1>2
  <2>2. u \in Nat \ {0}
    BY <1>2, <2>1 DEF Run
  <2> QED
    BY <2>1, <2>2 DEF Run
<1> QED
  BY <1>1, <1>2 DEF CutTo

-----------------------------------------------------------------------------
(* Well-formed files                                                       *)

LEMMA OneOrMore ==
    ASSUME NEW n \in Nat \ {0}
    PROVE  n = 1 \/ n > 1
  OBVIOUS

LEMMA RunType ==
    ASSUME NEW r \in Run
    PROVE  /\ r.sequence \in Nat /\ r.base_row_id \in Nat /\ r.row_count \in Nat
           /\ r.offset \in Nat /\ r.units \in Nat \ {0}
           /\ r.body \in Bodies \cup {NoBody}
           /\ FrameOf(r) \in FrameSet
           /\ TotalLength(FrameOf(r)) = TotalLength(r)
           /\ TotalLength(r) \in Nat \ {0}
  BY DEF Run, FrameOf, FrameSet, TotalLength

\* The walk of a well-formed file accepts every frame but one that is cut short.
LEMMA WellFormedCount ==
    ASSUME NEW f \in Seq(Run), WellFormed(f), f # <<>>
    PROVE  FrameCount(f) = IF f[Len(f)].units = TotalLength(f[Len(f)])
                           THEN Len(f) ELSE Len(f) - 1
<1> DEFINE m == IF f[Len(f)].units = TotalLength(f[Len(f)]) THEN Len(f) ELSE Len(f) - 1
           S == {n \in 1..Len(f) : \A k \in 1..n : CompleteFrame(f, k)}
<1>1. Len(f) \in Nat \ {0} /\ m \in Nat /\ m <= Len(f) /\ m >= Len(f) - 1
  BY RunsOfFile
<1>2. ASSUME NEW k \in 1..m
      PROVE  CompleteFrame(f, k)
  <2>1. k \in 1..Len(f) /\ (k < Len(f) \/ f[k].units = TotalLength(f[k]))
    BY <1>1
  <2>2. WellFormedAt(f, k)
    BY <2>1 DEF WellFormed
  <2> QED
    BY <2>1, <2>2 DEF WellFormedAt, CompleteFrame
<1>3. ASSUME NEW n \in 1..Len(f), n > m
      PROVE  ~ \A k \in 1..n : CompleteFrame(f, k)
  <2>1. n = Len(f) /\ f[Len(f)].units # TotalLength(f[Len(f)])
    BY <1>1, <1>3
  <2>2. n \in 1..n /\ ~CompleteFrame(f, n)
    BY <2>1, <1>1 DEF CompleteFrame
  <2> QED
    BY <2>2
<1>4. S = 1..m
  <2>1. ASSUME NEW n \in 1..m
        PROVE  n \in S
    <3>1. n \in 1..Len(f) /\ \A k \in 1..n : k \in 1..m
      BY <1>1
    <3> QED
      BY <3>1, <1>2
  <2>2. ASSUME NEW n \in S
        PROVE  n \in 1..m
    <3>1. n \in 1..Len(f) /\ ~(n > m)
      BY <1>3
    <3> QED
      BY <3>1, <1>1
  <2> QED
    BY <2>1, <2>2
<1>5. Cardinality(S) = m
  BY <1>1, <1>4, IntervalCardinality
<1> QED
  BY <1>5 DEF FrameCount

LEMMA EmptyCount == FrameCount(<<>>) = 0
<1>1. <<>> \in Seq(Run) /\ Len(<<>>) = 0
  OBVIOUS
<1>2. FrameCount(<<>>) \in 0..Len(<<>>)
  BY <1>1, FrameCountType
<1> QED
  BY <1>1, <1>2

\* What the walk reports of a well-formed file: a complete one or an incomplete
\* tail, never corruption.
LEMMA WellFormedWalk ==
    ASSUME NEW f \in Seq(Run), WellFormed(f)
    PROVE  /\ ~Walk(f).corruption
           /\ Walk(f).incomplete_tail <=> FrameCount(f) < Len(f)
           /\ HasSchemaFrame(f) <=> HeaderComplete(f)
<1>1. CASE f = <<>>
  <2>1. FrameCount(f) = 0 /\ Len(f) = 0
    BY <1>1, EmptyCount
  <2>2. ~HasSchemaFrame(f) /\ ~HeaderComplete(f) /\ ~(FrameCount(f) < Len(f))
    BY <1>1, <2>1 DEF HasSchemaFrame, HeaderComplete
  <2>3. Walk(f).corruption = (FrameCount(f) < Len(f) /\ ~IncompleteTailAt(f, FrameCount(f)))
    BY WalkFields
  <2>4. Walk(f).incomplete_tail = (FrameCount(f) < Len(f) /\ IncompleteTailAt(f, FrameCount(f)))
    BY WalkFields
  <2> QED
    BY <2>2, <2>3, <2>4
<1>2. CASE f # <<>>
  <2> DEFINE n == FrameCount(f)
             last == f[Len(f)]
  <2>1. n = IF last.units = TotalLength(last) THEN Len(f) ELSE Len(f) - 1
    BY <1>2, WellFormedCount
  <2>2. Len(f) \in Nat \ {0} /\ last \in Run
    BY <1>2, RunsOfFile
  <2>3. WellFormedAt(f, Len(f))
    BY <2>2 DEF WellFormed
  <2>4. n < Len(f) => IncompleteTailAt(f, n)
    <3> SUFFICES ASSUME n < Len(f) PROVE IncompleteTailAt(f, n)
      OBVIOUS
    <3>1. n = Len(f) - 1 /\ n + 1 = Len(f) /\ last.units # TotalLength(last)
      BY <2>1, <2>2
    <3>2. last.sequence = n /\ last.units < TotalLength(last)
      BY <3>1, <2>2, <2>3, RunType DEF WellFormedAt
    <3>3. FileSize(f) - last.offset = last.units
      BY <1>2, <2>2, RunType DEF FileSize
    <3> HIDE DEF n
    <3> QED
      BY <3>1, <3>2, <3>3 DEF IncompleteTailAt
  <2>5. n >= 1 <=> HeaderComplete(f)
    <3>1. CASE Len(f) = 1
      BY <1>2, <3>1, <2>1 DEF HeaderComplete
    <3>2. CASE Len(f) > 1
      <4>1. WellFormedAt(f, 1) /\ 1 < Len(f)
        BY <2>2, <3>2 DEF WellFormed
      <4>2. HeaderComplete(f)
        BY <1>2, <4>1 DEF WellFormedAt, HeaderComplete
      <4>3. n >= 1
        BY <2>1, <2>2, <3>2
      <4> QED
        BY <4>2, <4>3
    <3> QED
      BY <2>2, <3>1, <3>2, OneOrMore
  <2> HIDE DEF n
  <2>6. n \in Nat
    BY <2>1, <2>2
  <2>7. Walk(f).corruption = (n < Len(f) /\ ~IncompleteTailAt(f, n))
    BY WalkFields DEF n
  <2>8. Walk(f).incomplete_tail = (n < Len(f) /\ IncompleteTailAt(f, n))
    BY WalkFields DEF n
  <2> QED
    BY <2>4, <2>5, <2>7, <2>8 DEF HasSchemaFrame, n
<1> QED
  BY <1>1, <1>2

LEMMA WholeFile ==
    ASSUME NEW f \in Seq(Run), WellFormed(f)
    PROVE  /\ Whole(f) => /\ FrameCount(f) = Len(f)
                          /\ HeaderComplete(f)
                          /\ Walk(f).last_good_offset = FileSize(f)
                          /\ Walk(f).next_sequence = Len(f)
                          /\ RowIds => Walk(f).next_row_id = ExpectedBase(f, Len(f) + 1)
           /\ HeaderComplete(f) /\ ~Walk(f).incomplete_tail => Whole(f)
<1>1. ASSUME Whole(f)
      PROVE  /\ FrameCount(f) = Len(f)
             /\ HeaderComplete(f)
             /\ Walk(f).last_good_offset = FileSize(f)
             /\ Walk(f).next_sequence = Len(f)
             /\ RowIds => Walk(f).next_row_id = ExpectedBase(f, Len(f) + 1)
  <2>1. f # <<>> /\ FrameCount(f) = Len(f)
    BY <1>1, WellFormedCount DEF Whole
  <2>2. Len(f) \in Nat \ {0}
    BY <2>1, RunsOfFile
  <2>3. HeaderComplete(f)
    BY <2>1, <2>2, WellFormedWalk DEF HasSchemaFrame
  <2> QED
    BY <2>1, <2>2, <2>3, WalkFields DEF FileSize
<1>2. ASSUME HeaderComplete(f), ~Walk(f).incomplete_tail
      PROVE  Whole(f)
  <2>1. f # <<>> /\ Len(f) \in Nat \ {0}
    BY <1>2, RunsOfFile DEF HeaderComplete
  <2>2. ~(FrameCount(f) < Len(f))
    BY <1>2, WellFormedWalk
  <2>3. FrameCount(f) = IF f[Len(f)].units = TotalLength(f[Len(f)])
                        THEN Len(f) ELSE Len(f) - 1
    BY <2>1, WellFormedCount
  <2> QED
    BY <2>1, <2>2, <2>3 DEF Whole
<1> QED
  BY <1>1, <1>2

LEMMA PrefixRuns ==
    ASSUME NEW f \in Seq(Run), NEW n \in 0..Len(f)
    PROVE  /\ SubSeq(f, 1, n) \in Seq(Run)
           /\ Len(SubSeq(f, 1, n)) = n
           /\ \A k \in 1..n : SubSeq(f, 1, n)[k] = f[k]
<1>1. Len(f) \in Nat /\ n \in Nat
  OBVIOUS
<1>2. \A k \in 1..n : f[k] \in Run
  BY <1>1, RunsOfFile
<1> QED
  BY <1>1, <1>2

\* Whether run k is in its place depends on it and on the run before it.
LEMMA WellFormedAtAgrees ==
    ASSUME NEW f \in Seq(Run), NEW g \in Seq(Run), NEW k \in 1..Len(g), k <= Len(f),
           g[k] = f[k], k > 1 => g[k-1] = f[k-1],
           k < Len(g) => f[k].units = TotalLength(f[k]),
           WellFormedAt(f, k)
    PROVE  WellFormedAt(g, k)
<1>1. k > 1 => ExpectedBase(g, k) = ExpectedBase(f, k)
  BY DEF ExpectedBase
<1>2. /\ g[k].sequence = k - 1
      /\ g[k].offset = IF k = 1 THEN 0 ELSE g[k-1].offset + g[k-1].units
      /\ g[k].units <= TotalLength(g[k])
  BY DEF WellFormedAt
<1>3. k > 1 => g[k].row_count > 0
  BY DEF WellFormedAt
<1>4. k > 1 => g[k].base_row_id = ExpectedBase(g, k)
  BY <1>1 DEF WellFormedAt
<1> QED
  BY <1>2, <1>3, <1>4 DEF WellFormedAt

LEMMA PrefixWellFormed ==
    ASSUME NEW f \in Seq(Run), WellFormed(f), NEW n \in 0..Len(f)
    PROVE  WellFormed(SubSeq(f, 1, n))
<1> DEFINE g == SubSeq(f, 1, n)
<1>1. g \in Seq(Run) /\ Len(g) = n /\ \A k \in 1..n : g[k] = f[k]
  BY PrefixRuns
<1>2. Len(f) \in Nat /\ n \in Nat /\ n <= Len(f)
  OBVIOUS
<1> HIDE DEF g
<1>3. ASSUME NEW k \in 1..n
      PROVE  WellFormedAt(g, k)
  <2>1. k \in 1..Len(f) /\ k \in 1..Len(g) /\ k <= Len(f)
    BY <1>1, <1>2
  <2>2. WellFormedAt(f, k)
    BY <2>1 DEF WellFormed
  <2>3. g[k] = f[k] /\ (k > 1 => g[k-1] = f[k-1])
    BY <1>1, <1>2
  <2>4. k < Len(g) => f[k].units = TotalLength(f[k])
    BY <1>1, <1>2, <2>2 DEF WellFormedAt
  <2> QED
    BY <1>1, <2>1, <2>2, <2>3, <2>4, WellFormedAtAgrees
<1> QED
  BY <1>1, <1>3 DEF WellFormed, g

\* A file cut at the end of one of its complete frames is whole.
LEMMA PrefixWhole ==
    ASSUME NEW f \in Seq(Run), WellFormed(f), NEW n \in 1..FrameCount(f)
    PROVE  /\ n \in 1..Len(f)
           /\ Whole(SubSeq(f, 1, n))
           /\ FileSize(SubSeq(f, 1, n)) = f[n].offset + f[n].units
           /\ f[n].units = TotalLength(f[n])
<1> DEFINE g == SubSeq(f, 1, n)
<1>1. FrameCount(f) \in 0..Len(f) /\ Len(f) \in Nat
  BY FrameCountType
<1>2. n \in 1..Len(f) /\ n \in 0..Len(f) /\ n \in Nat \ {0}
  BY <1>1
<1>3. g \in Seq(Run) /\ Len(g) = n /\ g[n] = f[n]
  BY <1>2, PrefixRuns
<1>4. WellFormed(g)
  BY <1>2, PrefixWellFormed
<1>5. f # <<>> /\ g # <<>>
  BY <1>2, <1>3
<1>6. f[n].units = TotalLength(f[n])
  <2>1. CASE n < Len(f)
    BY <1>2, <2>1 DEF WellFormed, WellFormedAt
  <2>2. CASE n = Len(f)
    <3>1. FrameCount(f) = Len(f)
      BY <1>1, <2>2
    <3>2. FrameCount(f) = IF f[Len(f)].units = TotalLength(f[Len(f)])
                          THEN Len(f) ELSE Len(f) - 1
      BY <1>5, WellFormedCount
    <3> QED
      BY <1>1, <2>2, <3>1, <3>2
  <2> QED
    BY <1>2, <2>1, <2>2
<1> HIDE DEF g
<1> QED
  BY <1>2, <1>3, <1>4, <1>5, <1>6 DEF Whole, FileSize, g

\* The first unit of a frame that continues a whole file.
LEMMA NewFrame ==
    ASSUME NEW f \in Seq(Run), f = <<>> \/ Whole(f), NEW frame \in FrameSet,
           frame.sequence = Len(f),
           f # <<>> => frame.row_count > 0,
           f # <<>> => frame.base_row_id = ExpectedBase(f, Len(f) + 1)
    PROVE  LET g == AppendUnit(f, frame, 0) IN
           /\ g \in Seq(Run)
           /\ WellFormed(g)
           /\ Len(g) = Len(f) + 1
           /\ \A k \in 1..Len(f) : g[k] = f[k]
           /\ FrameOf(g[Len(f) + 1]) = frame
           /\ g[Len(f) + 1].units = 1
           /\ FileSize(g) = FileSize(f) + 1
<1> DEFINE new == [ sequence |-> frame.sequence, base_row_id |-> frame.base_row_id,
                    row_count |-> frame.row_count, body |-> frame.body,
                    offset |-> FileSize(f), units |-> 1 ]
           g == Append(f, new)
           n == Len(f)
<1>0. AppendUnit(f, frame, 0) = g
  BY DEF AppendUnit
<1>1. FileSize(f) \in Nat /\ n \in Nat
  BY FileSizeType
<1>2. new \in Run /\ FrameOf(new) = frame /\ new.units = 1 /\ new.offset = FileSize(f)
  BY <1>1 DEF Run, FrameSet, FrameOf
<1>3. /\ new.sequence = n /\ new.row_count = frame.row_count
      /\ new.base_row_id = frame.base_row_id
  OBVIOUS
<1> HIDE DEF new
<1>4. g \in Seq(Run) /\ Len(g) = n + 1 /\ g[n + 1] = new /\ \A k \in 1..n : g[k] = f[k]
  BY <1>1, <1>2
<1> HIDE DEF g
<1>5. g # <<>>
  BY <1>1, <1>4
<1>6. FileSize(g) = FileSize(f) + 1
  BY <1>2, <1>4, <1>5 DEF FileSize
<1>7. ASSUME NEW k \in 1..n
      PROVE  WellFormedAt(g, k)
  <2>1. f # <<>>
    BY <1>1, <1>7
  <2>2. WellFormedAt(f, k) /\ f[k].units = TotalLength(f[k])
    BY <1>1, <2>1 DEF Whole, WellFormed, WellFormedAt
  <2>3. k \in 1..Len(g) /\ k <= Len(f) /\ g[k] = f[k] /\ (k > 1 => g[k-1] = f[k-1])
    BY <1>1, <1>4
  <2> QED
    BY <1>4, <2>2, <2>3, WellFormedAtAgrees
<1>8. WellFormedAt(g, n + 1)
  <2>1. n = 0 <=> f = <<>>
    BY <1>1
  <2>2. FileSize(f) = IF n = 0 THEN 0 ELSE f[n].offset + f[n].units
    BY <2>1 DEF FileSize
  <2>3. n > 0 => g[n] = f[n]
    BY <1>1, <1>4
  <2>4. /\ g[n+1].sequence = (n + 1) - 1
        /\ g[n+1].offset = IF n + 1 = 1 THEN 0 ELSE g[(n+1)-1].offset + g[(n+1)-1].units
    BY <1>1, <1>2, <1>3, <1>4, <2>2, <2>3
  <2>5. TotalLength(new) \in Nat \ {0}
    BY <1>2, RunType
  <2>6. g[n+1].units <= TotalLength(g[n+1])
    BY <1>2, <1>4, <2>5
  <2>7. n + 1 > 1 => f # <<>> /\ g[n+1].row_count > 0
    BY <1>1, <1>3, <1>4, <2>1
  <2>8. n + 1 > 1 => ExpectedBase(g, n + 1) = ExpectedBase(f, n + 1)
    BY <1>1, <2>3 DEF ExpectedBase
  <2>9. n + 1 > 1 => g[n+1].base_row_id = ExpectedBase(g, n + 1)
    BY <1>3, <1>4, <2>7, <2>8
  <2>10. ~(n + 1 < Len(g))
    BY <1>1, <1>4
  <2> QED
    BY <2>4, <2>6, <2>7, <2>9, <2>10 DEF WellFormedAt
<1>9. WellFormed(g)
  <2>1. \A k \in 1..Len(g) : k \in 1..n \/ k = n + 1
    BY <1>1, <1>4
  <2> QED
    BY <1>7, <1>8, <2>1 DEF WellFormed
<1> QED
  BY <1>0, <1>2, <1>4, <1>6, <1>9

\* One more unit of the frame the last run is a part of.
LEMMA MoreOfFrame ==
    ASSUME NEW f \in Seq(Run), WellFormed(f), f # <<>>, NEW frame \in FrameSet,
           NEW done \in Nat \ {0}, FrameOf(f[Len(f)]) = frame, f[Len(f)].units = done,
           done < TotalLength(frame)
    PROVE  LET g == AppendUnit(f, frame, done) IN
           /\ g \in Seq(Run)
           /\ WellFormed(g)
           /\ Len(g) = Len(f)
           /\ \A k \in 1..(Len(f) - 1) : g[k] = f[k]
           /\ FrameOf(g[Len(f)]) = frame
           /\ g[Len(f)].units = done + 1
           /\ FileSize(g) = FileSize(f) + 1
<1> DEFINE n == Len(f)
           last == [f[n] EXCEPT !.units = done + 1]
           g == [f EXCEPT ![n] = last]
<1>0. AppendUnit(f, frame, done) = g
  BY DEF AppendUnit
<1>1. n \in Nat \ {0} /\ n \in 1..n /\ f[n] \in Run
  BY RunsOfFile
<1>2. /\ last \in Run
      /\ FrameOf(last) = FrameOf(f[n])
      /\ last.units = done + 1 /\ last.offset = f[n].offset
      /\ last.sequence = f[n].sequence /\ last.row_count = f[n].row_count
      /\ last.base_row_id = f[n].base_row_id
  <2>1. done + 1 \in Nat \ {0}
    OBVIOUS
  <2> QED
    BY <1>1, <2>1 DEF Run, FrameOf
<1>3. TotalLength(last) = TotalLength(frame)
  BY <1>1, <1>2, RunType
<1> HIDE DEF last
<1>4. /\ g \in Seq(Run) /\ Len(g) = n /\ g[n] = last
      /\ \A k \in 1..(n - 1) : g[k] = f[k]
  BY <1>1, <1>2, ExceptSeq
<1> HIDE DEF g
<1>5. g # <<>>
  BY <1>1, <1>4
<1>6. FileSize(g) = FileSize(f) + 1
  <2>1. FileSize(g) = f[n].offset + (done + 1)
    BY <1>2, <1>4, <1>5 DEF FileSize
  <2>2. FileSize(f) = f[n].offset + done
    BY DEF FileSize
  <2>3. f[n].offset \in Nat
    BY <1>1, RunType
  <2> QED
    BY <2>1, <2>2, <2>3
<1>7. ASSUME NEW k \in 1..(n - 1)
      PROVE  WellFormedAt(g, k)
  <2>1. k \in 1..Len(f) /\ k < Len(f)
    BY <1>1
  <2>2. WellFormedAt(f, k) /\ f[k].units = TotalLength(f[k])
    BY <2>1 DEF WellFormed, WellFormedAt
  <2>3. k \in 1..Len(g) /\ k <= Len(f) /\ g[k] = f[k] /\ (k > 1 => g[k-1] = f[k-1])
    BY <1>1, <1>4
  <2> QED
    BY <1>4, <2>2, <2>3, WellFormedAtAgrees
<1>8. WellFormedAt(g, n)
  <2>1. WellFormedAt(f, n)
    BY <1>1 DEF WellFormed
  <2>2. n > 1 => g[n-1] = f[n-1]
    BY <1>1, <1>4
  <2>3. /\ g[n].sequence = n - 1
        /\ g[n].offset = IF n = 1 THEN 0 ELSE g[n-1].offset + g[n-1].units
    BY <1>1, <1>2, <1>4, <2>1, <2>2 DEF WellFormedAt
  <2>4. g[n].units <= TotalLength(g[n])
    <3>1. TotalLength(frame) \in Nat
      BY <1>1, RunType
    <3> QED
      BY <1>2, <1>3, <1>4, <3>1
  <2>5. n > 1 => g[n].row_count > 0
    BY <1>2, <1>4, <2>1 DEF WellFormedAt
  <2>6. n > 1 => ExpectedBase(g, n) = ExpectedBase(f, n)
    BY <1>1, <2>2 DEF ExpectedBase
  <2>7. n > 1 => g[n].base_row_id = ExpectedBase(g, n)
    BY <1>2, <1>4, <2>1, <2>6 DEF WellFormedAt
  <2>8. ~(n < Len(g))
    BY <1>1, <1>4
  <2> QED
    BY <2>3, <2>4, <2>5, <2>7, <2>8 DEF WellFormedAt
<1>9. WellFormed(g)
  <2>1. \A k \in 1..Len(g) : k \in 1..(n - 1) \/ k = n
    BY <1>1, <1>4
  <2> QED
    BY <1>7, <1>8, <2>1 DEF WellFormed
<1> QED
  BY <1>0, <1>2, <1>4, <1>6, <1>9

\* What a disk keeps of a well-formed file is well formed, and agrees with it on
\* every run it keeps in full.
LEMMA CutToWellFormed ==
    ASSUME NEW f \in Seq(Run), WellFormed(f), NEW k \in 0..Len(f),
           NEW u \in 0..(IF k < Len(f) THEN f[k+1].units ELSE 0)
    PROVE  LET g == CutTo(f, k, u) IN
           /\ g \in Seq(Run)
           /\ WellFormed(g)
           /\ Len(g) >= k
           /\ \A j \in 1..k : g[j] = f[j]
<1> DEFINE h == SubSeq(f, 1, k)
<1>1. h \in Seq(Run) /\ Len(h) = k /\ \A j \in 1..k : h[j] = f[j]
  BY PrefixRuns
<1>2. WellFormed(h)
  BY PrefixWellFormed
<1>3. Len(f) \in Nat /\ k \in Nat /\ k <= Len(f)
  OBVIOUS
<1> HIDE DEF h
<1>4. CASE u = 0 \/ k >= Len(f)
  <2>1. CutTo(f, k, u) = h
    BY <1>4 DEF CutTo, h
  <2> QED
    BY <1>1, <1>2, <1>3, <2>1
<1>5. CASE ~(u = 0 \/ k >= Len(f))
  <2> DEFINE last == [f[k+1] EXCEPT !.units = u]
             g == Append(h, last)
  <2>1. CutTo(f, k, u) = g
    BY <1>5 DEF CutTo, h
  <2>2. k < Len(f) /\ k + 1 \in 1..Len(f) /\ u # 0
    BY <1>3, <1>5
  <2>3. f[k+1] \in Run /\ WellFormedAt(f, k + 1)
    BY <2>2, RunsOfFile DEF WellFormed
  <2>4. u \in Nat \ {0} /\ u <= f[k+1].units
    BY <2>2, <2>3, RunType
  <2>5. /\ last \in Run /\ last.units = u /\ last.offset = f[k+1].offset
        /\ last.sequence = f[k+1].sequence /\ last.row_count = f[k+1].row_count
        /\ last.base_row_id = f[k+1].base_row_id
    BY <2>3, <2>4 DEF Run
  <2>6. TotalLength(last) = TotalLength(f[k+1])
    BY <2>5 DEF TotalLength
  <2> HIDE DEF last
  <2>7. /\ g \in Seq(Run) /\ Len(g) = k + 1 /\ g[k+1] = last
        /\ \A j \in 1..k : g[j] = h[j]
    BY <1>1, <1>3, <2>5
  <2> HIDE DEF g
  <2>8. \A j \in 1..k : g[j] = f[j]
    BY <1>1, <2>7
  <2>9. ASSUME NEW j \in 1..k
        PROVE  WellFormedAt(g, j)
    <3>1. j \in 1..Len(f) /\ j < Len(f) /\ j \in 1..Len(g) /\ j <= Len(f)
      BY <1>3, <2>2, <2>7
    <3>2. WellFormedAt(f, j) /\ f[j].units = TotalLength(f[j])
      BY <3>1 DEF WellFormed, WellFormedAt
    <3>3. g[j] = f[j] /\ (j > 1 => g[j-1] = f[j-1])
      BY <1>3, <2>8
    <3> QED
      BY <2>7, <3>1, <3>2, <3>3, WellFormedAtAgrees
  <2>10. WellFormedAt(g, k + 1)
    <3>1. k + 1 > 1 => g[(k+1)-1] = f[(k+1)-1]
      BY <1>3, <2>8
    <3>2. /\ g[k+1].sequence = (k + 1) - 1
          /\ g[k+1].offset = IF k + 1 = 1 THEN 0 ELSE g[(k+1)-1].offset + g[(k+1)-1].units
      BY <1>3, <2>3, <2>5, <2>7, <3>1 DEF WellFormedAt
    <3>3. g[k+1].units <= TotalLength(g[k+1])
      <4>1. f[k+1].units <= TotalLength(f[k+1]) /\ f[k+1].units \in Nat
        BY <2>3, RunType DEF WellFormedAt
      <4>2. TotalLength(f[k+1]) \in Nat
        BY <2>3, RunType
      <4> QED
        BY <2>4, <2>5, <2>6, <2>7, <4>1, <4>2
    <3>4. k + 1 > 1 => g[k+1].row_count > 0
      BY <2>3, <2>5, <2>7 DEF WellFormedAt
    <3>5. k + 1 > 1 => ExpectedBase(g, k + 1) = ExpectedBase(f, k + 1)
      BY <1>3, <3>1 DEF ExpectedBase
    <3>6. k + 1 > 1 => g[k+1].base_row_id = ExpectedBase(g, k + 1)
      BY <2>3, <2>5, <2>7, <3>5 DEF WellFormedAt
    <3>7. ~(k + 1 < Len(g))
      BY <1>3, <2>7
    <3> QED
      BY <3>2, <3>3, <3>4, <3>6, <3>7 DEF WellFormedAt
  <2>11. WellFormed(g)
    <3>1. \A j \in 1..Len(g) : j \in 1..k \/ j = k + 1
      BY <1>3, <2>7
    <3> QED
      BY <2>9, <2>10, <3>1 DEF WellFormed
  <2> QED
    BY <1>3, <2>1, <2>7, <2>8, <2>11
<1> QED
  BY <1>4, <1>5

-----------------------------------------------------------------------------
(* What changes of a file keep                                             *)

\* The committed frames of a file, as the walk counts them.
LEMMA DataFramesElements ==
    ASSUME NEW f \in Seq(Run)
    PROVE  /\ FrameCount(f) = 0 => DataFrames(f) = <<>>
           /\ FrameCount(f) # 0 =>
                /\ Len(DataFrames(f)) = FrameCount(f) - 1
                /\ \A k \in 1..(FrameCount(f) - 1) : DataFrames(f)[k] = FrameOf(f[k+1])
<1>1. FrameCount(f) \in Nat
  BY FrameCountType, RunsOfFile
<1>2. CASE FrameCount(f) # 0
  <2> DEFINE n == FrameCount(f)
  <2>1. n - 1 \in Nat
    BY <1>1, <1>2
  <2>2. DataFrames(f) = [k \in 1..(n - 1) |-> FrameOf(f[k+1])]
    BY <1>2 DEF DataFrames
  <2> HIDE DEF n
  <2>3. Len(DataFrames(f)) = n - 1
    BY <2>1, <2>2
  <2> QED
    BY <1>2, <2>2, <2>3 DEF n
<1> QED
  BY <1>2 DEF DataFrames

\* A unit appended to a frame that is not yet complete leaves complete runs alone.
LEMMA AppendUnitKeeps ==
    ASSUME NEW f \in Seq(Run), NEW frame \in FrameSet, NEW done \in Nat,
           done < TotalLength(frame)
    PROVE  LET g == AppendUnit(f, frame, done) IN
           /\ Len(g) >= Len(f)
           /\ \A k \in 1..Len(f) : f[k].units = TotalLength(f[k]) => g[k] = f[k]
<1> DEFINE g == AppendUnit(f, frame, done)
<1>0. Len(f) \in Nat
  BY RunsOfFile
<1>1. CASE /\ done > 0 /\ f # <<>> /\ FrameOf(f[Len(f)]) = frame /\ f[Len(f)].units = done
  <2>1. g = [f EXCEPT ![Len(f)].units = done + 1]
    BY <1>1 DEF AppendUnit
  <2>2. Len(g) = Len(f) /\ \A k \in 1..Len(f) : k # Len(f) => g[k] = f[k]
    BY <2>1
  <2>3. f[Len(f)].units # TotalLength(f[Len(f)])
    <3>1. f[Len(f)] \in Run
      BY <1>1, RunsOfFile
    <3>2. TotalLength(f[Len(f)]) = TotalLength(frame)
      BY <1>1, <3>1, RunType
    <3>3. TotalLength(frame) \in Nat
      BY <3>1, <3>2, RunType
    <3> QED
      BY <1>1, <3>2, <3>3
  <2> QED
    BY <1>0, <2>2, <2>3
<1>2. CASE ~(/\ done > 0 /\ f # <<>> /\ FrameOf(f[Len(f)]) = frame /\ f[Len(f)].units = done)
  <2> DEFINE r == [ sequence |-> frame.sequence, base_row_id |-> frame.base_row_id,
                    row_count |-> frame.row_count, body |-> frame.body,
                    offset |-> FileSize(f), units |-> 1 ]
  <2>1. g = Append(f, r)
    BY <1>2 DEF AppendUnit
  <2>2. r \in Run
    <3>1. FileSize(f) \in Nat
      BY FileSizeType
    <3> QED
      BY <3>1 DEF FrameSet, Run
  <2> HIDE DEF r
  <2>3. Len(Append(f, r)) = Len(f) + 1 /\ \A k \in 1..Len(f) : Append(f, r)[k] = f[k]
    BY <2>2
  <2> QED
    BY <1>0, <2>1, <2>3
<1> QED
  BY <1>1, <1>2

\* In a well-formed file exactly the first FrameCount runs are complete.
LEMMA CountedRunsComplete ==
    ASSUME NEW f \in Seq(Run), WellFormed(f), NEW k \in 1..FrameCount(f)
    PROVE  k \in 1..Len(f) /\ f[k].units = TotalLength(f[k])
<1>1. FrameCount(f) \in 0..Len(f) /\ Len(f) \in Nat
  BY FrameCountType, RunsOfFile
<1>2. k \in 1..Len(f)
  BY <1>1
<1>3. f # <<>>
  BY <1>2
<1>4. k < Len(f) \/ f[k].units = TotalLength(f[k])
  BY <1>1, <1>2, <1>3, WellFormedCount
<1>5. WellFormedAt(f, k)
  BY <1>2 DEF WellFormed
<1> QED
  BY <1>2, <1>4, <1>5 DEF WellFormedAt

\* A file that starts with complete runs of another has them counted as well.
LEMMA CountAtLeast ==
    ASSUME NEW f \in Seq(Run), WellFormed(f), NEW g \in Seq(Run), WellFormed(g),
           NEW m \in 1..FrameCount(f), m <= Len(g), \A k \in 1..m : g[k] = f[k]
    PROVE  FrameCount(g) >= m
<1>1. m \in Nat \ {0} /\ Len(g) \in Nat
  <2>1. FrameCount(f) \in Nat
    BY FrameCountType, RunsOfFile
  <2> QED
    BY <2>1, RunsOfFile
<1>2. g # <<>>
  BY <1>1
<1>3. f[m].units = TotalLength(f[m])
  BY CountedRunsComplete
<1>4. m = Len(g) => g[Len(g)].units = TotalLength(g[Len(g)])
  BY <1>1, <1>3
<1> QED
  BY <1>1, <1>2, <1>4, WellFormedCount

-----------------------------------------------------------------------------
(* The order of the runs in a file                                         *)

\* Where run k of a file ends.
End(f, k) == f[k].offset + f[k].units

LEMMA EndType ==
    ASSUME NEW f \in Seq(Run), NEW k \in 1..Len(f)
    PROVE  /\ f[k] \in Run /\ f[k].offset \in Nat /\ f[k].units \in Nat \ {0}
           /\ End(f, k) \in Nat /\ f[k].offset < End(f, k)
<1>1. f[k] \in Run
  BY RunsOfFile
<1> QED
  BY <1>1, RunType DEF End

\* The runs of a well-formed file do not overlap.
LEMMA RunsOrdered ==
    ASSUME NEW f \in Seq(Run), WellFormed(f), NEW j \in 1..Len(f), NEW k \in 1..Len(f), j < k
    PROVE  End(f, j) <= f[k].offset /\ End(f, j) < End(f, k)
<1> DEFINE S == {i \in 1..Len(f) : j < i /\ End(f, j) <= f[i].offset}
<1>0. Len(f) \in Nat /\ j + 1 \in Nat /\ j \in Nat
  BY RunsOfFile
<1>1. \A i \in 2..Len(f) : f[i].offset = End(f, i - 1)
  BY <1>0 DEF WellFormed, WellFormedAt, End
<1>2. j + 1 \in S
  <2>1. j + 1 \in 2..Len(f) /\ j + 1 \in 1..Len(f) /\ (j + 1) - 1 = j
    BY <1>0
  <2>2. f[j+1].offset = End(f, j)
    BY <1>1, <2>1
  <2> QED
    BY <1>0, <2>1, <2>2, EndType
<1>3. ASSUME NEW i \in (j + 1)..(Len(f) - 1), i \in S PROVE i + 1 \in S
  <2>1. i + 1 \in 2..Len(f) /\ i + 1 \in 1..Len(f) /\ (i + 1) - 1 = i /\ i \in 1..Len(f)
    BY <1>0
  <2>2. f[i+1].offset = End(f, i)
    BY <1>1, <2>1
  <2>3. End(f, j) <= f[i].offset
    BY <1>3
  <2>4. End(f, j) <= f[i+1].offset
    BY <2>1, <2>2, <2>3, EndType
  <2> QED
    BY <1>0, <2>1, <2>4
<1> HIDE DEF S
<1>4. k \in S
  <2>1. \A i \in (j + 1)..(Len(f) - 1) : i \in S => i + 1 \in S
    BY <1>3
  <2>2. \A i \in (j + 1)..Len(f) : i \in S
    BY <1>0, <1>2, <2>1, SetInduction
  <2> QED
    BY <1>0, <2>2
<1> QED
  BY <1>4, EndType DEF S

LEMMA EndWithinFile ==
    ASSUME NEW f \in Seq(Run), WellFormed(f), NEW k \in 1..Len(f)
    PROVE  End(f, k) <= FileSize(f)
<1>0. Len(f) \in Nat /\ f # <<>> /\ Len(f) \in 1..Len(f)
  BY RunsOfFile
<1>1. FileSize(f) = End(f, Len(f)) /\ End(f, k) \in Nat /\ End(f, Len(f)) \in Nat
  BY <1>0, EndType DEF FileSize, End
<1>2. k < Len(f) => End(f, k) < End(f, Len(f))
  BY <1>0, RunsOrdered
<1> QED
  BY <1>0, <1>1, <1>2

\* A run is known by where it starts and by where it ends.
LEMMA RunsApart ==
    ASSUME NEW f \in Seq(Run), WellFormed(f), NEW j \in 1..Len(f), NEW k \in 1..Len(f)
    PROVE  /\ f[j].offset = f[k].offset => j = k
           /\ End(f, j) = End(f, k) => j = k
           /\ End(f, j) <= End(f, k) => j <= k
           /\ f[k].offset = End(f, j) => k = j + 1
<1>0. Len(f) \in Nat /\ j \in Nat /\ k \in Nat
  BY RunsOfFile
<1>1. /\ f[j].offset \in Nat /\ End(f, j) \in Nat /\ f[j].offset < End(f, j)
      /\ f[k].offset \in Nat /\ End(f, k) \in Nat /\ f[k].offset < End(f, k)
  BY EndType
<1>2. j < k => End(f, j) <= f[k].offset /\ End(f, j) < End(f, k)
  BY RunsOrdered
<1>3. k < j => End(f, k) <= f[j].offset /\ End(f, k) < End(f, j)
  BY RunsOrdered
<1>4. ASSUME j + 1 < k PROVE End(f, j) < f[k].offset
  <2>1. j + 1 \in 1..Len(f) /\ j < j + 1
    BY <1>0, <1>4
  <2>2. End(f, j) < End(f, j + 1) /\ End(f, j + 1) <= f[k].offset /\ End(f, j + 1) \in Nat
    BY <1>4, <2>1, RunsOrdered, EndType
  <2> QED
    BY <1>1, <2>2
<1>5. f[k].offset = End(f, j) => k = j + 1
  BY <1>0, <1>1, <1>3, <1>4
<1> QED
  BY <1>0, <1>1, <1>2, <1>3, <1>5

-----------------------------------------------------------------------------
(* Types                                                                   *)

LEMMA NoWriterType == NoWriter \in Writers
  BY TargetsAssumption
     DEF NoWriter, Writers, FIRST_DATA_FRAME_SEQUENCE, FIRST_BASE_ROW_ID, Calls

LEMMA NoPlanType == NoPlan \in Plans
<1>1. <<>> \in Seq(Run)
  OBVIOUS
<1> QED
  BY <1>1, WalkType DEF NoPlan

LEMMA SchemaFrameType == SchemaFrame \in FrameSet
  BY DEF SchemaFrame, FrameSet, SCHEMA_FRAME_SEQUENCE, FIRST_BASE_ROW_ID

LEMMA PendingFrameType ==
    ASSUME NEW w \in Writers
    PROVE  PendingFrame(w) \in FrameSet
  BY TargetsAssumption, RowIdsAssumption DEF PendingFrame, Writers, FrameSet

LEMMA CommittedWriterType ==
    ASSUME NEW w \in Writers
    PROVE  CommittedWriter(w) \in Writers
<1>1. PendingFrame(w) \in FrameSet
  BY PendingFrameType
<1>2. TotalLength(PendingFrame(w)) \in Nat
  BY <1>1 DEF TotalLength, FrameSet
<1>3. (IF RowIds THEN w.next_row_id + w.buffered ELSE w.next_row_id) \in Nat
  BY TargetsAssumption DEF Writers
<1>4. /\ w.file_length + TotalLength(PendingFrame(w)) \in Nat
      /\ w.next_sequence + 1 \in Nat
      /\ 0 \in 0..RowTarget
  BY <1>2, TargetsAssumption DEF Writers
<1> QED
  BY <1>3, <1>4 DEF CommittedWriter, Writers

LEMMA CloseHandleType ==
    ASSUME TypeOK, NEW p \in Procs, NEW label \in Labels, CloseHandle(p, label)
    PROVE  /\ lock' \in [Inodes -> Procs \cup {None}]
           /\ fd' \in [Procs -> Inodes \cup {None}]
           /\ pc' \in [Procs -> Labels]
           /\ writer' \in [Procs -> Writers]
           /\ plan' \in [Procs -> Plans]
  BY NoWriterType, NoPlanType DEF TypeOK, CloseHandle, Goto

LEMMA ReturnType ==
    ASSUME TypeOK, NEW p \in Procs, NEW how \in Replies, Return(p, how)
    PROVE  TypeOK'
<1>1. "idle" \in Labels
  BY DEF Labels
<1>2. CloseHandle(p, "idle")
  BY DEF Return
<1> QED
  BY <1>1, <1>2, CloseHandleType DEF Return, TypeOK

LEMMA ReturnErrorType ==
    ASSUME TypeOK, NEW p \in Procs, NEW label \in Labels, ReturnError(p, label),
           UNCHANGED <<path, data, synced, undone, reply, acked>>
    PROVE  TypeOK'
<1>1. CASE writer[p].call = "finish"
  <2>1. "idle" \in Labels
    BY DEF Labels
  <2>2. CloseHandle(p, "idle")
    BY <1>1 DEF ReturnError
  <2> QED
    BY <2>1, <2>2, CloseHandleType DEF TypeOK
<1>2. CASE writer[p].call # "finish"
  <2> DEFINE w == [writer[p] EXCEPT !.remaining = 0, !.written = 0,
                                    !.body = NoBody, !.call = "none"]
  <2>1. writer[p] \in Writers
    BY DEF TypeOK
  <2>2. 0 \in 0..MaxBatch /\ "none" \in Calls
    BY TargetsAssumption DEF Calls
  <2>3. w \in Writers
    BY <2>1, <2>2 DEF Writers
  <2>4. /\ writer' = [writer EXCEPT ![p] = w]
        /\ pc' = [pc EXCEPT ![p] = label]
        /\ UNCHANGED <<lock, fd, plan>>
    BY <1>2 DEF ReturnError, Goto
  <2> HIDE DEF w
  <2> QED
    BY <2>3, <2>4 DEF TypeOK
<1> QED
  BY <1>1, <1>2

LEMMA OpenHandleType ==
    ASSUME TypeOK, NEW p \in Procs, NEW label \in Labels, OpenHandle(p, label)
    PROVE  TypeOK'
<1>1. "none" \in Replies
  BY DEF Replies
<1> QED
  BY <1>1 DEF OpenHandle, TypeOK, Goto

LEMMA AcquireLockType ==
    ASSUME TypeOK, NEW p \in Procs, NEW label \in Labels, AcquireLock(p, label)
    PROVE  TypeOK'
  BY DEF AcquireLock, TypeOK, Goto

LEMMA LabelsType ==
    /\ {"idle"} \cup Creating \cup Opening \cup Appending \cup Repairing \subseteq Labels
    /\ Locked \subseteq Labels
  BY DEF Labels, Locked, Creating, Opening, Appending, Repairing

\* A step that only moves one process and updates its Writer.
LEMMA WriterStepType ==
    ASSUME TypeOK, NEW p \in Procs, NEW label \in Labels, NEW w \in Writers,
           writer' = [writer EXCEPT ![p] = w],
           pc' = [pc EXCEPT ![p] = label] \/ pc' = pc,
           UNCHANGED <<path, synced, undone, lock, fd, plan, reply, acked>>,
           data' \in [Inodes -> Seq(Run)]
    PROVE  TypeOK'
  BY DEF TypeOK

\* Writer::create and Writer::open keep the types.
LEMMA CreateOpenType ==
    ASSUME TypeOK, HandlesHoldLocks, NEW p \in Procs,
           \/ Create(p) \/ CreateLock(p) \/ CreateLockFails(p)
           \/ WriteInitial(p) \/ WriteInitialFails(p) \/ Cleanup(p)
           \/ Open(p) \/ OpenLock(p) \/ OpenLockFails(p) \/ OpenScan(p) \/ OpenScanFails(p)
           \/ OpenCheck(p) \/ OpenCheckFails(p)
    PROVE  TypeOK'
<1> USE LabelsType DEF Creating, Opening, Appending
<1>r. "none" \in Replies
  BY DEF Replies
<1>f. pc[p] \notin {"idle", "cleanup"} => fd[p] \in Inodes
  BY DEF HandlesHoldLocks, TypeOK
<1>d. pc[p] \notin {"idle", "cleanup"} => data[fd[p]] \in Seq(Run)
  BY <1>f DEF TypeOK
<1>1. CASE Create(p)
  <2>1. PICK i \in Inodes :
           /\ path' = i
           /\ data' = [data EXCEPT ![i] = <<>>]
           /\ synced' = [synced EXCEPT ![i] = 0]
           /\ undone' = [undone EXCEPT ![i] = <<>>]
           /\ fd' = [fd EXCEPT ![p] = i]
    BY <1>1 DEF Create
  <2>2. <<>> \in Seq(Run)
    OBVIOUS
  <2>3. /\ reply' = [reply EXCEPT ![p] = "none"]
        /\ pc' = [pc EXCEPT ![p] = "create_lock"]
        /\ UNCHANGED <<lock, writer, plan, acked>>
    BY <1>1 DEF Create, Goto
  <2>4. "create_lock" \in Labels
    OBVIOUS
  <2> QED
    BY <2>1, <2>2, <2>3, <2>4, <1>r DEF TypeOK
<1>2. CASE CreateLock(p)
  BY <1>2, AcquireLockType DEF CreateLock, Locked
<1>3. CASE CreateLockFails(p)
  BY <1>3, CloseHandleType DEF CreateLockFails, TypeOK
<1>4. CASE WriteInitial(p)
  <2> DEFINE done == writer[p].written
             f == AppendUnit(data[fd[p]], SchemaFrame, done)
             w == IF done + 1 = TotalLength(SchemaFrame)
                  THEN [NoWriter EXCEPT !.file_length = TotalLength(SchemaFrame)]
                  ELSE [writer[p] EXCEPT !.written = done + 1]
  <2>1. writer[p] \in Writers /\ done \in Nat
    BY DEF TypeOK, Writers
  <2>2. f \in Seq(Run)
    BY <2>1, <1>4, <1>d, AppendUnitType, SchemaFrameType DEF WriteInitial, At
  <2>3. TotalLength(SchemaFrame) \in Nat
    BY SchemaFrameType DEF TotalLength, FrameSet
  <2>4. [NoWriter EXCEPT !.file_length = TotalLength(SchemaFrame)] \in Writers
    BY <2>3, NoWriterType DEF Writers
  <2>5. [writer[p] EXCEPT !.written = done + 1] \in Writers
    BY <2>1 DEF Writers
  <2>6. w \in Writers
    BY <2>4, <2>5
  <2>7. /\ writer' = [writer EXCEPT ![p] = w]
        /\ pc' = [pc EXCEPT ![p] = "ready"] \/ pc' = pc
        /\ data' = [data EXCEPT ![fd[p]] = f]
        /\ UNCHANGED <<path, synced, undone, lock, fd, plan, reply, acked>>
    BY <1>4 DEF WriteInitial, Goto
  <2>8. data' \in [Inodes -> Seq(Run)]
    BY <2>2, <2>7 DEF TypeOK
  <2> HIDE DEF w
  <2> QED
    BY <2>6, <2>7, <2>8, WriterStepType
<1>5. CASE WriteInitialFails(p)
  BY <1>5, CloseHandleType DEF WriteInitialFails, TypeOK
<1>6. CASE Cleanup(p)
  BY <1>6 DEF Cleanup, TypeOK, Goto
<1>7. CASE Open(p)
  BY <1>7, OpenHandleType DEF Open
<1>8. CASE OpenLock(p)
  BY <1>8, AcquireLockType DEF OpenLock
<1>9. CASE OpenLockFails(p)
  BY <1>9, <1>r, ReturnType DEF OpenLockFails
<1>10. CASE OpenScan(p)
  <2>1. Walk(data[fd[p]]) \in Plans
    BY <1>10, <1>d, WalkType DEF OpenScan, At
  <2> QED
    BY <1>10, <2>1 DEF OpenScan, TypeOK, Goto
<1>11. CASE OpenScanFails(p)
  BY <1>11, <1>r, ReturnType DEF OpenScanFails
<1>12. CASE OpenCheck(p)
  <2> DEFINE w == [NoWriter EXCEPT !.file_length = plan[p].file_size,
                                   !.next_sequence = plan[p].next_sequence,
                                   !.next_row_id = plan[p].next_row_id]
  <2>1. plan[p] \in Plans
    BY DEF TypeOK
  <2>2. w \in Writers
    BY <2>1, NoWriterType DEF Writers, Plans
  <2>3. /\ writer' = [writer EXCEPT ![p] = w]
        /\ plan' = [plan EXCEPT ![p] = NoPlan]
        /\ pc' = [pc EXCEPT ![p] = "ready"]
        /\ UNCHANGED <<path, data, synced, undone, lock, fd, reply, acked>>
    BY <1>12 DEF OpenCheck, Goto
  <2> HIDE DEF w
  <2> QED
    BY <2>2, <2>3, NoPlanType DEF TypeOK
<1>13. CASE OpenCheckFails(p)
  BY <1>13, <1>r, ReturnType DEF OpenCheckFails
<1> QED
  BY <1>1, <1>2, <1>3, <1>4, <1>5, <1>6, <1>7, <1>8, <1>9, <1>10, <1>11, <1>12, <1>13

\* append, flush, sync, finish and drop keep the types.
LEMMA WriterCallsType ==
    ASSUME TypeOK, HandlesHoldLocks, NEW p \in Procs,
           \/ BeginAppend(p) \/ BeginFlush(p) \/ Drop(p)
           \/ AppendLoop(p) \/ BuildFrame(p) \/ BuildFrameFails(p)
           \/ WriteFrame(p) \/ WriteFrameFails(p) \/ FlushDone(p)
           \/ ReleaseFails(p) \/ FlushFails(p)
    PROVE  TypeOK'
<1> USE LabelsType DEF Appending
<1>f. pc[p] \notin {"idle", "cleanup"} => fd[p] \in Inodes
  BY DEF HandlesHoldLocks, TypeOK
<1>d. pc[p] \notin {"idle", "cleanup"} => data[fd[p]] \in Seq(Run)
  BY <1>f DEF TypeOK
<1>w. writer[p] \in Writers
  BY DEF TypeOK
<1>t. data \in [Inodes -> Seq(Run)]
  BY DEF TypeOK
<1>1. CASE BeginAppend(p)
  <2>1. PICK rows \in 1..MaxBatch :
           writer' = [writer EXCEPT ![p] = [writer[p] EXCEPT !.remaining = rows,
                                                             !.call = "append"]]
    BY <1>1 DEF BeginAppend
  <2> DEFINE w == [writer[p] EXCEPT !.remaining = rows, !.call = "append"]
  <2>2. w \in Writers
    <3>1. rows \in 0..MaxBatch /\ "append" \in Calls
      BY TargetsAssumption DEF Calls
    <3> QED
      BY <3>1, <1>w DEF Writers
  <2>3. /\ writer' = [writer EXCEPT ![p] = w]
        /\ pc' = [pc EXCEPT ![p] = "append"]
        /\ UNCHANGED <<path, data, synced, undone, lock, fd, plan, reply, acked>>
    BY <1>1, <2>1 DEF BeginAppend, Goto
  <2> HIDE DEF w
  <2> QED
    BY <2>2, <2>3, <1>t, WriterStepType
<1>2. CASE BeginFlush(p)
  <2>1. PICK call \in {"flush", "sync", "finish"} :
           writer' = [writer EXCEPT ![p] = [writer[p] EXCEPT !.call = call]]
    BY <1>2 DEF BeginFlush
  <2> DEFINE w == [writer[p] EXCEPT !.call = call]
  <2>2. w \in Writers
    BY <1>w DEF Writers, Calls
  <2>3. /\ writer' = [writer EXCEPT ![p] = w]
        /\ pc' = [pc EXCEPT ![p] = IF writer[p].buffered = 0 THEN "flushed" ELSE "publish"]
        /\ UNCHANGED <<path, data, synced, undone, lock, fd, plan, reply, acked>>
    BY <1>2, <2>1 DEF BeginFlush, Goto
  <2> HIDE DEF w
  <2> QED
    BY <2>2, <2>3, <1>t, WriterStepType
<1>3. CASE Drop(p)
  BY <1>3, CloseHandleType DEF Drop, TypeOK
<1>4. CASE AppendLoop(p)
  <2> DEFINE take == fitting_prefix(writer[p])
             w == IF writer[p].remaining = 0
                  THEN [writer[p] EXCEPT !.call = "none"]
                  ELSE [writer[p] EXCEPT !.buffered = writer[p].buffered + take,
                                         !.remaining = writer[p].remaining - take]
             label == IF writer[p].remaining = 0 THEN "ready"
                      ELSE IF writer[p].buffered + take >= RowTarget
                      THEN "publish" ELSE "append"
  <2>1. /\ writer[p].buffered \in 0..RowTarget
        /\ writer[p].remaining \in 0..MaxBatch
    BY <1>w DEF Writers
  <2>2. /\ writer[p].buffered + take \in 0..RowTarget
        /\ writer[p].remaining - take \in 0..MaxBatch
    BY <2>1, TargetsAssumption DEF fitting_prefix
  <2>3. [writer[p] EXCEPT !.call = "none"] \in Writers
    BY <1>w DEF Writers, Calls
  <2>4. [writer[p] EXCEPT !.buffered = writer[p].buffered + take,
                          !.remaining = writer[p].remaining - take] \in Writers
    BY <1>w, <2>2 DEF Writers
  <2>5. w \in Writers /\ label \in Labels
    BY <2>3, <2>4
  <2>6. /\ writer' = [writer EXCEPT ![p] = w]
        /\ pc' = [pc EXCEPT ![p] = label]
        /\ UNCHANGED <<path, data, synced, undone, lock, fd, plan, reply, acked>>
    BY <1>4 DEF AppendLoop, Goto
  <2> HIDE DEF w, label
  <2> QED
    BY <2>5, <2>6, <1>t, WriterStepType
<1>5. CASE BuildFrame(p)
  <2>1. PICK body \in Bodies : writer' = [writer EXCEPT ![p] = [writer[p] EXCEPT !.body = body]]
    BY <1>5 DEF BuildFrame
  <2> DEFINE w == [writer[p] EXCEPT !.body = body]
  <2>2. w \in Writers
    BY <1>w DEF Writers
  <2>3. /\ writer' = [writer EXCEPT ![p] = w]
        /\ pc' = [pc EXCEPT ![p] = "write_frame"]
        /\ UNCHANGED <<path, data, synced, undone, lock, fd, plan, reply, acked>>
    BY <1>5, <2>1 DEF BuildFrame, Goto
  <2> HIDE DEF w
  <2> QED
    BY <2>2, <2>3, <1>t, WriterStepType
<1>6. CASE BuildFrameFails(p)
  BY <1>6, ReturnErrorType DEF BuildFrameFails
<1>7. CASE WriteFrame(p)
  <2> DEFINE v == writer[p]
             frame == PendingFrame(v)
             last == v.written + 1 = TotalLength(frame)
             f == AppendUnit(data[fd[p]], frame, v.written)
             w == IF last THEN CommittedWriter(v) ELSE [v EXCEPT !.written = v.written + 1]
             label == IF v.call = "append" THEN "append" ELSE "flushed"
  <2>1. frame \in FrameSet /\ v.written \in Nat
    BY <1>w, PendingFrameType DEF Writers
  <2>2. f \in Seq(Run)
    BY <2>1, <1>7, <1>d, AppendUnitType DEF WriteFrame, At
  <2>3. w \in Writers
    <3>1. CommittedWriter(v) \in Writers
      BY <1>w, CommittedWriterType
    <3>2. [v EXCEPT !.written = v.written + 1] \in Writers
      BY <1>w, <2>1 DEF Writers
    <3> QED
      BY <3>1, <3>2
  <2>4. /\ writer' = [writer EXCEPT ![p] = w]
        /\ pc' = [pc EXCEPT ![p] = label] \/ pc' = pc
        /\ data' = [data EXCEPT ![fd[p]] = f]
        /\ UNCHANGED <<path, synced, undone, lock, fd, plan, reply, acked>>
    BY <1>7 DEF WriteFrame, Goto
  <2>5. data' \in [Inodes -> Seq(Run)]
    BY <2>2, <2>4 DEF TypeOK
  <2>6. label \in Labels
    OBVIOUS
  <2> HIDE DEF w, label
  <2> QED
    BY <2>3, <2>4, <2>5, <2>6, WriterStepType
<1>8. CASE WriteFrameFails(p)
  BY <1>8, ReturnErrorType DEF WriteFrameFails
<1>9. CASE FlushDone(p)
  <2>1. fd[p] \in Inodes /\ data[fd[p]] \in Seq(Run)
    BY <1>9, <1>f, <1>d DEF FlushDone, At
  <2>2. DataFrames(data[fd[p]]) \in Seq(FrameSet) /\ Len(data[fd[p]]) \in Nat
    BY <2>1, DataFramesType
  <2>3. /\ synced' \in [Inodes -> Nat]
        /\ undone' \in [Inodes -> Seq(Run)]
        /\ acked' \in Seq(FrameSet)
    <3>1. CASE writer[p].call = "flush"
      BY <1>9, <3>1 DEF FlushDone, TypeOK
    <3>2. CASE writer[p].call # "flush"
      <4>1. /\ synced' = [synced EXCEPT ![fd[p]] = Len(data[fd[p]])]
            /\ undone' = [undone EXCEPT ![fd[p]] = <<>>]
            /\ acked' = DataFrames(data[fd[p]])
        BY <1>9, <3>2 DEF FlushDone
      <4>2. synced' \in [Inodes -> Nat]
        BY <4>1, <2>1, <2>2 DEF TypeOK
      <4>3. undone' \in [Inodes -> Seq(Run)]
        BY <4>1, <2>1 DEF TypeOK
      <4> QED
        BY <4>1, <4>2, <4>3, <2>2
    <3> QED
      BY <3>1, <3>2
  <2>4. CASE writer[p].call = "finish"
    BY <1>9, <2>3, <2>4, CloseHandleType DEF FlushDone, TypeOK
  <2>5. CASE writer[p].call # "finish"
    <3> DEFINE w == [writer[p] EXCEPT !.call = "none"]
    <3>1. w \in Writers
      BY <1>w DEF Writers, Calls
    <3>2. /\ writer' = [writer EXCEPT ![p] = w]
          /\ pc' = [pc EXCEPT ![p] = "ready"]
          /\ UNCHANGED <<path, data, lock, fd, plan, reply>>
      BY <1>9, <2>5 DEF FlushDone, Goto
    <3> HIDE DEF w
    <3> QED
      BY <2>3, <3>1, <3>2 DEF TypeOK
  <2> QED
    BY <2>4, <2>5
<1>10. CASE ReleaseFails(p)
  <2>1. fd[p] \in Inodes /\ Len(data[fd[p]]) \in Nat
    BY <1>10, <1>f, <1>d DEF ReleaseFails, At
  <2>2. synced' \in [Inodes -> Nat] /\ undone' \in [Inodes -> Seq(Run)]
    BY <1>10, <2>1 DEF ReleaseFails, TypeOK
  <2> QED
    BY <1>10, <2>2, CloseHandleType DEF ReleaseFails, TypeOK
<1>11. CASE FlushFails(p)
  BY <1>11, ReturnErrorType DEF FlushFails
<1> QED
  BY <1>1, <1>2, <1>3, <1>4, <1>5, <1>6, <1>7, <1>8, <1>9, <1>10, <1>11

\* repair_incomplete_tail keeps the types.  The truncation stays within the file
\* because the plan it follows is the walk of the file as it is.
LEMMA RepairType ==
    ASSUME TypeOK, HandlesHoldLocks, PlanIsCurrent, NEW p \in Procs,
           \/ RepairOpen(p) \/ RepairLock(p) \/ RepairLockFails(p)
           \/ RepairScan(p) \/ RepairScanFails(p)
           \/ RepairTruncate(p) \/ RepairTruncateFails(p)
           \/ RepairSync(p) \/ RepairSyncFails(p)
           \/ RepairVerify(p) \/ RepairVerifyFails(p)
    PROVE  TypeOK'
<1> USE LabelsType DEF Repairing
<1>r. {"ok", "refused", "unchanged", "removed"} \subseteq Replies
  BY DEF Replies
<1>f. pc[p] \notin {"idle", "cleanup"} => fd[p] \in Inodes
  BY DEF HandlesHoldLocks, TypeOK
<1>d. pc[p] \notin {"idle", "cleanup"} => data[fd[p]] \in Seq(Run)
  BY <1>f DEF TypeOK
<1>1. CASE RepairOpen(p)
  BY <1>1, OpenHandleType DEF RepairOpen
<1>2. CASE RepairLock(p)
  BY <1>2, AcquireLockType DEF RepairLock
<1>3. CASE RepairLockFails(p)
  BY <1>3, <1>r, ReturnType DEF RepairLockFails
<1>4. CASE RepairScan(p)
  <2>1. Walk(data[fd[p]]) \in Plans
    BY <1>4, <1>d, WalkType DEF RepairScan, At
  <2> QED
    BY <1>4, <2>1 DEF RepairScan, TypeOK, Goto
<1>5. CASE RepairScanFails(p)
  BY <1>5, <1>r, ReturnType DEF RepairScanFails
<1>6. CASE RepairTruncate(p)
  <2>1. fd[p] \in Inodes /\ data[fd[p]] \in Seq(Run)
    BY <1>6, <1>f, <1>d DEF RepairTruncate, At
  <2> DEFINE n == plan[p].frame_count
             f == data[fd[p]]
  <2>2. n = FrameCount(f)
    <3>1. plan[p] = Walk(f)
      BY <1>6 DEF PlanIsCurrent, RepairTruncate, At
    <3> QED
      BY <3>1, WalkFields
  <2>3. n \in 0..Len(f)
    BY <2>1, <2>2, FrameCountType
  <2>4. SubSeq(f, 1, n) \in Seq(Run)
    BY <2>1, <2>3
  <2>5. /\ data' = [data EXCEPT ![fd[p]] = SubSeq(f, 1, n)]
        /\ undone' = [undone EXCEPT ![fd[p]] = f]
        /\ synced' = [synced EXCEPT ![fd[p]] = IF synced[fd[p]] > n THEN n ELSE synced[fd[p]]]
        /\ pc' = [pc EXCEPT ![p] = "repair_sync"]
        /\ UNCHANGED <<path, lock, fd, writer, plan, reply, acked>>
    BY <1>6 DEF RepairTruncate, Goto
  <2>6. n \in Nat
    BY <2>1, <2>3
  <2> HIDE DEF n, f
  <2>7. synced' \in [Inodes -> Nat]
    BY <2>5, <2>6 DEF TypeOK
  <2>8. data' \in [Inodes -> Seq(Run)] /\ undone' \in [Inodes -> Seq(Run)]
    BY <2>1, <2>4, <2>5 DEF TypeOK, f
  <2> QED
    BY <2>5, <2>7, <2>8 DEF TypeOK
<1>7. CASE RepairTruncateFails(p)
  BY <1>7, <1>r, ReturnType DEF RepairTruncateFails
<1>8. CASE RepairSync(p)
  <2>1. fd[p] \in Inodes /\ Len(data[fd[p]]) \in Nat
    BY <1>8, <1>f, <1>d DEF RepairSync, At
  <2> QED
    BY <1>8, <2>1 DEF RepairSync, TypeOK, Goto
<1>9. CASE RepairSyncFails(p)
  BY <1>9, <1>r, ReturnType DEF RepairSyncFails
<1>10. CASE RepairVerify(p)
  BY <1>10, <1>r, ReturnType DEF RepairVerify
<1>11. CASE RepairVerifyFails(p)
  BY <1>11, <1>r, ReturnType DEF RepairVerifyFails
<1> QED
  BY <1>1, <1>2, <1>3, <1>4, <1>5, <1>6, <1>7, <1>8, <1>9, <1>10, <1>11

\* Death of a process, or of all of them, keeps the types.
LEMMA KillType ==
    ASSUME TypeOK, NEW p \in Procs, Kill(p)
    PROVE  TypeOK'
  BY CloseHandleType, LabelsType DEF Kill, TypeOK

LEMMA PowerLossType ==
    ASSUME TypeOK, PowerLoss
    PROVE  TypeOK'
<1> DEFINE Left(f, k, u) ==
             /\ data' = [i \in Inodes |-> IF i = path THEN CutTo(f, k, u) ELSE <<>>]
             /\ synced' = [i \in Inodes |-> IF i = path THEN Len(CutTo(f, k, u)) ELSE 0]
<1>1. PICK f \in {data[path], undone[path]} :
        \E k \in synced[path]..Len(f) :
          \E u \in 0..(IF k < Len(f) THEN f[k+1].units ELSE 0) : Left(f, k, u)
  BY DEF PowerLoss
<1>2. PICK k \in synced[path]..Len(f) :
        \E u \in 0..(IF k < Len(f) THEN f[k+1].units ELSE 0) : Left(f, k, u)
  BY <1>1
<1>0. PICK u \in 0..(IF k < Len(f) THEN f[k+1].units ELSE 0) : Left(f, k, u)
  BY <1>2
<1>3. path \in Inodes
  BY DEF PowerLoss, TypeOK
<1>4. f \in Seq(Run) /\ synced[path] \in Nat
  BY <1>3 DEF TypeOK
<1>5. k \in 0..Len(f)
  BY <1>4
<1>6. CutTo(f, k, u) \in Seq(Run)
  BY <1>4, <1>5, CutToType
<1>7. Len(CutTo(f, k, u)) \in Nat
  BY <1>6
<1>8. data' \in [Inodes -> Seq(Run)] /\ synced' \in [Inodes -> Nat]
  BY <1>0, <1>6, <1>7
<1>9. "idle" \in Labels /\ "none" \in Replies
  BY LabelsType DEF Replies
<1> QED
  BY <1>8, <1>9, NoWriterType, NoPlanType DEF PowerLoss, TypeOK

-----------------------------------------------------------------------------
(* Handles and locks                                                       *)

LEMMA CloseHandleLocks ==
    ASSUME TypeOK, HandlesHoldLocks, NEW p \in Procs,
           NEW label \in {"idle", "cleanup"}, CloseHandle(p, label)
    PROVE  HandlesHoldLocks'
<1>1. /\ fd' = [fd EXCEPT ![p] = None]
      /\ lock' = [i \in Inodes |-> IF lock[i] = p THEN None ELSE lock[i]]
      /\ pc' = [pc EXCEPT ![p] = label]
  BY DEF CloseHandle, Goto
<1>2. label \notin Locked
  BY DEF Locked, Appending, Repairing
<1>3. \A q \in Procs : fd'[q] = None <=> pc'[q] \in {"idle", "cleanup"}
  BY <1>1 DEF HandlesHoldLocks, TypeOK
<1>4. ASSUME NEW q \in Procs, pc'[q] \in Locked
      PROVE  lock'[fd'[q]] = q
  <2>1. q # p
    BY <1>1, <1>2, <1>4 DEF TypeOK
  <2>2. pc[q] \in Locked /\ fd'[q] = fd[q] /\ lock[fd[q]] = q
    BY <1>1, <1>4, <2>1 DEF TypeOK, HandlesHoldLocks
  <2>3. fd[q] \in Inodes
    BY <2>2 DEF TypeOK, HandlesHoldLocks, Locked, Appending, Repairing
  <2> QED
    BY <1>1, <2>1, <2>2, <2>3
<1>5. ASSUME NEW q \in Procs, NEW i \in Inodes, lock'[i] = q
      PROVE  pc'[q] \in Locked /\ fd'[q] = i
  <2>1. q # p /\ lock[i] = q
    BY <1>1, <1>5, NoneAssumption
  <2> QED
    BY <1>1, <2>1 DEF TypeOK, HandlesHoldLocks
<1> QED
  BY <1>3, <1>4, <1>5 DEF HandlesHoldLocks

LEMMA AcquireLockLocks ==
    ASSUME TypeOK, HandlesHoldLocks, NEW p \in Procs,
           pc[p] \notin {"idle", "cleanup"} \cup Locked,
           NEW label \in Locked, AcquireLock(p, label)
    PROVE  HandlesHoldLocks'
<1>1. /\ lock[fd[p]] = None
      /\ lock' = [lock EXCEPT ![fd[p]] = p]
      /\ pc' = [pc EXCEPT ![p] = label]
      /\ fd' = fd
  BY DEF AcquireLock, Goto
<1>2. fd[p] \in Inodes
  BY DEF TypeOK, HandlesHoldLocks
<1>3. label \notin {"idle", "cleanup"}
  BY DEF Locked, Appending, Repairing
<1>4. \A q \in Procs : fd'[q] = None <=> pc'[q] \in {"idle", "cleanup"}
  BY <1>1, <1>3 DEF HandlesHoldLocks, TypeOK
<1>5. ASSUME NEW q \in Procs, pc'[q] \in Locked
      PROVE  lock'[fd'[q]] = q
  <2>1. CASE q = p
    BY <1>1, <1>2, <2>1 DEF TypeOK
  <2>2. CASE q # p
    <3>1. pc[q] \in Locked
      BY <1>1, <1>5, <2>2 DEF TypeOK
    <3>2. lock[fd[q]] = q
      BY <3>1 DEF HandlesHoldLocks
    <3>3. fd[q] # fd[p]
      BY <1>1, <3>2, NoneAssumption
    <3> QED
      BY <1>1, <3>2, <3>3 DEF TypeOK
  <2> QED
    BY <2>1, <2>2
<1>6. ASSUME NEW q \in Procs, NEW i \in Inodes, lock'[i] = q
      PROVE  pc'[q] \in Locked /\ fd'[q] = i
  <2>1. CASE i = fd[p]
    BY <1>1, <1>6, <2>1 DEF TypeOK
  <2>2. CASE i # fd[p]
    <3>1. lock[i] = q
      BY <1>1, <1>6, <2>2 DEF TypeOK
    <3>2. pc[q] \in Locked /\ fd[q] = i
      BY <3>1 DEF HandlesHoldLocks
    <3> QED
      BY <1>1, <2>2, <3>2 DEF TypeOK
  <2> QED
    BY <2>1, <2>2
<1> QED
  BY <1>4, <1>5, <1>6 DEF HandlesHoldLocks

\* Opening a handle, on a path that exists or on a new one, takes no lock.
LEMMA OpenHandleLocks ==
    ASSUME TypeOK, HandlesHoldLocks, NEW p \in Procs, pc[p] = "idle", NEW i \in Inodes,
           NEW label \in {"create_lock", "open_lock", "repair_lock"},
           fd' = [fd EXCEPT ![p] = i], pc' = [pc EXCEPT ![p] = label], lock' = lock
    PROVE  HandlesHoldLocks'
<1>1. /\ label \notin Locked
      /\ label \notin {"idle", "cleanup"}
      /\ "idle" \notin Locked
  BY DEF Locked, Appending, Repairing
<1>2. \A q \in Procs : fd'[q] = None <=> pc'[q] \in {"idle", "cleanup"}
  BY <1>1, NoneAssumption DEF HandlesHoldLocks, TypeOK
<1>3. ASSUME NEW q \in Procs, pc'[q] \in Locked
      PROVE  lock'[fd'[q]] = q
  <2>1. q # p
    BY <1>1, <1>3 DEF TypeOK
  <2> QED
    BY <1>3, <2>1 DEF TypeOK, HandlesHoldLocks
<1>4. ASSUME NEW q \in Procs, NEW j \in Inodes, lock'[j] = q
      PROVE  pc'[q] \in Locked /\ fd'[q] = j
  <2>1. pc[q] \in Locked /\ fd[q] = j
    BY <1>4 DEF HandlesHoldLocks
  <2>2. q # p
    BY <1>1, <2>1
  <2> QED
    BY <2>1, <2>2 DEF TypeOK
<1> QED
  BY <1>2, <1>3, <1>4 DEF HandlesHoldLocks

\* A step from one point under the lock to another.
LEMMA LockedStepLocks ==
    ASSUME TypeOK, HandlesHoldLocks, NEW p \in Procs, pc[p] \in Locked,
           NEW label \in Locked, UNCHANGED <<lock, fd>>,
           pc' = [pc EXCEPT ![p] = label] \/ pc' = pc
    PROVE  HandlesHoldLocks'
<1>1. \A l \in Locked : l \notin {"idle", "cleanup"}
  BY DEF Locked, Appending, Repairing
<1>2. \A q \in Procs : pc'[q] \in Locked <=> pc[q] \in Locked
  BY DEF TypeOK
<1>3. \A q \in Procs : pc'[q] \in {"idle", "cleanup"} <=> pc[q] \in {"idle", "cleanup"}
  BY <1>1 DEF TypeOK
<1> QED
  BY <1>2, <1>3 DEF HandlesHoldLocks

\* Who holds a lock after a step of one process.
LEMMA ProcessLocks ==
    ASSUME TypeOK, HandlesHoldLocks, NEW p \in Procs, Caller(p) \/ Step(p) \/ Kill(p)
    PROVE  HandlesHoldLocks'
<1> USE DEF At, Goto
<1>l. /\ {"ready", "append", "publish", "write_frame", "flushed", "poisoned",
          "write_initial", "open_scan", "open_check", "repair_scan", "repair_truncate",
          "repair_sync", "repair_verify"} \subseteq Locked
      /\ {"create_lock", "open_lock", "repair_lock"} \cap Locked = {}
  BY DEF Locked, Appending, Repairing
<1>1. CASE Create(p)
  <2>1. PICK i \in Inodes : fd' = [fd EXCEPT ![p] = i]
    BY <1>1 DEF Create
  <2>2. pc[p] = "idle" /\ pc' = [pc EXCEPT ![p] = "create_lock"] /\ lock' = lock
    BY <1>1 DEF Create
  <2> QED
    BY <2>1, <2>2, OpenHandleLocks
<1>2. ASSUME NEW label \in {"open_lock", "repair_lock"}, OpenHandle(p, label)
      PROVE  HandlesHoldLocks'
  <2>1. path \in Inodes
    BY <1>2 DEF OpenHandle, TypeOK
  <2>2. /\ fd' = [fd EXCEPT ![p] = path]
        /\ pc[p] = "idle" /\ pc' = [pc EXCEPT ![p] = label] /\ lock' = lock
    BY <1>2 DEF OpenHandle
  <2> QED
    BY <2>1, <2>2, OpenHandleLocks
<1>3. CASE Open(p) \/ RepairOpen(p)
  BY <1>2, <1>3 DEF Open, RepairOpen
<1>4. CASE CreateLock(p) \/ OpenLock(p) \/ RepairLock(p)
  <2>1. pc[p] \notin {"idle", "cleanup"} \cup Locked
    BY <1>4, <1>l DEF CreateLock, OpenLock, RepairLock
  <2> QED
    BY <1>4, <1>l, <2>1, AcquireLockLocks DEF CreateLock, OpenLock, RepairLock
<1>5. CASE CreateLockFails(p) \/ WriteInitialFails(p)
  BY <1>5, CloseHandleLocks DEF CreateLockFails, WriteInitialFails
<1>6. ASSUME NEW how, Return(p, how)
      PROVE  HandlesHoldLocks'
  BY <1>6, CloseHandleLocks DEF Return
<1>7. CASE \/ OpenLockFails(p) \/ OpenScanFails(p) \/ OpenCheckFails(p)
           \/ RepairLockFails(p) \/ RepairScanFails(p) \/ RepairTruncateFails(p)
           \/ RepairSyncFails(p) \/ RepairVerify(p) \/ RepairVerifyFails(p)
  BY <1>6, <1>7
     DEF OpenLockFails, OpenScanFails, OpenCheckFails, RepairLockFails, RepairScanFails,
         RepairTruncateFails, RepairSyncFails, RepairVerify, RepairVerifyFails
<1>8. CASE Kill(p) \/ Drop(p) \/ ReleaseFails(p)
  BY <1>8, CloseHandleLocks DEF Kill, Drop, ReleaseFails
<1>9. CASE Cleanup(p)
  <2>1. pc[p] = "cleanup" /\ pc' = [pc EXCEPT ![p] = "idle"] /\ UNCHANGED <<lock, fd>>
    BY <1>9 DEF Cleanup
  <2>2. {"idle", "cleanup"} \cap Locked = {}
    BY DEF Locked, Appending, Repairing
  <2>3. \A q \in Procs : /\ pc'[q] \in Locked <=> pc[q] \in Locked
                         /\ pc'[q] \in {"idle", "cleanup"} <=> pc[q] \in {"idle", "cleanup"}
    BY <2>1, <2>2 DEF TypeOK
  <2> QED
    BY <2>1, <2>3 DEF HandlesHoldLocks
<1>10. ASSUME NEW label \in Locked, ReturnError(p, label), pc[p] \in Locked
       PROVE  HandlesHoldLocks'
  <2>1. CASE writer[p].call = "finish"
    BY <1>10, <2>1, CloseHandleLocks DEF ReturnError
  <2>2. CASE writer[p].call # "finish"
    BY <1>10, <2>2, LockedStepLocks DEF ReturnError
  <2> QED
    BY <2>1, <2>2
<1>11. CASE BuildFrameFails(p) \/ WriteFrameFails(p) \/ FlushFails(p)
  BY <1>10, <1>11, <1>l DEF BuildFrameFails, WriteFrameFails, FlushFails
<1>12. CASE FlushDone(p)
  <2>1. pc[p] \in Locked
    BY <1>12, <1>l DEF FlushDone
  <2>2. CASE writer[p].call = "finish"
    BY <1>12, <2>2, CloseHandleLocks DEF FlushDone
  <2>3. CASE writer[p].call # "finish"
    BY <1>12, <2>1, <2>3, <1>l, LockedStepLocks DEF FlushDone
  <2> QED
    BY <2>2, <2>3
<1>13. CASE \/ WriteInitial(p) \/ OpenScan(p) \/ OpenCheck(p) \/ BeginAppend(p)
            \/ BeginFlush(p) \/ AppendLoop(p) \/ BuildFrame(p) \/ WriteFrame(p)
            \/ RepairScan(p) \/ RepairTruncate(p) \/ RepairSync(p)
  <2>1. pc[p] \in Locked /\ UNCHANGED <<lock, fd>>
    BY <1>13, <1>l
       DEF WriteInitial, OpenScan, OpenCheck, BeginAppend, BeginFlush, AppendLoop,
           BuildFrame, WriteFrame, RepairScan, RepairTruncate, RepairSync
  <2>2. \E label \in Locked : pc' = [pc EXCEPT ![p] = label] \/ pc' = pc
    <3>1. CASE WriteInitial(p)
      BY <3>1, <1>l DEF WriteInitial
    <3>2. CASE OpenScan(p)
      BY <3>2, <1>l DEF OpenScan
    <3>3. CASE OpenCheck(p)
      BY <3>3, <1>l DEF OpenCheck
    <3>4. CASE BeginAppend(p)
      BY <3>4, <1>l DEF BeginAppend
    <3>5. CASE BeginFlush(p)
      BY <3>5, <1>l DEF BeginFlush
    <3>6. CASE AppendLoop(p)
      BY <3>6, <1>l DEF AppendLoop
    <3>7. CASE BuildFrame(p)
      BY <3>7, <1>l DEF BuildFrame
    <3>8. CASE WriteFrame(p)
      BY <3>8, <1>l DEF WriteFrame
    <3>9. CASE RepairScan(p)
      BY <3>9, <1>l DEF RepairScan
    <3>10. CASE RepairTruncate(p)
      BY <3>10, <1>l DEF RepairTruncate
    <3>11. CASE RepairSync(p)
      BY <3>11, <1>l DEF RepairSync
    <3> QED
      BY <1>13, <3>1, <3>2, <3>3, <3>4, <3>5, <3>6, <3>7, <3>8, <3>9, <3>10, <3>11
  <2> QED
    BY <2>1, <2>2, LockedStepLocks
<1> QED
  BY <1>1, <1>3, <1>4, <1>5, <1>7, <1>8, <1>9, <1>11, <1>12, <1>13 DEF Caller, Step

LEMMA PowerLossLocks ==
    ASSUME TypeOK, HandlesHoldLocks, PowerLoss
    PROVE  HandlesHoldLocks'
<1>1. /\ lock' = [i \in Inodes |-> None]
      /\ fd' = [p \in Procs |-> None]
      /\ pc' = [p \in Procs |-> "idle"]
  BY DEF PowerLoss
<1>2. "idle" \notin Locked
  BY DEF Locked, Appending, Repairing
<1> QED
  BY <1>1, <1>2, NoneAssumption DEF HandlesHoldLocks

-----------------------------------------------------------------------------
(* What a step leaves alone                                                *)

\* A step of p moves no other process.
LEMMA StepIsLocal ==
    ASSUME TypeOK, NEW p \in Procs, Caller(p) \/ Step(p) \/ Kill(p),
           NEW q \in Procs, q # p
    PROVE  pc'[q] = pc[q] /\ fd'[q] = fd[q] /\ writer'[q] = writer[q] /\ plan'[q] = plan[q]
<1> USE DEF At, Goto, TypeOK
<1>1. ASSUME NEW label, CloseHandle(p, label)
      PROVE  pc'[q] = pc[q] /\ fd'[q] = fd[q] /\ writer'[q] = writer[q] /\ plan'[q] = plan[q]
  BY <1>1 DEF CloseHandle
<1>2. ASSUME NEW how, Return(p, how)
      PROVE  pc'[q] = pc[q] /\ fd'[q] = fd[q] /\ writer'[q] = writer[q] /\ plan'[q] = plan[q]
  BY <1>1, <1>2 DEF Return
<1>3. ASSUME NEW label, ReturnError(p, label)
      PROVE  pc'[q] = pc[q] /\ fd'[q] = fd[q] /\ writer'[q] = writer[q] /\ plan'[q] = plan[q]
  BY <1>1, <1>3 DEF ReturnError
<1>4. CASE \/ Open(p) \/ RepairOpen(p) \/ CreateLock(p) \/ OpenLock(p) \/ RepairLock(p)
           \/ Cleanup(p)
  BY <1>4 DEF Open, RepairOpen, OpenHandle, CreateLock, OpenLock, RepairLock, AcquireLock,
              Cleanup
<1>5. CASE \/ CreateLockFails(p) \/ WriteInitialFails(p) \/ Kill(p) \/ Drop(p)
           \/ ReleaseFails(p)
  BY <1>1, <1>5 DEF CreateLockFails, WriteInitialFails, Kill, Drop, ReleaseFails
<1>6. CASE \/ OpenLockFails(p) \/ OpenScanFails(p) \/ OpenCheckFails(p)
           \/ RepairLockFails(p) \/ RepairScanFails(p) \/ RepairTruncateFails(p)
           \/ RepairSyncFails(p) \/ RepairVerify(p) \/ RepairVerifyFails(p)
  BY <1>2, <1>6
     DEF OpenLockFails, OpenScanFails, OpenCheckFails, RepairLockFails, RepairScanFails,
         RepairTruncateFails, RepairSyncFails, RepairVerify, RepairVerifyFails
<1>7. CASE BuildFrameFails(p) \/ WriteFrameFails(p) \/ FlushFails(p)
  BY <1>3, <1>7 DEF BuildFrameFails, WriteFrameFails, FlushFails
<1>8. CASE FlushDone(p)
  BY <1>1, <1>8 DEF FlushDone
<1>9. CASE Create(p) \/ OpenScan(p) \/ OpenCheck(p) \/ RepairScan(p)
  BY <1>9 DEF Create, OpenScan, OpenCheck, RepairScan
<1>10. CASE WriteInitial(p)
  BY <1>10 DEF WriteInitial
<1>11. CASE BeginAppend(p) \/ BeginFlush(p) \/ BuildFrame(p)
  BY <1>11 DEF BeginAppend, BeginFlush, BuildFrame
<1>12. CASE AppendLoop(p)
  BY <1>12 DEF AppendLoop
<1>13. CASE WriteFrame(p)
  BY <1>13 DEF WriteFrame
<1>14. CASE RepairTruncate(p) \/ RepairSync(p)
  BY <1>14 DEF RepairTruncate, RepairSync
<1> QED
  BY <1>4, <1>5, <1>6, <1>7, <1>8, <1>9, <1>10, <1>11, <1>12, <1>13, <1>14 DEF Caller, Step

\* A step of p changes the contents of no file but the one it has locked, or of
\* one it creates, which nobody has open.
LEMMA StepWritesOwnFile ==
    ASSUME TypeOK, HandlesHoldLocks, NEW p \in Procs, Caller(p) \/ Step(p) \/ Kill(p)
    PROVE  \/ data' = data
           \/ pc[p] \in Locked /\ \A i \in Inodes : i # fd[p] => data'[i] = data[i]
           \/ \E i \in Inodes : /\ \A q \in Procs : fd[q] # i
                                /\ \A j \in Inodes : j # i => data'[j] = data[j]
<1> USE DEF At
<1>1. CASE Create(p)
  <2>1. PICK i \in Inodes : /\ \A q \in Procs : fd[q] # i
                            /\ data' = [data EXCEPT ![i] = <<>>]
    BY <1>1 DEF Create
  <2>2. \A j \in Inodes : j # i => data'[j] = data[j]
    BY <2>1 DEF TypeOK
  <2> QED
    BY <2>1, <2>2
<1>2. CASE WriteInitial(p)
  BY <1>2 DEF WriteInitial, TypeOK, Locked
<1>3. CASE WriteFrame(p)
  <2>1. pc[p] \in Locked
    BY <1>3 DEF WriteFrame, Locked, Appending
  <2> QED
    BY <1>3, <2>1 DEF WriteFrame, TypeOK
<1>4. CASE RepairTruncate(p)
  <2>1. pc[p] \in Locked
    BY <1>4 DEF RepairTruncate, Locked, Repairing
  <2> QED
    BY <1>4, <2>1 DEF RepairTruncate, TypeOK
<1>5. CASE ~Create(p) /\ ~WriteInitial(p) /\ ~WriteFrame(p) /\ ~RepairTruncate(p)
  BY <1>5
     DEF Caller, Step, Open, RepairOpen, OpenHandle, CreateLock, OpenLock, RepairLock,
         AcquireLock, Cleanup, CreateLockFails, WriteInitialFails, Kill, Drop, ReleaseFails,
         OpenLockFails, OpenScanFails, OpenCheckFails, RepairLockFails, RepairScanFails,
         RepairTruncateFails, RepairSyncFails, RepairVerify, RepairVerifyFails, Return,
         BuildFrameFails, WriteFrameFails, FlushFails, FlushDone, OpenScan, OpenCheck,
         RepairScan, BeginAppend, BeginFlush, BuildFrame, AppendLoop, RepairSync
<1> QED
  BY <1>1, <1>2, <1>3, <1>4, <1>5

\* What a process sees under its lock, no step of another process changes.
LEMMA OthersUndisturbed ==
    ASSUME TypeOK, HandlesHoldLocks, NEW p \in Procs, Caller(p) \/ Step(p) \/ Kill(p),
           NEW q \in Procs, q # p, pc[q] \in Locked
    PROVE  data'[fd[q]] = data[fd[q]]
<1>1. fd[q] \in Inodes /\ lock[fd[q]] = q
  BY DEF TypeOK, HandlesHoldLocks, Locked, Appending, Repairing
<1>2. pc[p] \in Locked => fd[p] # fd[q]
  BY <1>1 DEF HandlesHoldLocks
<1> QED
  BY <1>1, <1>2, StepWritesOwnFile

-----------------------------------------------------------------------------
(* The first inductive invariant                                           *)

LockInv == TypeOK /\ HandlesHoldLocks /\ PlanIsCurrent

LEMMA ProcessPlans ==
    ASSUME LockInv, NEW p \in Procs, Caller(p) \/ Step(p) \/ Kill(p)
    PROVE  PlanIsCurrent'
<1> SUFFICES ASSUME NEW q \in Procs, pc'[q] \in {"open_check", "repair_truncate"}
             PROVE  plan'[q] = Walk(data'[fd'[q]])
  BY DEF PlanIsCurrent
<1> USE DEF LockInv
<1>1. CASE q # p
  <2>1. pc'[q] = pc[q] /\ fd'[q] = fd[q] /\ plan'[q] = plan[q]
    BY <1>1, StepIsLocal
  <2>2. pc[q] \in Locked
    BY <2>1 DEF Locked, Repairing
  <2>3. data'[fd[q]] = data[fd[q]]
    BY <1>1, <2>2, OthersUndisturbed
  <2> QED
    BY <2>1, <2>3 DEF PlanIsCurrent
<1>2. CASE q = p
  <2> USE DEF At, Goto, TypeOK
  <2>1. CASE OpenScan(p)
    BY <1>2, <2>1 DEF OpenScan
  <2>2. CASE RepairScan(p)
    BY <1>2, <2>2 DEF RepairScan
  <2>3. CASE ~OpenScan(p) /\ ~RepairScan(p)
    <3>1. ASSUME NEW label \in {"idle", "cleanup"}, CloseHandle(p, label)
          PROVE  FALSE
      BY <1>2, <3>1 DEF CloseHandle
    <3>2. ASSUME NEW how, Return(p, how)
          PROVE  FALSE
      BY <3>1, <3>2 DEF Return
    <3>3. ASSUME NEW label \in {"ready", "poisoned"}, ReturnError(p, label)
          PROVE  FALSE
      BY <1>2, <3>1, <3>3 DEF ReturnError
    <3>4. CASE Open(p) \/ RepairOpen(p) \/ CreateLock(p) \/ OpenLock(p) \/ RepairLock(p)
      BY <1>2, <3>4 DEF Open, RepairOpen, OpenHandle, CreateLock, OpenLock, RepairLock,
                        AcquireLock
    <3>5. CASE \/ CreateLockFails(p) \/ WriteInitialFails(p) \/ Kill(p) \/ Drop(p)
               \/ ReleaseFails(p)
      BY <3>1, <3>5 DEF CreateLockFails, WriteInitialFails, Kill, Drop, ReleaseFails
    <3>6. CASE \/ OpenLockFails(p) \/ OpenScanFails(p) \/ OpenCheckFails(p)
               \/ RepairLockFails(p) \/ RepairScanFails(p) \/ RepairTruncateFails(p)
               \/ RepairSyncFails(p) \/ RepairVerify(p) \/ RepairVerifyFails(p)
      BY <3>2, <3>6
         DEF OpenLockFails, OpenScanFails, OpenCheckFails, RepairLockFails, RepairScanFails,
             RepairTruncateFails, RepairSyncFails, RepairVerify, RepairVerifyFails
    <3>7. CASE BuildFrameFails(p) \/ WriteFrameFails(p) \/ FlushFails(p)
      BY <3>3, <3>7 DEF BuildFrameFails, WriteFrameFails, FlushFails
    <3>8. CASE FlushDone(p)
      BY <1>2, <3>1, <3>8 DEF FlushDone
    <3>9. CASE Create(p) \/ OpenCheck(p) \/ Cleanup(p)
      BY <1>2, <3>9 DEF Create, OpenCheck, Cleanup
    <3>10. CASE WriteInitial(p)
      BY <1>2, <3>10 DEF WriteInitial
    <3>11. CASE BeginAppend(p) \/ BeginFlush(p) \/ BuildFrame(p)
      BY <1>2, <3>11 DEF BeginAppend, BeginFlush, BuildFrame
    <3>12. CASE AppendLoop(p)
      BY <1>2, <3>12 DEF AppendLoop
    <3>13. CASE WriteFrame(p)
      BY <1>2, <3>13 DEF WriteFrame
    <3>14. CASE RepairTruncate(p) \/ RepairSync(p)
      BY <1>2, <3>14 DEF RepairTruncate, RepairSync
    <3> QED
      BY <2>3, <3>4, <3>5, <3>6, <3>7, <3>8, <3>9, <3>10, <3>11, <3>12, <3>13, <3>14
         DEF Caller, Step
  <2> QED
    BY <2>1, <2>2, <2>3
<1> QED
  BY <1>1, <1>2

LEMMA LockInvInit == Init => LockInv
<1> SUFFICES ASSUME Init PROVE LockInv
  OBVIOUS
<1>1. <<>> \in Seq(Run) /\ <<>> \in Seq(FrameSet)
  OBVIOUS
<1>2. "idle" \in Labels /\ "none" \in Replies
  BY LabelsType DEF Replies
<1>3. TypeOK
  BY <1>1, <1>2, NoWriterType, NoPlanType DEF Init, TypeOK
<1>4. "idle" \notin Locked
  BY DEF Locked, Appending, Repairing
<1>5. HandlesHoldLocks
  BY <1>4, NoneAssumption DEF Init, HandlesHoldLocks
<1>6. PlanIsCurrent
  BY DEF Init, PlanIsCurrent
<1> QED
  BY <1>3, <1>5, <1>6 DEF LockInv

LEMMA LockInvStep == LockInv /\ [Next]_vars => LockInv'
<1> SUFFICES ASSUME LockInv, [Next]_vars PROVE LockInv'
  OBVIOUS
<1> USE DEF LockInv
<1>1. ASSUME NEW p \in Procs, Caller(p) \/ Step(p) \/ Kill(p)
      PROVE  LockInv'
  <2>1. TypeOK'
    BY <1>1, CreateOpenType, WriterCallsType, RepairType, KillType DEF Caller, Step
  <2>2. HandlesHoldLocks'
    BY <1>1, ProcessLocks
  <2>3. PlanIsCurrent'
    BY <1>1, ProcessPlans
  <2> QED
    BY <2>1, <2>2, <2>3
<1>2. CASE PowerLoss
  <2>1. PlanIsCurrent'
    BY <1>2 DEF PowerLoss, PlanIsCurrent
  <2> QED
    BY <1>2, <2>1, PowerLossType, PowerLossLocks
<1>3. CASE UNCHANGED vars
  BY <1>3 DEF vars, TypeOK, HandlesHoldLocks, PlanIsCurrent
<1> QED
  BY <1>1, <1>2, <1>3 DEF Next, ProcessNext

LEMMA LockInvHolds == Spec => []LockInv
  BY LockInvInit, LockInvStep, PTL DEF Spec

\* Every variable keeps its type in every behaviour of sessions and repairs; the
\* truncation of repair_locked_file in particular stays within the file.
THEOREM TypeCorrect == Spec => []TypeOK
<1>1. LockInv => TypeOK
  BY DEF LockInv
<1> QED
  BY <1>1, LockInvHolds, PTL

\* Two Writers, or a Writer and a repair, are never both past the lock on one
\* file (acquire_writer_lock), for any number of processes and files.
THEOREM MutualExclusion == Spec => []OneWriter
<1>1. LockInv => OneWriter
  BY DEF LockInv, HandlesHoldLocks, OneWriter
<1> QED
  BY <1>1, LockInvHolds, PTL

-----------------------------------------------------------------------------
(* The structure of the files                                              *)

StructInv ==
    /\ LockInv
    /\ FilesWellFormed
    /\ \A p \in Procs : PointsKnowFile(p)
    /\ PathIsCreators

\* Who writes to a file, and who changes what the path names.
LEMMA WhoWrites ==
    ASSUME NEW p \in Procs, Caller(p) \/ Step(p) \/ Kill(p)
    PROVE  /\ data' = data \/ Create(p) \/ WriteInitial(p) \/ WriteFrame(p) \/ RepairTruncate(p)
           /\ path' = path \/ Create(p) \/ Cleanup(p)
  BY DEF Caller, Step, Open, RepairOpen, OpenHandle, CreateLock, OpenLock, RepairLock,
         AcquireLock, Cleanup, CreateLockFails, WriteInitialFails, Kill, Drop, ReleaseFails,
         OpenLockFails, OpenScanFails, OpenCheckFails, RepairLockFails, RepairScanFails,
         RepairTruncateFails, RepairSyncFails, RepairVerify, RepairVerifyFails, Return,
         BuildFrameFails, WriteFrameFails, FlushFails, FlushDone, OpenScan, OpenCheck,
         RepairScan, BeginAppend, BeginFlush, BuildFrame, AppendLoop, RepairSync,
         WriteInitial, WriteFrame, RepairTruncate

\* The file a process at one of these points has open.
LEMMA OpenFileType ==
    ASSUME TypeOK, HandlesHoldLocks, NEW p \in Procs, pc[p] \notin {"idle", "cleanup"}
    PROVE  fd[p] \in Inodes /\ data[fd[p]] \in Seq(Run)
  BY DEF TypeOK, HandlesHoldLocks

\* Before a frame is appended or cut off, the header is complete.
LEMMA WritersFindHeader ==
    ASSUME StructInv, NEW p \in Procs,
           pc[p] \in {"ready", "append", "publish", "write_frame", "flushed", "poisoned",
                      "open_check", "repair_truncate", "repair_sync", "repair_verify"}
    PROVE  HeaderComplete(data[fd[p]])
<1> DEFINE f == data[fd[p]]
<1>1. f \in Seq(Run) /\ fd[p] \in Inodes
  BY OpenFileType DEF StructInv, LockInv
<1>2. WellFormed(f)
  BY <1>1 DEF StructInv, FilesWellFormed
<1>3. PointsKnowFile(p)
  BY DEF StructInv
<1> HIDE DEF f
<1>4. Whole(f) => HeaderComplete(f)
  BY <1>1, <1>2, WholeFile
<1>5. HasSchemaFrame(f) => HeaderComplete(f)
  BY <1>1, <1>2, WellFormedWalk
<1> QED
  BY <1>3, <1>4, <1>5 DEF PointsKnowFile, ContinuesFile, Appendable, Repairable, f

\* Nobody else touches the path or its file while create is at work on it.
LEMMA CreatorUndisturbed ==
    ASSUME StructInv, NEW p \in Procs, Caller(p) \/ Step(p) \/ Kill(p),
           NEW q \in Procs, q # p, pc[q] \in Creating
    PROVE  path' = path /\ path \in Inodes /\ data'[path] = data[path]
<1>1. path # None /\ path \in Inodes /\ ~HeaderComplete(data[path]) /\ pc[p] \notin Creating
  BY DEF StructInv, PathIsCreators, LockInv, TypeOK
<1>2. ~Create(p) /\ ~Cleanup(p) /\ ~WriteInitial(p)
  BY <1>1 DEF Create, Cleanup, WriteInitial, At, Creating
<1>3. path' = path
  BY <1>2, WhoWrites
<1>4. ASSUME WriteFrame(p) \/ RepairTruncate(p)
      PROVE  data'[path] = data[path]
  <2>1. pc[p] \in {"write_frame", "repair_truncate"}
    BY <1>4 DEF WriteFrame, RepairTruncate, At
  <2>2. HeaderComplete(data[fd[p]])
    BY <2>1, WritersFindHeader
  <2>3. fd[p] # path
    BY <1>1, <2>2
  <2> QED
    BY <1>1, <1>4, <2>3 DEF WriteFrame, RepairTruncate, StructInv, LockInv, TypeOK
<1> QED
  BY <1>1, <1>2, <1>3, <1>4, WhoWrites

\* What a process knows of its file, a step of another process keeps true.
LEMMA OthersKnowFile ==
    ASSUME StructInv, NEW p \in Procs, Caller(p) \/ Step(p) \/ Kill(p),
           NEW q \in Procs, q # p
    PROVE  PointsKnowFile(q)'
<1>1. pc'[q] = pc[q] /\ fd'[q] = fd[q] /\ writer'[q] = writer[q] /\ plan'[q] = plan[q]
  BY StepIsLocal DEF StructInv, LockInv
<1>2. PointsKnowFile(q)
  BY DEF StructInv
<1>3. CASE pc[q] \in Locked
  <2>1. data'[fd[q]] = data[fd[q]]
    BY <1>3, OthersUndisturbed DEF StructInv, LockInv
  <2> QED
    BY <1>1, <1>2, <2>1 DEF PointsKnowFile
<1>4. CASE pc[q] = "create_lock"
  <2>1. fd[q] = path
    BY <1>4 DEF StructInv, PathIsCreators
  <2>2. data'[fd[q]] = data[fd[q]]
    BY <1>4, <2>1, CreatorUndisturbed DEF Creating
  <2> QED
    BY <1>1, <1>2, <2>2 DEF PointsKnowFile
<1>5. CASE pc[q] \notin Locked \cup {"create_lock"}
  BY <1>1, <1>2, <1>5 DEF PointsKnowFile, Locked, Appending, Repairing
<1> QED
  BY <1>3, <1>4, <1>5

\* A process without a handle and without a Writer knows nothing of a file.
LEMMA ClosedKnowsFile ==
    ASSUME TypeOK, NEW p \in Procs, NEW label \in {"idle", "cleanup"}, CloseHandle(p, label)
    PROVE  PointsKnowFile(p)'
<1>1. pc'[p] = label /\ writer'[p] = NoWriter
  BY DEF CloseHandle, Goto, TypeOK
<1> QED
  BY <1>1 DEF PointsKnowFile

\* The path and its creator, as long as the path stays and no header is completed.
LEMMA PathKept ==
    ASSUME StructInv, NEW p \in Procs, Caller(p) \/ Step(p) \/ Kill(p),
           path' = path,
           fd'[p] \in {fd[p], None, path},
           pc'[p] \in Creating => pc[p] \in Creating,
           pc'[p] \in {"create_lock", "write_initial"} =>
             fd'[p] = fd[p] /\ pc[p] \in {"create_lock", "write_initial"},
           \A i \in Inodes : HeaderComplete(data'[i]) => HeaderComplete(data[i])
    PROVE  PathIsCreators'
<1>1. \A q \in Procs : q # p => pc'[q] = pc[q] /\ fd'[q] = fd[q]
  BY StepIsLocal DEF StructInv, LockInv
<1>2. \A q \in Procs : pc'[q] \in Creating => pc[q] \in Creating
  BY <1>1
<1>3. \A q \in Procs : pc'[q] \in {"create_lock", "write_initial"} => fd'[q] = path
  BY <1>1 DEF StructInv, PathIsCreators
<1>4. path \in Inodes \cup {None} /\ \A q \in Procs : fd[q] \in Inodes \cup {None}
  BY DEF StructInv, LockInv, TypeOK
<1>5. \A q \in Procs : pc'[q] \in Creating => path # None /\ ~HeaderComplete(data'[path])
  BY <1>2, <1>4 DEF StructInv, PathIsCreators
<1>6. ASSUME NEW q \in Procs, fd'[q] # None, fd'[q] # path
      PROVE  ~HeaderComplete(data'[fd'[q]])
  <2>1. fd'[q] = fd[q]
    BY <1>1, <1>6
  <2>2. fd[q] \in Inodes /\ ~HeaderComplete(data[fd[q]])
    BY <1>4, <1>6, <2>1 DEF StructInv, PathIsCreators
  <2> QED
    BY <2>1, <2>2
<1> QED
  BY <1>2, <1>3, <1>5, <1>6 DEF StructInv, PathIsCreators

LEMMA EmptyWellFormed == WellFormed(<<>>) /\ ~HeaderComplete(<<>>)
  BY DEF WellFormed, HeaderComplete

LEMMA FilesKept ==
    ASSUME FilesWellFormed, data' = data,
           \A i \in Inodes : undone'[i] \in {undone[i], <<>>}
    PROVE  FilesWellFormed'
  BY EmptyWellFormed DEF FilesWellFormed

\* A call that ends by closing its handle.
LEMMA ClosingStep ==
    ASSUME StructInv, NEW p \in Procs, Caller(p) \/ Step(p) \/ Kill(p),
           NEW label \in {"idle", "cleanup"}, CloseHandle(p, label),
           UNCHANGED <<path, data>>,
           label = "cleanup" => pc[p] \in Creating,
           \A i \in Inodes : undone'[i] \in {undone[i], <<>>}
    PROVE  FilesWellFormed' /\ PointsKnowFile(p)' /\ PathIsCreators'
<1>1. fd'[p] = None /\ pc'[p] = label
  BY DEF CloseHandle, Goto, StructInv, LockInv, TypeOK
<1>2. FilesWellFormed'
  BY FilesKept DEF StructInv
<1>3. PointsKnowFile(p)'
  BY ClosedKnowsFile DEF StructInv, LockInv
<1>4. pc'[p] \in Creating => pc[p] \in Creating
  BY <1>1 DEF Creating
<1>5. pc'[p] \notin {"create_lock", "write_initial"}
  BY <1>1
<1> QED
  BY <1>1, <1>2, <1>3, <1>4, <1>5, PathKept

\* A step that leaves every file and every handle as it is.
LEMMA QuietStep ==
    ASSUME StructInv, NEW p \in Procs, Caller(p) \/ Step(p) \/ Kill(p),
           UNCHANGED <<path, data, fd>>, pc'[p] \notin Creating,
           \A i \in Inodes : undone'[i] \in {undone[i], <<>>}
    PROVE  FilesWellFormed' /\ PathIsCreators'
<1>1. FilesWellFormed'
  BY FilesKept DEF StructInv
<1>2. fd'[p] = fd[p] /\ pc'[p] \notin {"create_lock", "write_initial"}
  BY DEF Creating
<1> QED
  BY <1>1, <1>2, PathKept

\* Steps of create, open and repair that write nothing.
LEMMA HandleSteps ==
    ASSUME StructInv, NEW p \in Procs,
           \/ CreateLock(p) \/ CreateLockFails(p) \/ WriteInitialFails(p)
           \/ Open(p) \/ OpenLock(p) \/ OpenLockFails(p) \/ OpenScan(p) \/ OpenScanFails(p)
           \/ OpenCheck(p) \/ OpenCheckFails(p)
           \/ RepairOpen(p) \/ RepairLock(p) \/ RepairLockFails(p)
           \/ RepairScan(p) \/ RepairScanFails(p) \/ RepairTruncateFails(p)
           \/ RepairSync(p) \/ RepairSyncFails(p) \/ RepairVerify(p) \/ RepairVerifyFails(p)
    PROVE  FilesWellFormed' /\ PointsKnowFile(p)' /\ PathIsCreators'
<1> USE DEF At, Goto
<1>n. Caller(p) \/ Step(p) \/ Kill(p)
  BY DEF Caller, Step
<1>t. TypeOK /\ HandlesHoldLocks /\ PlanIsCurrent
  BY DEF StructInv, LockInv
<1>k. PointsKnowFile(p)
  BY DEF StructInv
<1>f. pc[p] \notin {"idle", "cleanup"} =>
        /\ fd[p] \in Inodes /\ data[fd[p]] \in Seq(Run) /\ WellFormed(data[fd[p]])
  BY <1>t, OpenFileType DEF StructInv, FilesWellFormed
<1>1. CASE CreateLockFails(p) \/ WriteInitialFails(p)
  <2>1. CloseHandle(p, "cleanup") /\ UNCHANGED <<path, data, undone>> /\ pc[p] \in Creating
    BY <1>1 DEF CreateLockFails, WriteInitialFails, Creating
  <2> QED
    BY <1>n, <2>1, ClosingStep
<1>2. ASSUME NEW how, Return(p, how)
      PROVE  FilesWellFormed' /\ PointsKnowFile(p)' /\ PathIsCreators'
  <2>1. CloseHandle(p, "idle") /\ UNCHANGED <<path, data, undone>>
    BY <1>2 DEF Return
  <2> QED
    BY <1>n, <2>1, ClosingStep
<1>3. CASE \/ OpenLockFails(p) \/ OpenScanFails(p) \/ OpenCheckFails(p)
           \/ RepairLockFails(p) \/ RepairScanFails(p) \/ RepairTruncateFails(p)
           \/ RepairSyncFails(p) \/ RepairVerify(p) \/ RepairVerifyFails(p)
  BY <1>2, <1>3
     DEF OpenLockFails, OpenScanFails, OpenCheckFails, RepairLockFails, RepairScanFails,
         RepairTruncateFails, RepairSyncFails, RepairVerify, RepairVerifyFails
<1>4. CASE Open(p) \/ RepairOpen(p)
  <2>1. PICK label \in {"open_lock", "repair_lock"} :
          /\ pc[p] = "idle" /\ pc' = [pc EXCEPT ![p] = label]
          /\ fd' = [fd EXCEPT ![p] = path]
          /\ UNCHANGED <<path, data, undone, writer>>
    BY <1>4 DEF Open, RepairOpen, OpenHandle
  <2>2. pc'[p] = label /\ fd'[p] = path
    BY <1>t, <2>1 DEF TypeOK
  <2>3. FilesWellFormed'
    BY <2>1, FilesKept DEF StructInv
  <2>4. PointsKnowFile(p)'
    BY <1>k, <2>1, <2>2 DEF PointsKnowFile, Appending
  <2> QED
    BY <1>n, <2>1, <2>2, <2>3, <2>4, PathKept DEF Creating
<1>5. CASE CreateLock(p)
  <2>1. /\ pc[p] = "create_lock" /\ pc' = [pc EXCEPT ![p] = "write_initial"]
        /\ UNCHANGED <<path, data, undone, fd, writer>>
    BY <1>5 DEF CreateLock, AcquireLock
  <2>2. pc'[p] = "write_initial"
    BY <1>t, <2>1 DEF TypeOK
  <2>3. FilesWellFormed'
    BY <2>1, FilesKept DEF StructInv
  <2>4. PointsKnowFile(p)'
    BY <1>k, <2>1, <2>2 DEF PointsKnowFile, Appending
  <2> QED
    BY <1>n, <2>1, <2>2, <2>3, <2>4, PathKept DEF Creating
<1>6. CASE OpenLock(p) \/ RepairLock(p)
  <2>1. PICK label \in {"open_scan", "repair_scan"} :
          /\ pc[p] \in {"open_lock", "repair_lock"} /\ pc' = [pc EXCEPT ![p] = label]
          /\ UNCHANGED <<path, data, undone, fd, writer>>
    BY <1>6 DEF OpenLock, RepairLock, AcquireLock
  <2>2. pc'[p] = label
    BY <1>t, <2>1 DEF TypeOK
  <2>3. PointsKnowFile(p)'
    BY <1>k, <2>1, <2>2 DEF PointsKnowFile, Appending
  <2> QED
    BY <1>n, <2>1, <2>2, <2>3, QuietStep DEF Creating
<1>7. CASE OpenScan(p)
  <2>1. /\ pc[p] = "open_scan" /\ pc'[p] = "open_check" /\ Appendable(data[fd[p]])
        /\ UNCHANGED <<path, data, undone, fd, writer>>
    BY <1>t, <1>7 DEF OpenScan, TypeOK
  <2>2. PointsKnowFile(p)'
    BY <1>k, <2>1 DEF PointsKnowFile, Appending
  <2> QED
    BY <1>n, <2>1, <2>2, QuietStep DEF Creating
<1>8. CASE OpenCheck(p)
  <2> DEFINE f == data[fd[p]]
             w == [NoWriter EXCEPT !.file_length = plan[p].file_size,
                                   !.next_sequence = plan[p].next_sequence,
                                   !.next_row_id = plan[p].next_row_id]
  <2>1. /\ pc[p] = "open_check" /\ pc'[p] = "ready"
        /\ writer'[p] = w
        /\ UNCHANGED <<path, data, undone, fd>>
    BY <1>t, <1>8 DEF OpenCheck, TypeOK
  <2>2. plan[p] = Walk(f)
    BY <1>t, <2>1 DEF PlanIsCurrent
  <2>3. f \in Seq(Run) /\ WellFormed(f) /\ Appendable(f)
    BY <1>f, <1>k, <2>1 DEF PointsKnowFile
  <2>4. Whole(f)
    BY <2>3, WellFormedWalk, WholeFile DEF Appendable
  <2>5. /\ w.written = 0 /\ w.file_length = Walk(f).file_size
        /\ w.next_sequence = Walk(f).next_sequence /\ w.next_row_id = Walk(f).next_row_id
    BY <2>2 DEF NoWriter
  <2>6. ContinuesFile(w, f)
    BY <2>3, <2>4, <2>5, WholeFile, WalkFields DEF ContinuesFile
  <2> HIDE DEF w
  <2>7. PointsKnowFile(p)'
    BY <2>1, <2>6 DEF PointsKnowFile, Appending
  <2> QED
    BY <1>n, <2>1, <2>7, QuietStep DEF Creating
<1>9. CASE RepairScan(p)
  <2>1. /\ pc[p] = "repair_scan" /\ pc'[p] = "repair_truncate" /\ Repairable(data[fd[p]])
        /\ UNCHANGED <<path, data, undone, fd, writer>>
    BY <1>t, <1>9 DEF RepairScan, TypeOK
  <2>2. PointsKnowFile(p)'
    BY <1>k, <2>1 DEF PointsKnowFile, Appending
  <2> QED
    BY <1>n, <2>1, <2>2, QuietStep DEF Creating
<1>10. CASE RepairSync(p)
  <2>1. /\ pc[p] = "repair_sync" /\ pc'[p] = "repair_verify"
        /\ undone' = [undone EXCEPT ![fd[p]] = <<>>]
        /\ UNCHANGED <<path, data, fd, writer, plan>>
    BY <1>t, <1>10 DEF RepairSync, TypeOK
  <2>2. \A i \in Inodes : undone'[i] \in {undone[i], <<>>}
    BY <1>t, <2>1 DEF TypeOK
  <2>3. PointsKnowFile(p)'
    BY <1>k, <2>1 DEF PointsKnowFile, Appending
  <2> QED
    BY <1>n, <2>1, <2>2, <2>3, QuietStep DEF Creating
<1> QED
  BY <1>1, <1>3, <1>4, <1>5, <1>6, <1>7, <1>8, <1>9, <1>10

\* create_new and the removal of a path whose create failed.
LEMMA PathSteps ==
    ASSUME StructInv, NEW p \in Procs, Create(p) \/ Cleanup(p)
    PROVE  FilesWellFormed' /\ PointsKnowFile(p)' /\ PathIsCreators'
<1> USE DEF At, Goto
<1>n. Caller(p) \/ Step(p) \/ Kill(p)
  BY DEF Caller, Step
<1>t. TypeOK /\ HandlesHoldLocks
  BY DEF StructInv, LockInv
<1>k. PointsKnowFile(p)
  BY DEF StructInv
<1>o. \A q \in Procs : q # p => pc'[q] = pc[q] /\ fd'[q] = fd[q]
  BY <1>n, <1>t, StepIsLocal
<1>1. CASE Create(p)
  <2>1. PICK i \in Inodes :
          /\ \A q \in Procs : fd[q] # i
          /\ path' = i
          /\ data' = [data EXCEPT ![i] = <<>>]
          /\ undone' = [undone EXCEPT ![i] = <<>>]
          /\ fd' = [fd EXCEPT ![p] = i]
    BY <1>1 DEF Create
  <2>2. /\ pc[p] = "idle" /\ pc'[p] = "create_lock" /\ path = None
        /\ writer' = writer
    BY <1>1, <1>t DEF Create, TypeOK
  <2>3. /\ data'[i] = <<>> /\ fd'[p] = i
        /\ \A j \in Inodes : j # i => data'[j] = data[j]
        /\ \A j \in Inodes : undone'[j] \in {undone[j], <<>>}
    BY <1>t, <2>1 DEF TypeOK
  <2>4. FilesWellFormed'
    BY <2>3, EmptyWellFormed DEF StructInv, FilesWellFormed
  <2>5. PointsKnowFile(p)'
    BY <1>k, <2>2, <2>3 DEF PointsKnowFile, Appending
  <2>6. \A q \in Procs : pc[q] \notin Creating
    BY <2>2 DEF StructInv, PathIsCreators
  <2>7. \A q \in Procs : pc'[q] \in Creating => q = p
    BY <1>o, <2>6
  <2>8. ASSUME NEW q \in Procs, fd'[q] # None, fd'[q] # i
        PROVE  ~HeaderComplete(data'[fd'[q]])
    <3>1. fd'[q] = fd[q] /\ fd[q] # None
      BY <1>o, <2>3, <2>8
    <3>2. fd[q] \in Inodes /\ ~HeaderComplete(data[fd[q]])
      BY <1>t, <2>2, <3>1 DEF TypeOK, StructInv, PathIsCreators
    <3> QED
      BY <2>3, <2>8, <3>1, <3>2
  <2>9. i # None
    BY NoneAssumption
  <2>10. PathIsCreators'
    BY <2>1, <2>3, <2>7, <2>8, <2>9, EmptyWellFormed DEF PathIsCreators, Creating
  <2> QED
    BY <2>4, <2>5, <2>10
<1>2. CASE Cleanup(p)
  <2>1. /\ pc[p] = "cleanup" /\ pc'[p] = "idle" /\ path' = None
        /\ UNCHANGED <<data, undone, fd, writer>>
    BY <1>2, <1>t DEF Cleanup, TypeOK
  <2>2. FilesWellFormed'
    BY <2>1, FilesKept DEF StructInv
  <2>3. PointsKnowFile(p)'
    BY <1>k, <2>1 DEF PointsKnowFile, Appending
  <2>4. \A q \in Procs : pc'[q] \notin Creating
    <3>1. pc[p] \in Creating
      BY <2>1 DEF Creating
    <3> QED
      BY <1>o, <2>1, <3>1 DEF StructInv, PathIsCreators, Creating
  <2>5. ~HeaderComplete(data[path])
    BY <2>1 DEF StructInv, PathIsCreators, Creating
  <2>6. \A q \in Procs : fd'[q] # None => ~HeaderComplete(data'[fd'[q]])
    BY <2>1, <2>5 DEF StructInv, PathIsCreators
  <2>7. PathIsCreators'
    BY <2>4, <2>6 DEF PathIsCreators, Creating
  <2> QED
    BY <2>2, <2>3, <2>7
<1> QED
  BY <1>1, <1>2

\* A Writer that continues a file still does when only its buffer changes.
LEMMA ContinuesKept ==
    ASSUME NEW v, NEW w, NEW f, ContinuesFile(v, f), w.written = v.written,
           w.next_sequence = v.next_sequence, w.file_length = v.file_length,
           w.next_row_id = v.next_row_id
    PROVE  ContinuesFile(w, f)
  BY DEF ContinuesFile

\* The calls of a Writer, but for the writing of a frame.
LEMMA WriterSteps ==
    ASSUME StructInv, NEW p \in Procs,
           \/ BeginAppend(p) \/ BeginFlush(p) \/ Drop(p) \/ Kill(p)
           \/ AppendLoop(p) \/ BuildFrame(p) \/ BuildFrameFails(p)
           \/ WriteFrameFails(p) \/ FlushDone(p) \/ ReleaseFails(p) \/ FlushFails(p)
    PROVE  FilesWellFormed' /\ PointsKnowFile(p)' /\ PathIsCreators'
<1> USE DEF At, Goto
<1>n. Caller(p) \/ Step(p) \/ Kill(p)
  BY DEF Caller, Step
<1>t. TypeOK /\ HandlesHoldLocks
  BY DEF StructInv, LockInv
<1>k. PointsKnowFile(p)
  BY DEF StructInv
<1>w. writer[p] \in Writers /\ writer \in [Procs -> Writers]
  BY <1>t DEF TypeOK
<1>0. PICK v \in Writers : v = writer[p]
  BY <1>w
<1> DEFINE f == data[fd[p]]
<1>c. ASSUME pc[p] \in {"ready", "append", "publish", "flushed"}
      PROVE  ContinuesFile(v, f) /\ HeaderComplete(f)
  BY <1>c, <1>k, <1>0, WritersFindHeader DEF PointsKnowFile
\* A step from one point of a live Writer to another.
<1>q. ASSUME NEW label \in Appending \ {"write_frame"}, NEW w \in Writers,
             pc'[p] = label, writer'[p] = w,
             UNCHANGED <<path, data, fd>>,
             \A i \in Inodes : undone'[i] \in {undone[i], <<>>},
             label # "poisoned" => ContinuesFile(w, f),
             label = "poisoned" => HeaderComplete(f),
             label = "publish" => w.buffered > 0
      PROVE  FilesWellFormed' /\ PointsKnowFile(p)' /\ PathIsCreators'
  <2>1. PointsKnowFile(p)'
    BY <1>q DEF PointsKnowFile, Appending
  <2>2. pc'[p] \notin Creating
    BY <1>q DEF Creating, Appending
  <2> QED
    BY <1>n, <1>q, <2>1, <2>2, QuietStep
<1>1. CASE Drop(p) \/ Kill(p)
  <2>1. CloseHandle(p, "idle") /\ UNCHANGED <<path, data, undone>>
    BY <1>1 DEF Drop, Kill
  <2> QED
    BY <1>n, <2>1, ClosingStep
<1>e. ASSUME NEW label \in {"ready", "poisoned"}, ReturnError(p, label),
             UNCHANGED <<path, data, undone>>,
             label = "ready" => ContinuesFile(v, f), HeaderComplete(f)
      PROVE  FilesWellFormed' /\ PointsKnowFile(p)' /\ PathIsCreators'
  <2>1. CASE writer[p].call = "finish"
    <3>1. CloseHandle(p, "idle")
      BY <1>e, <2>1 DEF ReturnError
    <3> QED
      BY <1>n, <1>e, <3>1, ClosingStep
  <2>2. CASE writer[p].call # "finish"
    <3> DEFINE w == [v EXCEPT !.remaining = 0, !.written = 0, !.body = NoBody, !.call = "none"]
    <3>1. /\ writer'[p] = w /\ pc'[p] = label /\ fd' = fd
      BY <1>e, <1>t, <1>w, <1>0, <2>2 DEF ReturnError, TypeOK
    <3>2. 0 \in 0..MaxBatch /\ "none" \in Calls
      BY TargetsAssumption DEF Calls
    <3>3. w \in Writers
      BY <3>2 DEF Writers
    <3>4. /\ w.written = 0 /\ w.next_sequence = v.next_sequence
          /\ w.file_length = v.file_length /\ w.next_row_id = v.next_row_id
      BY DEF Writers
    <3>5. label = "ready" => v.written = 0
      BY <1>e DEF ContinuesFile
    <3> HIDE DEF w
    <3>6. label = "ready" => ContinuesFile(w, f)
      BY <1>e, <3>4, <3>5, ContinuesKept
    <3> QED
      BY <1>e, <1>q, <3>1, <3>3, <3>6 DEF Appending
  <2> QED
    BY <2>1, <2>2
<1>2. CASE BuildFrameFails(p)
  BY <1>2, <1>c, <1>e DEF BuildFrameFails
<1>3. CASE WriteFrameFails(p)
  <2>1. HeaderComplete(f)
    BY <1>3, <1>k DEF WriteFrameFails, PointsKnowFile
  <2> QED
    BY <1>3, <1>e, <2>1 DEF WriteFrameFails
<1>4. CASE FlushFails(p)
  BY <1>4, <1>c, <1>e DEF FlushFails
<1>5. CASE ReleaseFails(p)
  <2>1. CloseHandle(p, "idle") /\ UNCHANGED <<path, data>>
    BY <1>5 DEF ReleaseFails
  <2>2. \A i \in Inodes : undone'[i] \in {undone[i], <<>>}
    BY <1>5, <1>t DEF ReleaseFails, TypeOK
  <2> QED
    BY <1>n, <2>1, <2>2, ClosingStep
<1>6. CASE FlushDone(p)
  <2>1. \A i \in Inodes : undone'[i] \in {undone[i], <<>>}
    BY <1>6, <1>t DEF FlushDone, TypeOK
  <2>2. CASE writer[p].call = "finish"
    <3>1. CloseHandle(p, "idle") /\ UNCHANGED <<path, data>>
      BY <1>6, <2>2 DEF FlushDone
    <3> QED
      BY <1>n, <2>1, <3>1, ClosingStep
  <2>3. CASE writer[p].call # "finish"
    <3> DEFINE w == [v EXCEPT !.call = "none"]
    <3>1. /\ writer'[p] = w /\ pc'[p] = "ready" /\ UNCHANGED <<path, data, fd>>
      BY <1>6, <1>t, <1>w, <1>0, <2>3 DEF FlushDone, TypeOK
    <3>2. w \in Writers
      BY DEF Writers, Calls
    <3>3. /\ w.written = v.written /\ w.next_sequence = v.next_sequence
          /\ w.file_length = v.file_length /\ w.next_row_id = v.next_row_id
      BY DEF Writers
    <3>4. ContinuesFile(v, f)
      BY <1>6, <1>c DEF FlushDone
    <3> HIDE DEF w
    <3>5. ContinuesFile(w, f)
      BY <3>3, <3>4, ContinuesKept
    <3> QED
      BY <1>q, <2>1, <3>1, <3>2, <3>5 DEF Appending
  <2> QED
    BY <2>2, <2>3
<1>7. CASE BeginAppend(p)
  <2>1. PICK rows \in 1..MaxBatch :
          writer'[p] = [v EXCEPT !.remaining = rows, !.call = "append"]
    BY <1>7, <1>w, <1>0 DEF BeginAppend
  <2> DEFINE w == [v EXCEPT !.remaining = rows, !.call = "append"]
  <2>2. /\ pc'[p] = "append" /\ UNCHANGED <<path, data, fd, undone>>
    BY <1>7, <1>t DEF BeginAppend, TypeOK
  <2>3. w \in Writers
    <3>1. rows \in 0..MaxBatch /\ "append" \in Calls
      BY TargetsAssumption DEF Calls
    <3> QED
      BY <3>1 DEF Writers
  <2>4. /\ w.written = v.written /\ w.next_sequence = v.next_sequence
        /\ w.file_length = v.file_length /\ w.next_row_id = v.next_row_id
    BY DEF Writers
  <2>5. ContinuesFile(v, f)
    BY <1>7, <1>c DEF BeginAppend
  <2> HIDE DEF w
  <2>6. ContinuesFile(w, f)
    BY <2>4, <2>5, ContinuesKept
  <2> QED
    BY <1>q, <2>1, <2>2, <2>3, <2>6 DEF Appending, w
<1>8. CASE BeginFlush(p)
  <2>1. PICK call \in {"flush", "sync", "finish"} : writer'[p] = [v EXCEPT !.call = call]
    BY <1>8, <1>w, <1>0 DEF BeginFlush
  <2> DEFINE w == [v EXCEPT !.call = call]
             label == IF v.buffered = 0 THEN "flushed" ELSE "publish"
  <2>2. pc'[p] = label /\ UNCHANGED <<path, data, fd, undone>>
    BY <1>8, <1>t, <1>0 DEF BeginFlush, TypeOK
  <2>3. w \in Writers
    BY DEF Writers, Calls
  <2>4. /\ w.written = v.written /\ w.next_sequence = v.next_sequence
        /\ w.file_length = v.file_length /\ w.next_row_id = v.next_row_id
        /\ w.buffered = v.buffered /\ v.buffered \in 0..RowTarget
    BY DEF Writers
  <2>5. ContinuesFile(v, f)
    BY <1>8, <1>c DEF BeginFlush
  <2>6. label \in Appending \ {"write_frame"} /\ label # "poisoned"
    BY DEF Appending
  <2>7. label = "publish" => w.buffered > 0
    BY <2>4, TargetsAssumption
  <2> HIDE DEF w, label
  <2>8. ContinuesFile(w, f)
    BY <2>4, <2>5, ContinuesKept
  <2> QED
    BY <1>q, <2>1, <2>2, <2>3, <2>6, <2>7, <2>8 DEF w
<1>9. CASE AppendLoop(p)
  <2> DEFINE take == fitting_prefix(v)
             w == IF v.remaining = 0
                  THEN [v EXCEPT !.call = "none"]
                  ELSE [v EXCEPT !.buffered = v.buffered + take,
                                 !.remaining = v.remaining - take]
             label == IF v.remaining = 0 THEN "ready"
                      ELSE IF v.buffered + take >= RowTarget THEN "publish" ELSE "append"
  <2>1. writer'[p] = w /\ pc'[p] = label /\ UNCHANGED <<path, data, fd, undone>>
    BY <1>9, <1>t, <1>w, <1>0 DEF AppendLoop, TypeOK
  <2>2. v.buffered \in 0..RowTarget /\ v.remaining \in 0..MaxBatch
    BY DEF Writers
  <2>3. v.buffered + take \in 0..RowTarget /\ v.remaining - take \in 0..MaxBatch
    BY <2>2, TargetsAssumption DEF fitting_prefix
  <2>4. [v EXCEPT !.call = "none"] \in Writers
    BY DEF Writers, Calls
  <2>5. [v EXCEPT !.buffered = v.buffered + take, !.remaining = v.remaining - take] \in Writers
    BY <2>3 DEF Writers
  <2>6. w \in Writers
    BY <2>4, <2>5
  <2>7. /\ w.written = v.written /\ w.next_sequence = v.next_sequence
        /\ w.file_length = v.file_length /\ w.next_row_id = v.next_row_id
        /\ v.remaining # 0 => w.buffered = v.buffered + take
    BY DEF Writers
  <2>8. ContinuesFile(v, f)
    BY <1>9, <1>c DEF AppendLoop
  <2>9. label \in Appending \ {"write_frame"} /\ label # "poisoned"
    BY DEF Appending
  <2>10. label = "publish" => w.buffered > 0
    BY <2>3, <2>7, TargetsAssumption
  <2> HIDE DEF w, label
  <2>11. ContinuesFile(w, f)
    BY <2>7, <2>8, ContinuesKept
  <2> QED
    BY <1>q, <2>1, <2>6, <2>9, <2>10, <2>11
<1>10. CASE BuildFrame(p)
  <2>1. PICK body \in Bodies : writer'[p] = [v EXCEPT !.body = body]
    BY <1>10, <1>w, <1>0 DEF BuildFrame
  <2> DEFINE w == [v EXCEPT !.body = body]
  <2>2. pc'[p] = "write_frame" /\ UNCHANGED <<path, data, fd, undone>>
    BY <1>10, <1>t DEF BuildFrame, TypeOK
  <2>3. /\ w.written = v.written /\ w.next_sequence = v.next_sequence
        /\ w.file_length = v.file_length /\ w.next_row_id = v.next_row_id
        /\ w.buffered = v.buffered
    BY DEF Writers
  <2>4. ContinuesFile(v, f) /\ HeaderComplete(f) /\ v.buffered > 0
    BY <1>10, <1>c, <1>k, <1>0 DEF BuildFrame, PointsKnowFile
  <2> HIDE DEF w
  <2>5. ContinuesFile(w, f)
    BY <2>3, <2>4, ContinuesKept
  <2>6. writer'[p] = w
    BY <2>1 DEF w
  <2>7. PointsKnowFile(p)'
    BY <2>2, <2>3, <2>4, <2>5, <2>6 DEF PointsKnowFile, Appending
  <2> QED
    BY <1>n, <2>2, <2>7, QuietStep DEF Creating
<1> QED
  BY <1>1, <1>2, <1>3, <1>4, <1>5, <1>6, <1>7, <1>8, <1>9, <1>10

-----------------------------------------------------------------------------
(* The steps that change a file                                            *)

\* The contents of one file change; it and the rest stay well formed.
LEMMA OneFileWritten ==
    ASSUME StructInv, NEW i \in Inodes, NEW g, WellFormed(g), data' = [data EXCEPT ![i] = g],
           \A j \in Inodes : WellFormed(undone'[j])
    PROVE  FilesWellFormed' /\ data'[i] = g /\ \A j \in Inodes : j # i => data'[j] = data[j]
<1>1. data'[i] = g /\ \A j \in Inodes : j # i => data'[j] = data[j]
  BY DEF StructInv, LockInv, TypeOK
<1> QED
  BY <1>1 DEF StructInv, FilesWellFormed

LEMMA WriteInitialStep ==
    ASSUME StructInv, NEW p \in Procs, WriteInitial(p)
    PROVE  FilesWellFormed' /\ PointsKnowFile(p)' /\ PathIsCreators'
<1> USE DEF At, Goto
<1> DEFINE f == data[fd[p]]
           g == AppendUnit(f, SchemaFrame, writer[p].written)
<1>n. Caller(p) \/ Step(p) \/ Kill(p)
  BY DEF Caller, Step
<1>t. TypeOK /\ HandlesHoldLocks
  BY DEF StructInv, LockInv
<1>k. PointsKnowFile(p) /\ pc[p] = "write_initial"
  BY DEF StructInv, WriteInitial
<1>f. fd[p] \in Inodes /\ f \in Seq(Run) /\ WellFormed(f)
  BY <1>t, <1>k, OpenFileType DEF StructInv, FilesWellFormed
<1>s. /\ SchemaFrame \in FrameSet /\ TotalLength(SchemaFrame) = 2
      /\ SchemaFrame.sequence = 0
  BY SchemaFrameType DEF SchemaFrame, TotalLength, SCHEMA_FRAME_SEQUENCE
<1>u. \A j \in Inodes : undone'[j] = undone[j] /\ WellFormed(undone'[j])
  BY DEF WriteInitial, StructInv, FilesWellFormed
<1>d. data' = [data EXCEPT ![fd[p]] = g] /\ UNCHANGED <<path, fd>>
  BY DEF WriteInitial
<1>p. fd[p] = path
  BY <1>k DEF StructInv, PathIsCreators
<1>1. CASE writer[p] = NoWriter /\ f = <<>>
  <2>1. writer[p].written = 0
    BY <1>1 DEF NoWriter
  <2>2. /\ g \in Seq(Run) /\ WellFormed(g) /\ Len(g) = 1
        /\ FrameOf(g[1]) = SchemaFrame /\ g[1].units = 1
    <3>1. SchemaFrame.sequence = Len(f) /\ Len(f) = 0
      BY <1>1, <1>s
    <3> HIDE DEF f
    <3>2. g = AppendUnit(f, SchemaFrame, 0)
      BY <2>1
    <3>3. /\ f # <<>> => SchemaFrame.row_count > 0
          /\ f # <<>> => SchemaFrame.base_row_id = ExpectedBase(f, Len(f) + 1)
      BY <1>1
    <3> HIDE DEF g
    <3>4. /\ g \in Seq(Run) /\ WellFormed(g) /\ Len(g) = Len(f) + 1
          /\ FrameOf(g[Len(f) + 1]) = SchemaFrame /\ g[Len(f) + 1].units = 1
      BY <1>1, <1>f, <1>s, <3>1, <3>2, <3>3, NewFrame
    <3> QED
      BY <3>1, <3>4
  <2> HIDE DEF g
  <2>3. 0 + 1 # 2
    OBVIOUS
  <2>4. /\ writer'[p] = [NoWriter EXCEPT !.written = 1]
        /\ pc'[p] = "write_initial"
    BY <1>1, <1>k, <1>s, <1>t, <2>1, <2>3 DEF WriteInitial, TypeOK
  <2>5. FilesWellFormed' /\ data'[fd[p]] = g /\ \A j \in Inodes : j # fd[p] => data'[j] = data[j]
    BY <1>d, <1>f, <1>u, <2>2, OneFileWritten
  <2>6. PointsKnowFile(p)'
    BY <1>d, <2>2, <2>4, <2>5 DEF PointsKnowFile, Appending
  <2>7. ~HeaderComplete(g)
    <3>1. 1 \in 1..Len(g) /\ g[1] \in Run
      <4>1. g \in Seq(Run) /\ Len(g) = 1
        BY <2>2
      <4>2. 1 \in 1..Len(g)
        BY <4>1
      <4> QED
        BY ONLY <4>1, <4>2, RunsOfFile
    <3>2. TotalLength(FrameOf(g[1])) = TotalLength(g[1])
      BY <3>1, RunType
    <3>3. TotalLength(g[1]) = 2
      BY <1>s, <2>2, <3>2
    <3> QED
      BY <2>2, <3>1, <3>3 DEF HeaderComplete
  <2>8. \A j \in Inodes : HeaderComplete(data'[j]) => HeaderComplete(data[j])
    BY <2>5, <2>7
  <2>9. PathIsCreators'
    BY <1>d, <1>k, <1>n, <2>4, <2>8, PathKept DEF Creating
  <2> QED
    BY <2>5, <2>6, <2>9
<1>2. CASE /\ writer[p] = [NoWriter EXCEPT !.written = 1]
           /\ Len(f) = 1 /\ FrameOf(f[1]) = SchemaFrame /\ f[1].units = 1
  <2>1. writer[p].written = 1
    BY <1>2 DEF NoWriter
  <2>2. f # <<>>
    BY <1>2
  <2>3. /\ g \in Seq(Run) /\ WellFormed(g) /\ Len(g) = 1
        /\ FrameOf(g[1]) = SchemaFrame /\ g[1].units = 2
        /\ FileSize(g) = FileSize(f) + 1
    <3>1. /\ g \in Seq(Run) /\ WellFormed(g) /\ Len(g) = Len(f)
          /\ FrameOf(g[Len(f)]) = SchemaFrame /\ g[Len(f)].units = 1 + 1
          /\ FileSize(g) = FileSize(f) + 1
      BY <1>2, <1>f, <1>s, <2>1, <2>2, MoreOfFrame
    <3> QED
      BY <1>2, <3>1
  <2>4. FileSize(f) = 1
    <3>1. WellFormedAt(f, 1)
      BY <1>2, <1>f DEF WellFormed
    <3> QED
      BY <1>2, <2>2, <3>1 DEF WellFormedAt, FileSize
  <2> HIDE DEF g
  <2>5. /\ writer'[p] = [NoWriter EXCEPT !.file_length = 2]
        /\ pc'[p] = "ready"
    BY <1>k, <1>s, <1>t, <2>1 DEF WriteInitial, TypeOK
  <2>6. FilesWellFormed' /\ data'[fd[p]] = g /\ \A j \in Inodes : j # fd[p] => data'[j] = data[j]
    BY <1>d, <1>f, <1>u, <2>3, OneFileWritten
  <2>7. ContinuesFile([NoWriter EXCEPT !.file_length = 2], g)
    <3>0. g # <<>> /\ g[1] \in Run
      <4>1. Len(g) # 0
        BY <2>3
      <4>2. g # <<>>
        BY <4>1
      <4>3. g[Len(g)] \in Run
        BY <2>3, <4>2, RunsOfFile
      <4> QED
        BY <2>3, <4>2, <4>3
    <3>1. TotalLength(g[1]) = 2
      BY <1>s, <2>3, <3>0, RunType
    <3>2. Whole(g)
      BY <2>3, <3>0, <3>1 DEF Whole
    <3>3. RowIds => ExpectedBase(g, Len(g) + 1) = 0
      BY <2>3 DEF ExpectedBase, FIRST_BASE_ROW_ID
    <3> QED
      BY <2>3, <2>4, <3>2, <3>3
         DEF ContinuesFile, NoWriter, FIRST_DATA_FRAME_SEQUENCE, FIRST_BASE_ROW_ID
  <2>8. PointsKnowFile(p)'
    BY <1>d, <2>5, <2>6, <2>7 DEF PointsKnowFile, Appending
  <2>9. \A q \in Procs : q # p => pc'[q] = pc[q] /\ fd'[q] = fd[q]
    BY <1>n, <1>t, StepIsLocal
  <2>10. \A q \in Procs : pc'[q] \notin Creating
    <3>1. \A q \in Procs : q # p => pc[q] \notin Creating
      BY <1>k DEF StructInv, PathIsCreators, Creating
    <3> QED
      BY <2>5, <2>9, <3>1 DEF Creating
  <2>11. ASSUME NEW q \in Procs, fd[q] # None, fd[q] # path
         PROVE  ~HeaderComplete(data'[fd[q]])
    <3>1. fd[q] \in Inodes /\ ~HeaderComplete(data[fd[q]])
      BY <1>t, <2>11 DEF StructInv, PathIsCreators, TypeOK
    <3> QED
      BY <1>p, <2>6, <2>11, <3>1
  <2>12. PathIsCreators'
    BY <1>d, <2>10, <2>11 DEF PathIsCreators, Creating
  <2> QED
    BY <2>6, <2>8, <2>12
<1> QED
  BY <1>1, <1>2, <1>k DEF PointsKnowFile

LEMMA WriteFrameStep ==
    ASSUME StructInv, NEW p \in Procs, WriteFrame(p)
    PROVE  FilesWellFormed' /\ PointsKnowFile(p)' /\ PathIsCreators'
<1> USE DEF At, Goto
<1> DEFINE f == data[fd[p]]
<1>n. Caller(p) \/ Step(p) \/ Kill(p)
  BY DEF Step
<1>t. TypeOK /\ HandlesHoldLocks
  BY DEF StructInv, LockInv
<1>k. PointsKnowFile(p) /\ pc[p] = "write_frame"
  BY DEF StructInv, WriteFrame
<1>f. fd[p] \in Inodes /\ f \in Seq(Run) /\ WellFormed(f) /\ HeaderComplete(f)
  BY <1>t, <1>k, OpenFileType DEF StructInv, FilesWellFormed, PointsKnowFile
<1>0. PICK w \in Writers : w = writer[p]
  BY <1>t DEF TypeOK
<1> DEFINE frame == PendingFrame(w)
           g == AppendUnit(f, frame, w.written)
<1>d. data' = [data EXCEPT ![fd[p]] = g] /\ UNCHANGED <<path, fd, undone>>
  BY <1>0 DEF WriteFrame
<1>w. /\ w.written \in Nat /\ w.next_sequence \in Nat /\ w.file_length \in Nat
      /\ w.buffered \in Nat /\ w.next_row_id \in Nat
  BY TargetsAssumption DEF Writers
<1>b. w.buffered > 0
  BY <1>0, <1>k DEF PointsKnowFile
<1>r. /\ frame \in FrameSet /\ frame.sequence = w.next_sequence
      /\ frame.row_count = w.buffered
      /\ frame.base_row_id = IF RowIds THEN w.next_row_id ELSE UNAVAILABLE_BASE_ROW_ID
  BY PendingFrameType DEF PendingFrame
<1>l. w.next_sequence > 0 => TotalLength(frame) = w.buffered + 1
  BY <1>r, <1>w DEF TotalLength
\* Either way the file is one unit longer, and its last run is of this frame.
<1>g. /\ g \in Seq(Run) /\ WellFormed(g) /\ HeaderComplete(g)
      /\ Len(g) = w.next_sequence + 1 /\ w.next_sequence > 0
      /\ FrameOf(g[Len(g)]) = frame /\ g[Len(g)].units = w.written + 1
      /\ FileSize(g) = w.file_length + w.written + 1
      /\ w.written + 1 <= TotalLength(frame)
  <2>1. CASE ContinuesFile(w, f)
    <3>1. /\ Whole(f) /\ w.written = 0 /\ w.next_sequence = Len(f) /\ f # <<>>
          /\ w.file_length = FileSize(f)
          /\ RowIds => w.next_row_id = ExpectedBase(f, Len(f) + 1)
      BY <2>1 DEF ContinuesFile, Whole
    <3>2. Len(f) \in Nat \ {0}
      BY <1>f, <3>1, RunsOfFile
    <3>3. /\ g \in Seq(Run) /\ WellFormed(g) /\ Len(g) = Len(f) + 1
          /\ \A k \in 1..Len(f) : g[k] = f[k]
          /\ FrameOf(g[Len(f) + 1]) = frame /\ g[Len(f) + 1].units = 1
          /\ FileSize(g) = FileSize(f) + 1
      <4>1. frame.sequence = Len(f) /\ frame.row_count > 0
        BY <1>b, <1>r, <3>1
      <4>2. frame.base_row_id = ExpectedBase(f, Len(f) + 1)
        <5>1. ~RowIds => ExpectedBase(f, Len(f) + 1) = UNAVAILABLE_BASE_ROW_ID
          BY DEF ExpectedBase
        <5> QED
          BY <1>r, <3>1, <5>1, RowIdsAssumption
      <4> QED
        BY <1>f, <1>r, <3>1, <4>1, <4>2, NewFrame
    <3> HIDE DEF g
    <3>4. g # <<>> /\ g[1] = f[1]
      BY <3>2, <3>3
    <3>5. HeaderComplete(g)
      BY <1>f, <3>4 DEF HeaderComplete
    <3> QED
      BY <1>b, <1>l, <1>w, <3>1, <3>2, <3>3, <3>5
  <2>2. CASE WritingFrame(w, f)
    <3>1. /\ w.next_sequence > 0 /\ w.written > 0 /\ Len(f) = w.next_sequence + 1
          /\ FrameOf(f[Len(f)]) = frame /\ f[Len(f)].units = w.written
          /\ w.written < TotalLength(frame) /\ FileSize(f) = w.file_length + w.written
      BY <2>2 DEF WritingFrame
    <3>2. f # <<>> /\ w.written \in Nat \ {0} /\ Len(f) > 1 /\ Len(f) \in Nat
      BY <1>w, <3>1
    <3>3. /\ g \in Seq(Run) /\ WellFormed(g) /\ Len(g) = Len(f)
          /\ \A k \in 1..(Len(f) - 1) : g[k] = f[k]
          /\ FrameOf(g[Len(f)]) = frame /\ g[Len(f)].units = w.written + 1
          /\ FileSize(g) = FileSize(f) + 1
      BY <1>f, <1>r, <3>1, <3>2, MoreOfFrame
    <3> HIDE DEF g
    <3>4. g # <<>> /\ g[1] = f[1]
      BY <3>2, <3>3
    <3>5. HeaderComplete(g)
      BY <1>f, <3>4 DEF HeaderComplete
    <3>6. TotalLength(frame) \in Nat
      BY <1>l, <1>w, <3>1
    <3> QED
      BY <1>w, <3>1, <3>2, <3>3, <3>5, <3>6
  <2> QED
    BY <1>0, <1>k, <2>1, <2>2 DEF PointsKnowFile
<1> HIDE DEF g, f
<1>1. FilesWellFormed' /\ data'[fd[p]] = g /\ \A j \in Inodes : j # fd[p] => data'[j] = data[j]
  <2>1. \A j \in Inodes : WellFormed(undone'[j])
    BY <1>d DEF StructInv, FilesWellFormed
  <2> QED
    BY <1>d, <1>f, <1>g, <2>1, OneFileWritten
<1>2. CASE w.written + 1 = TotalLength(frame)
  <2> DEFINE v == CommittedWriter(w)
             label == IF w.call = "append" THEN "append" ELSE "flushed"
  <2>1. writer'[p] = v /\ pc'[p] = label
    BY <1>0, <1>2, <1>t DEF WriteFrame, TypeOK
  <2>2. /\ v.file_length = w.file_length + TotalLength(frame)
        /\ v.next_sequence = w.next_sequence + 1
        /\ RowIds => v.next_row_id = w.next_row_id + w.buffered
        /\ v.written = 0
    BY DEF CommittedWriter, Writers
  <2>3. Len(g) \in Nat /\ Len(g) > 1 /\ g # <<>> /\ g[Len(g)] \in Run
    BY <1>g, <1>w, RunsOfFile
  <2>4. TotalLength(g[Len(g)]) = TotalLength(frame)
    BY <1>g, <2>3, RunType
  <2>5. Whole(g)
    BY <1>2, <1>g, <2>3, <2>4 DEF Whole
  <2>6. RowIds => ExpectedBase(g, Len(g) + 1) = w.next_row_id + w.buffered
    <3>1. RowIds => ExpectedBase(g, Len(g) + 1) = g[Len(g)].base_row_id + g[Len(g)].row_count
      <4>1. ~(Len(g) + 1 <= 2) /\ (Len(g) + 1) - 1 = Len(g)
        BY <2>3
      <4> QED
        BY <4>1 DEF ExpectedBase
    <3>2. /\ g[Len(g)].base_row_id = frame.base_row_id
          /\ g[Len(g)].row_count = frame.row_count
      BY <1>g DEF FrameOf
    <3> QED
      BY <1>r, <3>1, <3>2
  <2> HIDE DEF v, frame
  <2>7. ContinuesFile(v, g)
    BY <1>2, <1>g, <1>w, <2>2, <2>5, <2>6 DEF ContinuesFile
  <2>8. PointsKnowFile(p)'
    BY <1>1, <1>d, <2>1, <2>7 DEF PointsKnowFile, Appending
  <2>9. \A j \in Inodes : HeaderComplete(data'[j]) => HeaderComplete(data[j])
    BY <1>1, <1>f DEF f
  <2>10. PathIsCreators'
    BY <1>d, <1>n, <2>1, <2>9, PathKept DEF Creating
  <2> QED
    BY <1>1, <2>8, <2>10
<1>3. CASE w.written + 1 # TotalLength(frame)
  <2> DEFINE v == [w EXCEPT !.written = w.written + 1]
  <2>1. writer'[p] = v /\ pc'[p] = "write_frame"
    BY <1>0, <1>3, <1>k, <1>t DEF WriteFrame, TypeOK
  <2>2. /\ v.next_sequence = w.next_sequence /\ v.written = w.written + 1
        /\ v.file_length = w.file_length /\ v.buffered = w.buffered
        /\ v.next_row_id = w.next_row_id /\ v.body = w.body
    BY DEF Writers
  <2>3. PendingFrame(v) = frame
    BY <2>2 DEF PendingFrame
  <2> HIDE DEF v, frame
  <2>4. TotalLength(frame) \in Nat
    BY <1>g, <1>l, <1>w
  <2>5. WritingFrame(v, g)
    <3>1. v.written > 0 /\ v.written < TotalLength(frame)
      BY <1>3, <1>g, <1>w, <2>2, <2>4
    <3>2. /\ v.next_sequence > 0 /\ Len(g) = v.next_sequence + 1
          /\ FileSize(g) = v.file_length + v.written
      BY <1>g, <1>w, <2>2
    <3>3. FrameOf(g[Len(g)]) = frame /\ g[Len(g)].units = v.written
      BY <1>g, <2>2
    <3> QED
      BY <2>3, <3>1, <3>2, <3>3 DEF WritingFrame
  <2>6. PointsKnowFile(p)'
    BY <1>1, <1>b, <1>d, <1>g, <2>1, <2>2, <2>5 DEF PointsKnowFile, Appending
  <2>7. \A j \in Inodes : HeaderComplete(data'[j]) => HeaderComplete(data[j])
    BY <1>1, <1>f DEF f
  <2>8. PathIsCreators'
    BY <1>d, <1>n, <2>1, <2>7, PathKept DEF Creating
  <2> QED
    BY <1>1, <2>6, <2>8
<1> QED
  BY <1>2, <1>3

LEMMA RepairTruncateStep ==
    ASSUME StructInv, NEW p \in Procs, RepairTruncate(p)
    PROVE  FilesWellFormed' /\ PointsKnowFile(p)' /\ PathIsCreators'
<1> USE DEF At, Goto
<1> DEFINE f == data[fd[p]]
           n == FrameCount(f)
           g == SubSeq(f, 1, n)
<1>n. Caller(p) \/ Step(p) \/ Kill(p)
  BY DEF Step
<1>t. TypeOK /\ HandlesHoldLocks /\ PlanIsCurrent
  BY DEF StructInv, LockInv
<1>k. PointsKnowFile(p) /\ pc[p] = "repair_truncate"
  BY DEF StructInv, RepairTruncate
<1>f. fd[p] \in Inodes /\ f \in Seq(Run) /\ WellFormed(f) /\ Repairable(f)
  BY <1>t, <1>k, OpenFileType DEF StructInv, FilesWellFormed, PointsKnowFile
<1>1. plan[p] = Walk(f)
  BY <1>k, <1>t DEF PlanIsCurrent
<1>2. plan[p].frame_count = n
  BY <1>1, WalkFields
<1>3. n \in 1..n /\ n \in Nat \ {0}
  BY <1>f, FrameCountType DEF Repairable, HasSchemaFrame
<1>4. Whole(g) /\ FileSize(g) = f[n].offset + f[n].units
  BY <1>3, <1>f, PrefixWhole
<1>5. plan[p].last_good_offset = f[n].offset + f[n].units
  BY <1>1, <1>3, WalkFields
<1>d. /\ data' = [data EXCEPT ![fd[p]] = g] /\ undone' = [undone EXCEPT ![fd[p]] = f]
      /\ pc'[p] = "repair_sync" /\ UNCHANGED <<path, fd, writer, plan>>
  BY <1>2, <1>t DEF RepairTruncate, TypeOK
<1>6. HeaderComplete(f)
  BY <1>f, WellFormedWalk DEF Repairable
<1> HIDE DEF g, n
<1>7. \A j \in Inodes : WellFormed(undone'[j])
  BY <1>d, <1>f, <1>t DEF StructInv, FilesWellFormed, TypeOK
<1> HIDE DEF f
<1>8. FilesWellFormed' /\ data'[fd[p]] = g /\ \A j \in Inodes : j # fd[p] => data'[j] = data[j]
  BY <1>4, <1>7, <1>d, <1>f, OneFileWritten DEF Whole
<1>9. PointsKnowFile(p)'
  BY <1>4, <1>5, <1>8, <1>d, <1>k DEF PointsKnowFile, Appending
<1>10. \A j \in Inodes : HeaderComplete(data'[j]) => HeaderComplete(data[j])
  BY <1>6, <1>8 DEF f
<1>11. PathIsCreators'
  BY <1>d, <1>n, <1>10, PathKept DEF Creating
<1> QED
  BY <1>8, <1>9, <1>11

-----------------------------------------------------------------------------
(* The structural invariant holds                                          *)

LEMMA StructInvInit == Init => StructInv
<1> SUFFICES ASSUME Init PROVE StructInv
  OBVIOUS
<1>1. FilesWellFormed
  BY EmptyWellFormed DEF Init, FilesWellFormed
<1>2. \A p \in Procs : PointsKnowFile(p)
  BY DEF Init, PointsKnowFile, Appending
<1>3. PathIsCreators
  BY DEF Init, PathIsCreators, Creating
<1> QED
  BY <1>1, <1>2, <1>3, LockInvInit DEF StructInv

LEMMA PowerLossStruct == StructInv /\ PowerLoss => FilesWellFormed' /\ PathIsCreators'
                                                   /\ \A p \in Procs : PointsKnowFile(p)'
<1> SUFFICES ASSUME StructInv, PowerLoss
             PROVE  FilesWellFormed' /\ PathIsCreators' /\ \A p \in Procs : PointsKnowFile(p)'
  OBVIOUS
<1>1. PICK f \in {data[path], undone[path]} : \E k \in synced[path]..Len(f) :
        \E u \in 0..(IF k < Len(f) THEN f[k+1].units ELSE 0) :
          data' = [i \in Inodes |-> IF i = path THEN CutTo(f, k, u) ELSE <<>>]
  BY DEF PowerLoss
<1>2. PICK k \in synced[path]..Len(f) :
        \E u \in 0..(IF k < Len(f) THEN f[k+1].units ELSE 0) :
          data' = [i \in Inodes |-> IF i = path THEN CutTo(f, k, u) ELSE <<>>]
  BY <1>1
<1>3. PICK u \in 0..(IF k < Len(f) THEN f[k+1].units ELSE 0) :
        data' = [i \in Inodes |-> IF i = path THEN CutTo(f, k, u) ELSE <<>>]
  BY <1>2
<1>4. path \in Inodes /\ f \in Seq(Run) /\ WellFormed(f) /\ synced[path] \in Nat
  BY DEF PowerLoss, StructInv, LockInv, TypeOK, FilesWellFormed
<1>5. k \in 0..Len(f)
  BY <1>4
<1>6. WellFormed(CutTo(f, k, u))
  BY <1>4, <1>5, CutToWellFormed
<1>7. FilesWellFormed'
  BY <1>3, <1>6, EmptyWellFormed DEF PowerLoss, FilesWellFormed
<1>8. \A p \in Procs : PointsKnowFile(p)'
  BY DEF PowerLoss, PointsKnowFile, Appending
<1>9. PathIsCreators'
  BY DEF PowerLoss, PathIsCreators, Creating
<1> QED
  BY <1>7, <1>8, <1>9

LEMMA StructInvStep == StructInv /\ [Next]_vars => StructInv'
<1> SUFFICES ASSUME StructInv, [Next]_vars PROVE StructInv'
  OBVIOUS
<1>0. LockInv'
  BY LockInvStep DEF StructInv
<1>1. ASSUME NEW p \in Procs, Caller(p) \/ Step(p) \/ Kill(p)
      PROVE  StructInv'
  <2>1. FilesWellFormed' /\ PointsKnowFile(p)' /\ PathIsCreators'
    BY <1>1, HandleSteps, PathSteps, WriterSteps, WriteInitialStep, WriteFrameStep,
       RepairTruncateStep DEF Caller, Step
  <2>2. \A q \in Procs : PointsKnowFile(q)'
    BY <1>1, <2>1, OthersKnowFile
  <2> QED
    BY <1>0, <2>1, <2>2 DEF StructInv
<1>2. CASE PowerLoss
  BY <1>0, <1>2, PowerLossStruct DEF StructInv
<1>3. CASE UNCHANGED vars
  <2>1. FilesWellFormed'
    BY <1>3 DEF vars, StructInv, FilesWellFormed
  <2>2. \A p \in Procs : PointsKnowFile(p)'
    BY <1>3 DEF vars, StructInv, PointsKnowFile
  <2>3. PathIsCreators'
    BY <1>3 DEF vars, StructInv, PathIsCreators
  <2> QED
    BY <1>0, <2>1, <2>2, <2>3 DEF StructInv
<1> QED
  BY <1>1, <1>2, <1>3 DEF Next, ProcessNext

LEMMA StructInvHolds == Spec => []StructInv
  BY StructInvInit, StructInvStep, PTL DEF Spec

\* No interleaving of sessions, failed writes, deaths, repairs and power losses
\* leaves a file that FileScan::from_file calls corrupt, for any number of
\* processes and files and with or without row IDs (poison_io, repair).
THEOREM FilesNeverCorrupt == Spec => []NeverCorrupt
<1>1. StructInv => NeverCorrupt
  <2> SUFFICES ASSUME StructInv, NEW i \in Inodes PROVE ~Walk(data[i]).corruption
    BY DEF NeverCorrupt
  <2>1. data[i] \in Seq(Run) /\ WellFormed(data[i])
    BY DEF StructInv, LockInv, TypeOK, FilesWellFormed
  <2> QED
    BY <2>1, WellFormedWalk
<1> QED
  BY <1>1, StructInvHolds, PTL

\* A Writer at rest always continues its file: the AppendState that commit or
\* open_internal left is the one a fresh walk of the file would return.
THEOREM WritersContinueFiles == Spec => []SessionContinuesFile
<1>1. StructInv => SessionContinuesFile
  <2> SUFFICES ASSUME StructInv, NEW p \in Procs, pc[p] = "ready"
               PROVE  /\ Appendable(data[fd[p]])
                      /\ writer[p].file_length = FileSize(data[fd[p]])
                      /\ writer[p].next_sequence = Walk(data[fd[p]]).next_sequence
                      /\ RowIds => writer[p].next_row_id = Walk(data[fd[p]]).next_row_id
    BY DEF SessionContinuesFile, At
  <2> DEFINE f == data[fd[p]]
  <2>1. f \in Seq(Run) /\ fd[p] \in Inodes
    BY OpenFileType DEF StructInv, LockInv
  <2>2. WellFormed(f)
    BY <2>1 DEF StructInv, FilesWellFormed
  <2>3. ContinuesFile(writer[p], f)
    BY DEF StructInv, PointsKnowFile
  <2> HIDE DEF f
  <2>4. Whole(f)
    BY <2>3 DEF ContinuesFile
  <2>5. /\ FrameCount(f) = Len(f) /\ Walk(f).next_sequence = Len(f) /\ HeaderComplete(f)
        /\ RowIds => Walk(f).next_row_id = ExpectedBase(f, Len(f) + 1)
    BY <2>1, <2>2, <2>4, WholeFile
  <2>6. Appendable(f)
    BY <2>1, <2>2, <2>5, WellFormedWalk, RunsOfFile DEF Appendable
  <2> QED
    BY <2>3, <2>5, <2>6 DEF ContinuesFile, f
<1> QED
  BY <1>1, StructInvHolds, PTL

\* A Writer always appends to the file its path names: the remove_file with
\* which a failed create cleans up never takes a Writer's file away.
THEOREM WritersOwnPath == Spec => []SessionOwnsPath
<1>1. StructInv => SessionOwnsPath
  <2> SUFFICES ASSUME StructInv, NEW p \in Procs, pc[p] \in Appending
               PROVE  fd[p] = path
    BY DEF SessionOwnsPath
  <2>1. HeaderComplete(data[fd[p]])
    BY WritersFindHeader DEF Appending
  <2>2. fd[p] # None
    BY DEF StructInv, LockInv, HandlesHoldLocks, Appending
  <2> QED
    BY <2>1, <2>2 DEF StructInv, PathIsCreators
<1> QED
  BY <1>1, StructInvHolds, PTL

\* The validation finish_repair runs after a truncation never fails among
\* processes that use the lock.
THEOREM RepairsValidate == Spec => []PostRepairValidates
<1>1. StructInv => PostRepairValidates
  <2> SUFFICES ASSUME StructInv, NEW p \in Procs, pc[p] = "repair_verify"
               PROVE  PostPlanAgrees(data[fd[p]], plan[p])
    BY DEF PostRepairValidates, At
  <2> DEFINE f == data[fd[p]]
  <2>1. f \in Seq(Run) /\ fd[p] \in Inodes
    BY OpenFileType DEF StructInv, LockInv
  <2>2. WellFormed(f)
    BY <2>1 DEF StructInv, FilesWellFormed
  <2>3. Whole(f) /\ FileSize(f) = plan[p].last_good_offset
    BY DEF StructInv, PointsKnowFile
  <2> HIDE DEF f
  <2>4. /\ FrameCount(f) = Len(f) /\ HeaderComplete(f)
        /\ Walk(f).last_good_offset = FileSize(f)
    BY <2>1, <2>2, <2>3, WholeFile
  <2>5. HasSchemaFrame(f) /\ ~Walk(f).incomplete_tail /\ ~Walk(f).corruption
    BY <2>1, <2>2, <2>4, WellFormedWalk, RunsOfFile
  <2>6. PostPlanAgrees(f, plan[p])
    BY <2>3, <2>4, <2>5, WalkFields DEF PostPlanAgrees
  <2> QED
    BY <2>6 DEF f
<1> QED
  BY <1>1, StructInvHolds, PTL


-----------------------------------------------------------------------------
(* Committed frames stay                                                   *)

\* The frames the walk counts in f are the first runs of g too.
KeepsCommitted(f, g) == \A k \in 1..FrameCount(f) : k <= Len(g) /\ g[k] = f[k]

LEMMA PathFileType ==
    ASSUME StructInv, path # None
    PROVE  /\ path \in Inodes /\ data[path] \in Seq(Run) /\ WellFormed(data[path])
           /\ undone[path] \in Seq(Run) /\ WellFormed(undone[path])
           /\ synced[path] \in Nat
           /\ FrameCount(data[path]) \in Nat /\ FrameCount(data[path]) <= Len(data[path])
<1>1. /\ path \in Inodes /\ data[path] \in Seq(Run) /\ undone[path] \in Seq(Run)
      /\ synced[path] \in Nat
  BY DEF StructInv, LockInv, TypeOK
<1>2. WellFormed(data[path]) /\ WellFormed(undone[path])
  BY <1>1 DEF StructInv, FilesWellFormed
<1>3. FrameCount(data[path]) \in 0..Len(data[path]) /\ Len(data[path]) \in Nat
  BY <1>1, FrameCountType, RunsOfFile
<1> QED
  BY <1>1, <1>2, <1>3

\* A write appends to the file it has open and leaves its complete runs alone.
LEMMA WritesKeepRuns ==
    ASSUME StructInv, NEW p \in Procs, WriteInitial(p) \/ WriteFrame(p)
    PROVE  /\ fd[p] \in Inodes
           /\ \A j \in Inodes : j # fd[p] => data'[j] = data[j]
           /\ Len(data'[fd[p]]) >= Len(data[fd[p]])
           /\ \A k \in 1..Len(data[fd[p]]) :
                data[fd[p]][k].units = TotalLength(data[fd[p]][k]) =>
                  data'[fd[p]][k] = data[fd[p]][k]
<1> USE DEF At
<1> DEFINE f == data[fd[p]]
<1>t. TypeOK /\ HandlesHoldLocks /\ PointsKnowFile(p)
  BY DEF StructInv, LockInv
<1>f. fd[p] \in Inodes /\ f \in Seq(Run)
  BY <1>t, OpenFileType DEF WriteInitial, WriteFrame
<1>1. \E frame \in FrameSet, done \in Nat :
        /\ done < TotalLength(frame)
        /\ data' = [data EXCEPT ![fd[p]] = AppendUnit(f, frame, done)]
  <2>1. CASE WriteInitial(p)
    <3>1. SchemaFrame \in FrameSet /\ TotalLength(SchemaFrame) = 2
      BY SchemaFrameType DEF SchemaFrame, TotalLength, SCHEMA_FRAME_SEQUENCE
    <3>2. writer[p].written \in Nat /\ writer[p].written < 2
      BY <1>t, <2>1 DEF WriteInitial, PointsKnowFile, NoWriter
    <3>3. data' = [data EXCEPT ![fd[p]] = AppendUnit(f, SchemaFrame, writer[p].written)]
      BY <2>1 DEF WriteInitial
    <3> QED
      BY <3>1, <3>2, <3>3
  <2>2. CASE WriteFrame(p)
    <3>0. PICK w \in Writers : w = writer[p]
      BY <1>t DEF TypeOK
    <3>1. PendingFrame(w) \in FrameSet
      BY PendingFrameType
    <3>2. data' = [data EXCEPT ![fd[p]] = AppendUnit(f, PendingFrame(w), w.written)]
      BY <2>2, <3>0 DEF WriteFrame
    <3>3. w.written \in Nat
      BY DEF Writers
    <3>4. ContinuesFile(w, f) \/ WritingFrame(w, f)
      BY <1>t, <2>2, <3>0 DEF WriteFrame, PointsKnowFile
    <3>5. w.buffered > 0 /\ w.buffered \in Nat
      BY <1>t, <2>2, <3>0, TargetsAssumption DEF WriteFrame, PointsKnowFile, Writers
    <3>6. TotalLength(PendingFrame(w)) > 0
      BY <3>5 DEF TotalLength, PendingFrame
    <3>7. w.written < TotalLength(PendingFrame(w))
      BY <3>4, <3>6 DEF ContinuesFile, WritingFrame
    <3> QED
      BY <3>1, <3>2, <3>3, <3>7
  <2> QED
    BY <2>1, <2>2
<1>2. PICK frame \in FrameSet, done \in Nat :
        /\ done < TotalLength(frame)
        /\ data' = [data EXCEPT ![fd[p]] = AppendUnit(f, frame, done)]
  BY <1>1
<1>3. /\ data'[fd[p]] = AppendUnit(f, frame, done)
      /\ \A j \in Inodes : j # fd[p] => data'[j] = data[j]
  BY <1>2, <1>f, <1>t DEF TypeOK
<1> HIDE DEF f
<1>4. /\ Len(AppendUnit(f, frame, done)) >= Len(f)
      /\ \A k \in 1..Len(f) :
           f[k].units = TotalLength(f[k]) => AppendUnit(f, frame, done)[k] = f[k]
  BY <1>2, <1>f, AppendUnitKeeps
<1> QED
  BY <1>3, <1>4, <1>f DEF f

\* A truncation keeps the frames the walk counted, and only them.
LEMMA TruncateKeepsRuns ==
    ASSUME StructInv, NEW p \in Procs, RepairTruncate(p)
    PROVE  LET f == data[fd[p]]
               n == FrameCount(data[fd[p]])
           IN  /\ fd[p] \in Inodes /\ f \in Seq(Run) /\ WellFormed(f)
               /\ n \in 1..Len(f)
               /\ \A j \in Inodes : j # fd[p] => data'[j] = data[j] /\ undone'[j] = undone[j]
                                                 /\ synced'[j] = synced[j]
               /\ Len(data'[fd[p]]) = n
               /\ \A k \in 1..n : data'[fd[p]][k] = f[k]
               /\ undone'[fd[p]] = f
               /\ synced'[fd[p]] = IF synced[fd[p]] > n THEN n ELSE synced[fd[p]]
<1> USE DEF At
<1> DEFINE f == data[fd[p]]
           n == FrameCount(f)
<1>t. TypeOK /\ HandlesHoldLocks /\ PlanIsCurrent /\ PointsKnowFile(p)
  BY DEF StructInv, LockInv
<1>f. fd[p] \in Inodes /\ f \in Seq(Run) /\ WellFormed(f) /\ Repairable(f)
  BY <1>t, OpenFileType DEF StructInv, FilesWellFormed, PointsKnowFile, RepairTruncate
<1>1. plan[p] = Walk(f)
  BY <1>t DEF PlanIsCurrent, RepairTruncate
<1>2. plan[p].frame_count = n
  BY <1>1, WalkFields
<1>3. n \in 0..Len(f) /\ Len(f) \in Nat /\ n >= 1
  BY <1>f, FrameCountType, RunsOfFile DEF Repairable, HasSchemaFrame
<1>4. /\ data'[fd[p]] = SubSeq(f, 1, n) /\ undone'[fd[p]] = f
      /\ synced'[fd[p]] = IF synced[fd[p]] > n THEN n ELSE synced[fd[p]]
      /\ \A j \in Inodes : j # fd[p] => data'[j] = data[j] /\ undone'[j] = undone[j]
                                        /\ synced'[j] = synced[j]
  BY <1>2, <1>f, <1>t DEF RepairTruncate, TypeOK
<1> HIDE DEF f, n
<1>5. Len(SubSeq(f, 1, n)) = n /\ \A k \in 1..n : SubSeq(f, 1, n)[k] = f[k]
  BY <1>3, <1>f, PrefixRuns
<1>6. n \in 1..Len(f)
  BY <1>3
<1> QED
  BY <1>4, <1>5, <1>6, <1>f DEF f, n

\* A step of a process keeps the committed frames of the file under the path.
LEMMA StepKeepsCommitted ==
    ASSUME StructInv, NEW p \in Procs, Caller(p) \/ Step(p) \/ Kill(p), path # None
    PROVE  KeepsCommitted(data[path], data'[path])
<1> DEFINE f == data[path]
<1>0. /\ path \in Inodes /\ f \in Seq(Run) /\ WellFormed(f)
      /\ FrameCount(f) \in Nat /\ FrameCount(f) <= Len(f) /\ Len(f) \in Nat
  BY PathFileType, RunsOfFile
<1>1. CASE data'[path] = f
  BY <1>0, <1>1 DEF KeepsCommitted
<1>2. CASE WriteInitial(p) \/ WriteFrame(p)
  <2>1. CASE fd[p] # path
    BY <1>0, <1>1, <1>2, <2>1, WritesKeepRuns
  <2>2. CASE fd[p] = path
    <3>1. /\ Len(data'[path]) >= Len(f)
          /\ \A k \in 1..Len(f) : f[k].units = TotalLength(f[k]) => data'[path][k] = f[k]
      BY <1>2, <2>2, WritesKeepRuns
    <3>2. data'[path] \in Seq(Run)
      BY <1>0, StructInvStep DEF StructInv, LockInv, TypeOK, Next, ProcessNext
    <3>3. Len(data'[path]) \in Nat
      BY <3>2, RunsOfFile
    <3> HIDE DEF f
    <3>4. ASSUME NEW k \in 1..FrameCount(f)
          PROVE  k <= Len(data'[path]) /\ data'[path][k] = f[k]
      <4>1. k \in 1..Len(f) /\ f[k].units = TotalLength(f[k])
        BY <1>0, CountedRunsComplete
      <4> QED
        BY <1>0, <3>1, <3>3, <4>1
    <3> QED
      BY <3>4 DEF KeepsCommitted, f
  <2> QED
    BY <2>1, <2>2
<1>3. CASE RepairTruncate(p)
  <2>1. CASE fd[p] # path
    BY <1>0, <1>1, <1>3, <2>1, TruncateKeepsRuns
  <2>2. CASE fd[p] = path
    <3>1. /\ Len(data'[path]) = FrameCount(f)
          /\ \A k \in 1..FrameCount(f) : data'[path][k] = f[k]
      BY <1>3, <2>2, TruncateKeepsRuns
    <3> QED
      BY <1>0, <3>1 DEF KeepsCommitted
  <2> QED
    BY <2>1, <2>2
<1>4. CASE Create(p)
  BY <1>4 DEF Create
<1> QED
  BY <1>1, <1>2, <1>3, <1>4, WhoWrites

\* Only a create that failed takes the path away, from a file without a header.
LEMMA StepKeepsPath ==
    ASSUME StructInv, NEW p \in Procs, Caller(p) \/ Step(p) \/ Kill(p), path # None
    PROVE  path' = path \/ FrameCount(data[path]) = 0
<1>1. CASE Create(p)
  BY <1>1 DEF Create
<1>2. CASE Cleanup(p)
  <2>1. ~HeaderComplete(data[path])
    BY <1>2 DEF Cleanup, At, StructInv, PathIsCreators, Creating
  <2>2. ~HasSchemaFrame(data[path])
    BY <2>1, PathFileType, WellFormedWalk
  <2> QED
    BY <2>2, PathFileType DEF HasSchemaFrame
<1> QED
  BY <1>1, <1>2, WhoWrites

\* A sequence that starts with the elements of another has it as its prefix.
LEMMA PrefixOfSequence ==
    ASSUME NEW S, NEW s \in Seq(S), NEW t \in Seq(S), Len(s) <= Len(t),
           \A k \in 1..Len(s) : t[k] = s[k]
    PROVE  SubSeq(t, 1, Len(s)) = s
<1> DEFINE n == Len(s)
           u == SubSeq(t, 1, n)
<1>1. n \in Nat /\ Len(t) \in Nat
  OBVIOUS
<1>2. \A k \in 1..n : k \in 1..Len(t) /\ t[k] \in S
  BY <1>1
<1>3. u \in Seq(S) /\ Len(u) = n /\ \A k \in 1..n : u[k] = t[k]
  BY <1>1, <1>2
<1> HIDE DEF u
<1>4. Len(u) = Len(s) /\ \A k \in 1..Len(u) : u[k] = s[k]
  BY <1>3
<1>5. u = s
  BY <1>3, <1>4, SeqEqual
<1> QED
  BY <1>5 DEF u

\* Committed frames that are kept are the first frames a reader sees.
LEMMA KeptFramesArePrefix ==
    ASSUME NEW f \in Seq(Run), WellFormed(f), NEW g \in Seq(Run), WellFormed(g),
           KeepsCommitted(f, g)
    PROVE  /\ FrameCount(g) >= FrameCount(f)
           /\ Len(DataFrames(f)) <= Len(DataFrames(g))
           /\ SubSeq(DataFrames(g), 1, Len(DataFrames(f))) = DataFrames(f)
<1> DEFINE n == FrameCount(f)
           m == FrameCount(g)
           s == DataFrames(f)
           t == DataFrames(g)
<1>0. n \in Nat /\ m \in Nat /\ s \in Seq(FrameSet) /\ t \in Seq(FrameSet)
  BY FrameCountType, RunsOfFile, DataFramesType
<1>1. CASE n = 0
  <2>1. s = <<>> /\ Len(s) = 0
    BY <1>1, DataFramesElements
  <2>2. SubSeq(t, 1, 0) = <<>>
    BY SubSeqEmpty
  <2>3. Len(t) \in Nat
    BY <1>0
  <2> QED
    BY <1>0, <1>1, <2>1, <2>2, <2>3
<1>2. CASE n # 0
  <2>1. n \in 1..n /\ n <= Len(g) /\ \A k \in 1..n : g[k] = f[k]
    BY <1>0, <1>2 DEF KeepsCommitted
  <2>2. m >= n
    BY <2>1, CountAtLeast
  <2>3. /\ Len(s) = n - 1 /\ \A k \in 1..(n - 1) : s[k] = FrameOf(f[k+1])
        /\ Len(t) = m - 1 /\ \A k \in 1..(m - 1) : t[k] = FrameOf(g[k+1])
    BY <1>0, <1>2, <2>2, DataFramesElements
  <2> HIDE DEF n, m, s, t
  <2>4. Len(s) <= Len(t)
    BY <1>0, <2>2, <2>3
  <2>5. ASSUME NEW k \in 1..Len(s)
        PROVE  t[k] = s[k]
    <3>1. k \in 1..(n - 1) /\ k \in 1..(m - 1) /\ k + 1 \in 1..n
      BY <1>0, <2>2, <2>3
    <3> QED
      BY <2>1, <2>3, <3>1
  <2>6. SubSeq(t, 1, Len(s)) = s
    BY <1>0, <2>4, <2>5, PrefixOfSequence
  <2> QED
    BY <2>2, <2>4, <2>6 DEF n, m, s, t
<1> QED
  BY <1>1, <1>2

LEMMA CommittedType ==
    ASSUME StructInv
    PROVE  /\ Committed \in Seq(FrameSet) /\ Len(Committed) \in Nat
           /\ path # None /\ FrameCount(data[path]) = 0 => Committed = <<>>
<1>1. CASE path = None
  BY <1>1 DEF Committed
<1>2. CASE path # None
  BY <1>2, PathFileType, DataFramesType, DataFramesElements DEF Committed
<1> QED
  BY <1>1, <1>2

LEMMA StepGrowsCommitted ==
    ASSUME StructInv, NEW p \in Procs, Caller(p) \/ Step(p) \/ Kill(p)
    PROVE  /\ Len(Committed) <= Len(Committed')
           /\ SubSeq(Committed', 1, Len(Committed)) = Committed
<1>0. StructInv'
  BY StructInvStep DEF Next, ProcessNext
<1>1. (Len(Committed) \in Nat)'
  BY <1>0, CommittedType
<1>2. CASE Committed = <<>>
  <2>1. SubSeq(Committed', 1, 0) = <<>>
    BY SubSeqEmpty
  <2> QED
    BY <1>1, <1>2, <2>1
<1>3. CASE Committed # <<>>
  <2>1. path # None /\ FrameCount(data[path]) # 0
    BY <1>3, CommittedType DEF Committed
  <2>2. path' = path
    BY <2>1, StepKeepsPath
  <2>3. KeepsCommitted(data[path], data'[path])
    BY <2>1, StepKeepsCommitted
  <2>4. data[path] \in Seq(Run) /\ WellFormed(data[path])
    BY <2>1, PathFileType
  <2>5. data'[path] \in Seq(Run) /\ WellFormed(data'[path])
    BY <1>0, <2>1, <2>2 DEF StructInv, LockInv, TypeOK, FilesWellFormed
  <2>6. /\ Len(DataFrames(data[path])) <= Len(DataFrames(data'[path]))
        /\ SubSeq(DataFrames(data'[path]), 1, Len(DataFrames(data[path]))) = DataFrames(data[path])
    BY <2>3, <2>4, <2>5, KeptFramesArePrefix
  <2> QED
    BY <2>1, <2>2, <2>6 DEF Committed
<1> QED
  BY <1>2, <1>3

\* No step but a loss of power takes a committed frame away or alters one: not
\* the remove_file of a failed create, not the set_len of a repair.
THEOREM CommittedFramesStay == Spec => CommittedOnlyGrows
<1>1. StructInv /\ [Next]_vars =>
        [ \/ PowerLoss
          \/ /\ Len(Committed) <= Len(Committed')
             /\ SubSeq(Committed', 1, Len(Committed)) = Committed ]_vars
  BY StepGrowsCommitted DEF Next, ProcessNext
<1> QED
  BY <1>1, StructInvHolds, PTL DEF Spec, CommittedOnlyGrows

-----------------------------------------------------------------------------
(* What is reported durable stays                                          *)

DurableInv == StructInv /\ SyncedIsKept /\ AckedIsSynced

\* sync_all of the file a process has open.
SyncsFile(p) ==
    /\ pc[p] \in {"flushed", "repair_sync"}
    /\ synced' = [synced EXCEPT ![fd[p]] = Len(data[fd[p]])]
    /\ undone' = [undone EXCEPT ![fd[p]] = <<>>]
    /\ UNCHANGED <<path, data>>

\* Who makes a file durable, and who reports it.
LEMMA WhoSyncs ==
    ASSUME NEW p \in Procs, Caller(p) \/ Step(p) \/ Kill(p)
    PROVE  /\ \/ UNCHANGED <<data, synced, undone>>
              \/ Create(p) \/ RepairTruncate(p) \/ SyncsFile(p)
              \/ (WriteInitial(p) \/ WriteFrame(p)) /\ UNCHANGED <<synced, undone>>
           /\ \/ acked' = acked
              \/ /\ SyncsFile(p) /\ pc[p] = "flushed"
                 /\ acked' = DataFrames(data[fd[p]])
<1> USE DEF At
<1>1. CASE FlushDone(p)
  BY <1>1 DEF FlushDone, SyncsFile
<1>2. CASE ReleaseFails(p)
  BY <1>2 DEF ReleaseFails, SyncsFile
<1>3. CASE RepairSync(p)
  BY <1>3 DEF RepairSync, SyncsFile
<1>4. CASE ~(FlushDone(p) \/ ReleaseFails(p) \/ RepairSync(p))
  BY <1>4 DEF Caller, Step, Open, RepairOpen, OpenHandle, CreateLock, OpenLock, RepairLock,
         AcquireLock, Cleanup, CreateLockFails, WriteInitialFails, Kill, Drop,
         OpenLockFails, OpenScanFails, OpenCheckFails, RepairLockFails, RepairScanFails,
         RepairTruncateFails, RepairSyncFails, RepairVerify, RepairVerifyFails, Return,
         BuildFrameFails, WriteFrameFails, FlushFails, OpenScan, OpenCheck,
         RepairScan, BeginAppend, BeginFlush, BuildFrame, AppendLoop,
         WriteInitial, WriteFrame, RepairTruncate, Create
<1> QED
  BY <1>1, <1>2, <1>3, <1>4

\* What SyncedIsKept says of one file.
KeptOf(f, n, u) ==
    /\ n <= Len(f)
    /\ u # <<>> => /\ n <= Len(u)
                   /\ \A k \in 1..n : u[k] = f[k] /\ f[k].units = TotalLength(f[k])

LEMMA SyncedStep ==
    ASSUME DurableInv, NEW p \in Procs, Caller(p) \/ Step(p) \/ Kill(p)
    PROVE  SyncedIsKept'
<1>t. TypeOK /\ HandlesHoldLocks /\ StructInv
  BY DEF DurableInv, StructInv, LockInv
<1>k. \A j \in Inodes : KeptOf(data[j], synced[j], undone[j])
  BY DEF DurableInv, SyncedIsKept, KeptOf
<1>n. \A j \in Inodes : /\ synced[j] \in Nat /\ Len(data[j]) \in Nat /\ Len(undone[j]) \in Nat
  BY <1>t DEF TypeOK
<1> SUFFICES \A j \in Inodes : KeptOf(data'[j], synced'[j], undone'[j])
  BY DEF SyncedIsKept, KeptOf
<1>1. CASE UNCHANGED <<data, synced, undone>>
  BY <1>1, <1>k
<1>2. CASE Create(p)
  <2>1. PICK i \in Inodes : /\ data' = [data EXCEPT ![i] = <<>>]
                            /\ synced' = [synced EXCEPT ![i] = 0]
                            /\ undone' = [undone EXCEPT ![i] = <<>>]
    BY <1>2 DEF Create
  <2>2. /\ data'[i] = <<>> /\ synced'[i] = 0 /\ undone'[i] = <<>>
        /\ \A j \in Inodes : j # i => /\ data'[j] = data[j] /\ synced'[j] = synced[j]
                                      /\ undone'[j] = undone[j]
    BY <1>t, <2>1 DEF TypeOK
  <2>3. KeptOf(<<>>, 0, <<>>)
    BY DEF KeptOf
  <2> QED
    BY <1>k, <2>2, <2>3
<1>3. CASE SyncsFile(p)
  <2>1. fd[p] \in Inodes
    BY <1>3, <1>t, OpenFileType DEF SyncsFile
  <2>2. /\ synced'[fd[p]] = Len(data[fd[p]]) /\ undone'[fd[p]] = <<>>
        /\ \A j \in Inodes : j # fd[p] => synced'[j] = synced[j] /\ undone'[j] = undone[j]
        /\ data' = data
    BY <1>3, <1>t, <2>1 DEF TypeOK, SyncsFile
  <2>3. KeptOf(data[fd[p]], Len(data[fd[p]]), <<>>)
    BY <1>n, <2>1 DEF KeptOf
  <2> QED
    BY <1>k, <2>2, <2>3
<1>4. CASE (WriteInitial(p) \/ WriteFrame(p)) /\ UNCHANGED <<synced, undone>>
  <2> DEFINE f == data[fd[p]]
             g == data'[fd[p]]
             n == synced[fd[p]]
             u == undone[fd[p]]
  <2>1. /\ fd[p] \in Inodes
        /\ \A j \in Inodes : j # fd[p] => data'[j] = data[j]
        /\ Len(g) >= Len(f)
        /\ \A k \in 1..Len(f) : f[k].units = TotalLength(f[k]) => g[k] = f[k]
    BY <1>4, <1>t, WritesKeepRuns
  <2>2. Len(g) \in Nat
    <3>1. TypeOK'
      BY <1>t, StructInvStep DEF StructInv, LockInv, Next, ProcessNext
    <3> QED
      BY <2>1, <3>1 DEF TypeOK
  <2>3. KeptOf(f, n, u) /\ n \in Nat /\ Len(f) \in Nat /\ Len(u) \in Nat
    BY <1>k, <1>n, <2>1
  <2> HIDE DEF f, g, n, u
  <2>4. KeptOf(g, n, u)
    <3>1. n <= Len(g)
      BY <2>1, <2>2, <2>3 DEF KeptOf
    <3>2. ASSUME u # <<>>, NEW k \in 1..n
          PROVE  u[k] = g[k] /\ g[k].units = TotalLength(g[k])
      <4>1. k \in 1..Len(f) /\ u[k] = f[k] /\ f[k].units = TotalLength(f[k])
        BY <2>3, <3>2 DEF KeptOf
      <4>2. g[k] = f[k]
        BY <2>1, <4>1
      <4> QED
        BY <4>1, <4>2
    <3> QED
      BY <2>3, <3>1, <3>2 DEF KeptOf
  <2> QED
    BY <1>4, <1>k, <2>1, <2>4 DEF f, g, n, u
<1>5. CASE RepairTruncate(p)
  <2> DEFINE f == data[fd[p]]
             g == data'[fd[p]]
             n == FrameCount(f)
             s == synced[fd[p]]
  <2>1. /\ fd[p] \in Inodes /\ f \in Seq(Run) /\ WellFormed(f)
        /\ n \in 1..Len(f)
        /\ \A j \in Inodes : j # fd[p] => data'[j] = data[j] /\ undone'[j] = undone[j]
                                          /\ synced'[j] = synced[j]
        /\ Len(g) = n
        /\ \A k \in 1..n : g[k] = f[k]
        /\ undone'[fd[p]] = f
        /\ synced'[fd[p]] = IF s > n THEN n ELSE s
    BY <1>5, <1>t, TruncateKeepsRuns
  <2>2. s \in Nat /\ Len(f) \in Nat
    BY <1>n, <2>1
  <2>3. PICK m \in Nat : m = IF s > n THEN n ELSE s
    BY <2>1, <2>2
  <2> HIDE DEF f, g, n, s
  <2>4. m <= n /\ n \in Nat /\ n <= Len(f)
    BY <2>1, <2>2, <2>3
  <2>5. ASSUME NEW k \in 1..m
        PROVE  f[k] = g[k] /\ g[k].units = TotalLength(g[k])
    <3>1. k \in 1..n
      BY <2>4
    <3>2. f[k].units = TotalLength(f[k])
      BY <2>1, <3>1, CountedRunsComplete DEF n
    <3>3. g[k] = f[k]
      BY <2>1, <3>1
    <3> QED
      BY <3>2, <3>3
  <2>6. KeptOf(g, m, f)
    BY <2>1, <2>2, <2>4, <2>5 DEF KeptOf
  <2>7. synced'[fd[p]] = m
    BY <2>1, <2>3
  <2> QED
    BY <1>k, <2>1, <2>6, <2>7 DEF g
<1> QED
  BY <1>1, <1>2, <1>3, <1>4, <1>5, WhoSyncs

\* What AckedIsSynced says of the file under the path.
AckedOf(f, n, a) ==
    /\ Len(a) + 1 <= n
    /\ Len(a) + 1 <= FrameCount(f)
    /\ \A k \in 1..Len(a) : a[k] = FrameOf(f[k+1])

\* A change of the file that keeps its committed frames keeps what was reported.
LEMMA AckedKept ==
    ASSUME NEW f \in Seq(Run), WellFormed(f), NEW g \in Seq(Run), WellFormed(g),
           KeepsCommitted(f, g), NEW a \in Seq(FrameSet), NEW n, AckedOf(f, n, a),
           NEW m \in Nat, Len(a) + 1 <= m
    PROVE  AckedOf(g, m, a)
<1>1. FrameCount(g) >= FrameCount(f)
  BY KeptFramesArePrefix
<1>2. FrameCount(f) \in Nat /\ FrameCount(g) \in Nat /\ Len(a) \in Nat
  BY FrameCountType, RunsOfFile
<1>3. Len(a) + 1 <= FrameCount(g)
  BY <1>1, <1>2 DEF AckedOf
<1>4. ASSUME NEW k \in 1..Len(a)
      PROVE  a[k] = FrameOf(g[k+1])
  <2>1. k + 1 \in 1..FrameCount(f)
    BY <1>2 DEF AckedOf
  <2> QED
    BY <2>1 DEF AckedOf, KeepsCommitted
<1> QED
  BY <1>3, <1>4 DEF AckedOf

LEMMA AckedStep ==
    ASSUME DurableInv, NEW p \in Procs, Caller(p) \/ Step(p) \/ Kill(p)
    PROVE  AckedIsSynced'
<1>t. TypeOK /\ HandlesHoldLocks /\ StructInv
  BY DEF DurableInv, StructInv, LockInv
<1>s. StructInv' /\ TypeOK'
  BY <1>t, StructInvStep DEF StructInv, LockInv, Next, ProcessNext
<1> SUFFICES ASSUME acked' # <<>>
             PROVE  path' # None /\ AckedOf(data'[path'], synced'[path'], acked')
  BY DEF AckedIsSynced, AckedOf
<1>1. CASE acked' = acked
  <2>1. path # None /\ AckedOf(data[path], synced[path], acked)
    BY <1>1 DEF DurableInv, AckedIsSynced, AckedOf
  <2> DEFINE f == data[path]
             g == data'[path]
  <2>2. /\ path \in Inodes /\ f \in Seq(Run) /\ WellFormed(f) /\ synced[path] \in Nat
        /\ FrameCount(f) \in Nat /\ FrameCount(f) <= Len(f) /\ Len(f) \in Nat
    BY <1>t, <2>1, PathFileType, RunsOfFile
  <2>3. acked \in Seq(FrameSet) /\ Len(acked) \in Nat
    BY <1>t DEF TypeOK
  <2>4. path' = path
    BY <1>t, <2>1, <2>2, <2>3, StepKeepsPath DEF AckedOf
  <2>5. KeepsCommitted(f, g)
    BY <1>t, <2>1, StepKeepsCommitted
  <2>6. g \in Seq(Run) /\ WellFormed(g) /\ synced'[path] \in Nat
    BY <1>s, <2>2 DEF StructInv, FilesWellFormed, TypeOK
  <2>7. Len(acked) + 1 <= synced'[path]
    <3>1. CASE UNCHANGED synced
      BY <2>1, <3>1 DEF AckedOf
    <3>2. CASE Create(p)
      BY <2>1, <3>2 DEF Create
    <3>3. CASE SyncsFile(p)
      <4>1. synced'[path] \in {synced[path], Len(f)}
        BY <1>t, <2>2, <3>3 DEF SyncsFile, TypeOK
      <4> QED
        BY <2>1, <2>2, <2>3, <4>1 DEF AckedOf
    <3>4. CASE RepairTruncate(p)
      <4>1. synced'[path] \in {synced[path], FrameCount(f)}
        BY <1>t, <2>2, <3>4, TruncateKeepsRuns
      <4> QED
        BY <2>1, <2>2, <2>3, <4>1 DEF AckedOf
    <3> QED
      BY <3>1, <3>2, <3>3, <3>4, WhoSyncs
  <2> HIDE DEF f, g
  <2>8. AckedOf(g, synced'[path], acked)
    BY <2>1, <2>2, <2>3, <2>5, <2>6, <2>7, AckedKept DEF f
  <2> QED
    BY <1>1, <2>1, <2>4, <2>8 DEF g
<1>2. CASE SyncsFile(p) /\ pc[p] = "flushed" /\ acked' = DataFrames(data[fd[p]])
  <2> DEFINE f == data[fd[p]]
  <2>1. fd[p] \in Inodes /\ fd[p] # None
    BY <1>2, <1>t, OpenFileType DEF HandlesHoldLocks
  <2>2. fd[p] = path
    BY <1>2, <1>t, <2>1, WritersFindHeader DEF StructInv, PathIsCreators
  <2>3. synced'[fd[p]] = Len(f) /\ path' = path /\ data' = data
    BY <1>2, <1>t, <2>1 DEF SyncsFile, TypeOK
  <2>4. f \in Seq(Run) /\ FrameCount(f) \in Nat /\ FrameCount(f) <= Len(f) /\ Len(f) \in Nat
    BY <1>t, <2>1, <2>2, PathFileType, RunsOfFile
  <2> HIDE DEF f
  <2>5. /\ FrameCount(f) # 0 /\ Len(DataFrames(f)) = FrameCount(f) - 1
        /\ \A k \in 1..(FrameCount(f) - 1) : DataFrames(f)[k] = FrameOf(f[k+1])
    BY <1>2, <2>4, DataFramesElements DEF f
  <2>6. AckedOf(f, Len(f), DataFrames(f))
    BY <2>4, <2>5 DEF AckedOf
  <2> QED
    BY <1>2, <2>1, <2>2, <2>3, <2>6 DEF f
<1> QED
  BY <1>1, <1>2, WhoSyncs

\* A loss of power leaves at least what was synchronized, whether it undoes a
\* truncation or not.
LEMMA PowerLossDurable ==
    ASSUME DurableInv, PowerLoss
    PROVE  SyncedIsKept' /\ AckedIsSynced'
<1>t. TypeOK /\ StructInv
  BY DEF DurableInv, StructInv, LockInv
<1>s. StructInv' /\ TypeOK'
  BY <1>t, StructInvStep DEF StructInv, LockInv, Next
<1>1. PICK f \in {data[path], undone[path]} : \E k \in synced[path]..Len(f) :
        \E u \in 0..(IF k < Len(f) THEN f[k+1].units ELSE 0) :
          /\ data' = [i \in Inodes |-> IF i = path THEN CutTo(f, k, u) ELSE <<>>]
          /\ synced' = [i \in Inodes |-> IF i = path THEN Len(CutTo(f, k, u)) ELSE 0]
  BY DEF PowerLoss
<1>2. PICK k \in synced[path]..Len(f) :
        \E u \in 0..(IF k < Len(f) THEN f[k+1].units ELSE 0) :
          /\ data' = [i \in Inodes |-> IF i = path THEN CutTo(f, k, u) ELSE <<>>]
          /\ synced' = [i \in Inodes |-> IF i = path THEN Len(CutTo(f, k, u)) ELSE 0]
  BY <1>1
<1>3. PICK u \in 0..(IF k < Len(f) THEN f[k+1].units ELSE 0) :
        /\ data' = [i \in Inodes |-> IF i = path THEN CutTo(f, k, u) ELSE <<>>]
        /\ synced' = [i \in Inodes |-> IF i = path THEN Len(CutTo(f, k, u)) ELSE 0]
  BY <1>2
<1> DEFINE g == CutTo(f, k, u)
           d == data[path]
<1>4. path # None /\ path' = path /\ acked' = acked
  BY DEF PowerLoss
<1>5. /\ path \in Inodes /\ f \in Seq(Run) /\ WellFormed(f) /\ synced[path] \in Nat
      /\ d \in Seq(Run) /\ WellFormed(d) /\ FrameCount(d) \in Nat /\ FrameCount(d) <= Len(d)
  BY <1>t, <1>4, PathFileType
<1>6. k \in 0..Len(f) /\ k \in Nat /\ synced[path] <= k
  BY <1>5
<1>7. g \in Seq(Run) /\ WellFormed(g) /\ Len(g) >= k /\ \A j \in 1..k : g[j] = f[j]
  BY <1>5, <1>6, CutToWellFormed
<1>8. data'[path] = g /\ synced'[path] = Len(g) /\ Len(g) \in Nat
  BY <1>3, <1>5, <1>7
<1>9. SyncedIsKept'
  <2>1. \A i \in Inodes : synced'[i] <= Len(data'[i])
    BY <1>3, <1>7, <1>8
  <2>2. \A i \in Inodes : undone'[i] = <<>>
    BY DEF PowerLoss
  <2> QED
    BY <2>1, <2>2 DEF SyncedIsKept
<1>10. AckedIsSynced'
  <2> SUFFICES ASSUME acked # <<>>
               PROVE  AckedOf(data'[path], synced'[path], acked)
    BY <1>4 DEF AckedIsSynced, AckedOf
  <2>1. acked \in Seq(FrameSet) /\ Len(acked) \in Nat /\ AckedOf(d, synced[path], acked)
    BY <1>t DEF TypeOK, DurableInv, AckedIsSynced, AckedOf
  <2> DEFINE m == Len(acked) + 1
  <2>2. m \in Nat \ {0} /\ m <= synced[path] /\ m <= FrameCount(d) /\ m <= k
    BY <1>5, <1>6, <2>1 DEF AckedOf
  <2>3. \A j \in 1..synced[path] : f[j] = d[j]
    <3>1. CASE f = d
      BY <3>1
    <3>2. CASE f = undone[path]
      <4>1. f # <<>>
        BY <1>5, <1>6, <2>2
      <4> QED
        BY <1>5, <3>2, <4>1 DEF DurableInv, SyncedIsKept
    <3> QED
      BY <3>1, <3>2
  <2> HIDE DEF g, d, m
  <2>4. \A j \in 1..m : g[j] = d[j]
    BY <1>5, <1>6, <1>7, <2>2, <2>3
  <2>5. m <= Len(g) /\ m \in 1..FrameCount(d)
    BY <1>5, <1>6, <1>7, <1>8, <2>2
  <2>6. FrameCount(g) >= m
    BY <1>5, <1>7, <2>4, <2>5, CountAtLeast
  <2>7. \A j \in 1..Len(acked) : acked[j] = FrameOf(g[j+1])
    <3> SUFFICES ASSUME NEW j \in 1..Len(acked) PROVE acked[j] = FrameOf(g[j+1])
      OBVIOUS
    <3>1. j + 1 \in 1..m
      BY <2>1 DEF m
    <3> QED
      BY <2>1, <2>4, <3>1 DEF AckedOf
  <2>8. FrameCount(g) \in Nat
    BY <1>7, FrameCountType, RunsOfFile
  <2> QED
    BY <1>8, <2>2, <2>5, <2>6, <2>7, <2>8 DEF AckedOf, m
<1> QED
  BY <1>9, <1>10

LEMMA DurableInvInit == Init => DurableInv
<1> SUFFICES ASSUME Init PROVE DurableInv
  OBVIOUS
<1>1. SyncedIsKept
  BY DEF Init, SyncedIsKept
<1>2. AckedIsSynced
  BY DEF Init, AckedIsSynced
<1> QED
  BY <1>1, <1>2, StructInvInit DEF DurableInv

LEMMA DurableInvStep == DurableInv /\ [Next]_vars => DurableInv'
<1> SUFFICES ASSUME DurableInv, [Next]_vars PROVE DurableInv'
  OBVIOUS
<1>0. StructInv'
  BY StructInvStep DEF DurableInv
<1>1. ASSUME NEW p \in Procs, Caller(p) \/ Step(p) \/ Kill(p)
      PROVE  SyncedIsKept' /\ AckedIsSynced'
  BY <1>1, SyncedStep, AckedStep
<1>2. CASE PowerLoss
  BY <1>0, <1>2, PowerLossDurable DEF DurableInv
<1>3. CASE UNCHANGED vars
  BY <1>0, <1>3 DEF vars, DurableInv, SyncedIsKept, AckedIsSynced
<1> QED
  BY <1>0, <1>1, <1>2, <1>3 DEF Next, ProcessNext, DurableInv

LEMMA DurableInvHolds == Spec => []DurableInv
  BY DurableInvInit, DurableInvStep, PTL DEF Spec

\* The inductive invariant of sessions and repairs, which the runs check too.
THEOREM SafetyInvariant == Spec => []SafetyInv
<1>1. DurableInv => SafetyInv
  BY DEF DurableInv, StructInv, LockInv, SafetyInv
<1> QED
  BY <1>1, DurableInvHolds, PTL

LEMMA AckedPrefix == DurableInv => AckedSurvive
<1> SUFFICES ASSUME DurableInv PROVE AckedSurvive
  OBVIOUS
<1>t. TypeOK /\ StructInv
  BY DEF DurableInv, StructInv, LockInv
<1>0. acked \in Seq(FrameSet) /\ Len(acked) \in Nat /\ Len(Committed) \in Nat
  BY <1>t, CommittedType DEF TypeOK
<1>1. CASE acked = <<>>
  BY <1>0, <1>1 DEF AckedSurvive
<1>2. CASE acked # <<>>
  <2> DEFINE f == data[path]
  <2>1. path # None /\ AckedOf(f, synced[path], acked)
    BY <1>2 DEF DurableInv, AckedIsSynced, AckedOf
  <2>2. f \in Seq(Run) /\ FrameCount(f) \in Nat
    BY <1>t, <2>1, PathFileType
  <2>3. Committed = DataFrames(f)
    BY <2>1 DEF Committed
  <2> HIDE DEF f
  <2>4. /\ Len(Committed) = FrameCount(f) - 1
        /\ \A k \in 1..(FrameCount(f) - 1) : Committed[k] = FrameOf(f[k+1])
    BY <1>0, <2>1, <2>2, <2>3, DataFramesElements DEF AckedOf
  <2>5. Len(acked) <= Len(Committed)
    BY <1>0, <2>1, <2>2, <2>4 DEF AckedOf
  <2>6. \A k \in 1..Len(acked) : acked[k] = Committed[k]
    BY <1>0, <2>1, <2>2, <2>4, <2>5 DEF AckedOf
  <2> QED
    BY <2>5, <2>6 DEF AckedSurvive
<1> QED
  BY <1>1, <1>2

\* The frames Writer::sync or Writer::finish reported durable are the first
\* frames of the file for ever after: no session, crash, repair or loss of
\* power, with or without an unsynchronized truncation, takes one away.
THEOREM AcknowledgedSurvive == Spec => []AckedSurvive
  BY AckedPrefix, DurableInvHolds, PTL

-----------------------------------------------------------------------------
(* Repairs say what they did                                               *)

\* Who replies to a repair call, and at which point of it.
LEMMA WhoReplies ==
    ASSUME TypeOK, NEW p \in Procs, Caller(p) \/ Step(p) \/ Kill(p), NEW q \in Procs,
           reply'[q] # reply[q]
    PROVE  /\ p = q
           /\ reply'[q] = "unchanged" => pc[q] = "repair_truncate"
           /\ reply'[q] \in {"removed", "ok"} => pc[q] \in {"repair_sync", "repair_verify"}
<1> USE DEF At
<1>1. ASSUME NEW how \in Replies, reply' = [reply EXCEPT ![p] = how]
      PROVE  p = q /\ reply'[q] = how
  BY <1>1 DEF TypeOK
<1>2. CASE Open(p) \/ RepairOpen(p) \/ Create(p)
  <2>1. reply' = [reply EXCEPT ![p] = "none"]
    BY <1>2 DEF Open, RepairOpen, OpenHandle, Create
  <2> QED
    BY <1>1, <2>1 DEF Replies
<1>3. CASE OpenLockFails(p) \/ OpenScanFails(p) \/ OpenCheckFails(p)
  <2>1. reply' = [reply EXCEPT ![p] = "none"]
    BY <1>3 DEF OpenLockFails, OpenScanFails, OpenCheckFails, Return
  <2> QED
    BY <1>1, <2>1 DEF Replies
<1>4. CASE RepairLockFails(p) \/ RepairScanFails(p)
  <2>1. reply' = [reply EXCEPT ![p] = "refused"]
    BY <1>4 DEF RepairLockFails, RepairScanFails, Return
  <2> QED
    BY <1>1, <2>1 DEF Replies
<1>5. CASE RepairTruncateFails(p)
  <2>1. pc[p] = "repair_truncate"
    BY <1>5 DEF RepairTruncateFails
  <2>2. PICK how \in {"refused", "unchanged"} : reply' = [reply EXCEPT ![p] = how]
    BY <1>5 DEF RepairTruncateFails, Return
  <2> QED
    BY <1>1, <2>1, <2>2 DEF Replies
<1>6. CASE RepairSyncFails(p) \/ RepairVerify(p) \/ RepairVerifyFails(p)
  <2>1. pc[p] \in {"repair_sync", "repair_verify"}
    BY <1>6 DEF RepairSyncFails, RepairVerify, RepairVerifyFails
  <2>2. PICK how \in {"removed", "ok"} : reply' = [reply EXCEPT ![p] = how]
    BY <1>6 DEF RepairSyncFails, RepairVerify, RepairVerifyFails, Return
  <2> QED
    BY <1>1, <2>1, <2>2 DEF Replies
<1>7. CASE ~ \/ Open(p) \/ RepairOpen(p) \/ Create(p)
             \/ OpenLockFails(p) \/ OpenScanFails(p) \/ OpenCheckFails(p)
             \/ RepairLockFails(p) \/ RepairScanFails(p) \/ RepairTruncateFails(p)
             \/ RepairSyncFails(p) \/ RepairVerify(p) \/ RepairVerifyFails(p)
  <2>1. reply' = reply
    BY <1>7 DEF Caller, Step, Kill, Drop, CreateLock, OpenLock, RepairLock, AcquireLock,
         Cleanup, CreateLockFails, WriteInitialFails, BuildFrameFails, WriteFrameFails,
         FlushFails, OpenScan, OpenCheck, RepairScan, RepairSync, BeginAppend, BeginFlush,
         BuildFrame, AppendLoop, WriteInitial, WriteFrame, RepairTruncate, FlushDone,
         ReleaseFails
  <2> QED
    BY <2>1
<1> QED
  BY <1>2, <1>3, <1>4, <1>5, <1>6, <1>7

\* A repair that reports "unchanged" leaves an incomplete tail, and one that
\* reports "removed" or success leaves none: from the scan to the reply the
\* file is the one under the lock (BEFORE_TRUNCATION, AFTER_TRUNCATION).  A
\* reply that names no side, as those of a failing lock, scan or length check
\* do ("refused"), is left free.
THEOREM RepairsNameTheirSide == Spec => RepairNamesItsSide
<1> DEFINE TailLeft(q) == fd[q] # None /\ Walk(data[fd[q]]).incomplete_tail
           Names == \A q \in Procs : reply'[q] # reply[q] =>
                      /\ reply'[q] = "unchanged" => TailLeft(q)
                      /\ reply'[q] \in {"removed", "ok"} => ~TailLeft(q)
<1>1. ASSUME StructInv, NEW p \in Procs, Caller(p) \/ Step(p) \/ Kill(p) PROVE Names
  <2> SUFFICES ASSUME NEW q \in Procs, reply'[q] # reply[q]
               PROVE  /\ reply'[q] = "unchanged" => TailLeft(q)
                      /\ reply'[q] \in {"removed", "ok"} => ~TailLeft(q)
    OBVIOUS
  <2>t. TypeOK /\ HandlesHoldLocks /\ PointsKnowFile(q)
    BY <1>1 DEF StructInv, LockInv
  <2>1. /\ reply'[q] = "unchanged" => pc[q] = "repair_truncate"
        /\ reply'[q] \in {"removed", "ok"} => pc[q] \in {"repair_sync", "repair_verify"}
    BY <1>1, <2>t, WhoReplies
  <2>2. ASSUME pc[q] = "repair_truncate" PROVE TailLeft(q)
    <3>1. fd[q] # None
      BY <2>t, <2>2 DEF HandlesHoldLocks
    <3>2. Repairable(data[fd[q]])
      BY <2>t, <2>2 DEF PointsKnowFile
    <3> QED
      BY <3>1, <3>2 DEF Repairable
  <2>3. ASSUME pc[q] \in {"repair_sync", "repair_verify"} PROVE ~TailLeft(q)
    <3>1. fd[q] \in Inodes /\ data[fd[q]] \in Seq(Run) /\ Whole(data[fd[q]])
      BY <2>t, <2>3, OpenFileType DEF PointsKnowFile
    <3>2. FrameCount(data[fd[q]]) = Len(data[fd[q]]) /\ Len(data[fd[q]]) \in Nat
      BY <3>1, WholeFile, RunsOfFile DEF Whole
    <3>3. ~Walk(data[fd[q]]).incomplete_tail
      BY <3>1, <3>2, WellFormedWalk DEF Whole
    <3> QED
      BY <3>3
  <2> QED
    BY <2>1, <2>2, <2>3
<1>2. ASSUME StructInv, PowerLoss PROVE Names
  BY <1>2 DEF PowerLoss
<1>3. StructInv /\ [Next]_vars =>
        [ \A p \in Procs : reply'[p] # reply[p] =>
            LET torn == fd[p] # None /\ Walk(data[fd[p]]).incomplete_tail
            IN  /\ reply'[p] = "unchanged" => torn
                /\ reply'[p] \in {"removed", "ok"} => ~torn ]_vars
  BY <1>1, <1>2 DEF Next, ProcessNext
<1> QED
  BY <1>3, StructInvHolds, PTL DEF Spec, RepairNamesItsSide

-----------------------------------------------------------------------------
(* The path is a log                                                       *)

\* Every step but the creation of a file keeps the committed frames of a file,
\* whether the path names it or not.
LEMMA FileKeepsCommitted ==
    ASSUME StructInv, NEW p \in Procs, Caller(p) \/ Step(p) \/ Kill(p), ~Create(p),
           NEW i \in Inodes
    PROVE  KeepsCommitted(data[i], data'[i])
<1> DEFINE f == data[i]
<1>0. /\ f \in Seq(Run) /\ WellFormed(f)
      /\ FrameCount(f) \in Nat /\ FrameCount(f) <= Len(f) /\ Len(f) \in Nat
  <2>1. f \in Seq(Run) /\ WellFormed(f)
    BY DEF StructInv, LockInv, TypeOK, FilesWellFormed
  <2> QED
    BY <2>1, FrameCountType, RunsOfFile
<1>1. CASE data'[i] = f
  BY <1>0, <1>1 DEF KeepsCommitted
<1>2. CASE (WriteInitial(p) \/ WriteFrame(p)) /\ fd[p] = i
  <2>1. /\ Len(data'[i]) >= Len(f)
        /\ \A k \in 1..Len(f) : f[k].units = TotalLength(f[k]) => data'[i][k] = f[k]
    BY <1>2, WritesKeepRuns
  <2>2. data'[i] \in Seq(Run)
    BY <1>0, StructInvStep DEF StructInv, LockInv, TypeOK, Next, ProcessNext
  <2>3. Len(data'[i]) \in Nat
    BY <2>2, RunsOfFile
  <2> HIDE DEF f
  <2>4. ASSUME NEW k \in 1..FrameCount(f)
        PROVE  k <= Len(data'[i]) /\ data'[i][k] = f[k]
    <3>1. k \in 1..Len(f) /\ f[k].units = TotalLength(f[k])
      BY <1>0, CountedRunsComplete
    <3> QED
      BY <1>0, <2>1, <2>3, <3>1
  <2> QED
    BY <2>4 DEF KeepsCommitted, f
<1>3. CASE RepairTruncate(p) /\ fd[p] = i
  <2>1. Len(data'[i]) = FrameCount(f) /\ \A k \in 1..FrameCount(f) : data'[i][k] = f[k]
    BY <1>3, TruncateKeepsRuns
  <2> QED
    BY <1>0, <2>1 DEF KeepsCommitted
<1> QED
  BY <1>1, <1>2, <1>3, WhoWrites, WritesKeepRuns, TruncateKeepsRuns

LEMMA KeepsTransitive ==
    ASSUME NEW f \in Seq(Run), WellFormed(f), NEW g \in Seq(Run), WellFormed(g),
           NEW h \in Seq(Run), KeepsCommitted(f, g), KeepsCommitted(g, h)
    PROVE  KeepsCommitted(f, h)
<1>1. FrameCount(g) >= FrameCount(f) /\ FrameCount(f) \in Nat /\ FrameCount(g) \in Nat
  BY KeptFramesArePrefix, FrameCountType, RunsOfFile
<1> QED
  BY <1>1 DEF KeepsCommitted

\* What a truncation that is not on disk could bring back has no committed
\* frame that the file has not.
UndoneIsKept == \A i \in Inodes : KeepsCommitted(undone[i], data[i])

LogInv == DurableInv /\ UndoneIsKept

LEMMA EmptyIsKept ==
    ASSUME NEW g
    PROVE  KeepsCommitted(<<>>, g)
  BY EmptyCount DEF KeepsCommitted

LEMMA UndoneStep ==
    ASSUME LogInv, NEW p \in Procs, Caller(p) \/ Step(p) \/ Kill(p)
    PROVE  UndoneIsKept'
<1>t. StructInv /\ StructInv' /\ TypeOK /\ HandlesHoldLocks
  BY StructInvStep DEF LogInv, DurableInv, StructInv, LockInv, Next, ProcessNext
<1>f. \A i \in Inodes : /\ data[i] \in Seq(Run) /\ WellFormed(data[i])
                        /\ undone[i] \in Seq(Run) /\ WellFormed(undone[i])
                        /\ data'[i] \in Seq(Run) /\ WellFormed(data'[i])
  BY <1>t DEF StructInv, LockInv, TypeOK, FilesWellFormed
<1> SUFFICES ASSUME NEW i \in Inodes PROVE KeepsCommitted(undone'[i], data'[i])
  BY DEF UndoneIsKept
<1>1. CASE Create(p)
  <2>1. PICK j \in Inodes : /\ data' = [data EXCEPT ![j] = <<>>]
                            /\ undone' = [undone EXCEPT ![j] = <<>>]
    BY <1>1 DEF Create
  <2>2. \/ data'[i] = data[i] /\ undone'[i] = undone[i]
        \/ undone'[i] = <<>>
    BY <1>t, <2>1 DEF TypeOK
  <2> QED
    BY <2>2, EmptyIsKept DEF LogInv, UndoneIsKept
<1>2. CASE ~Create(p)
  <2>1. KeepsCommitted(data[i], data'[i])
    BY <1>2, <1>t, FileKeepsCommitted
  <2>2. CASE undone'[i] = undone[i]
    BY <1>f, <2>1, <2>2, KeepsTransitive DEF LogInv, UndoneIsKept
  <2>3. CASE RepairTruncate(p)
    <3>1. undone'[i] \in {undone[i], data[i]}
      BY <1>t, <2>3, TruncateKeepsRuns
    <3> QED
      BY <2>1, <2>2, <3>1
  <2>4. CASE SyncsFile(p)
    <3>1. undone'[i] \in {undone[i], <<>>}
      BY <1>t, <2>4 DEF SyncsFile, TypeOK
    <3> QED
      BY <2>2, <3>1, EmptyIsKept
  <2> QED
    BY <1>2, <2>2, <2>3, <2>4, WhoSyncs
<1> QED
  BY <1>1, <1>2

\* A prefix of the bytes of a file has no committed frame the file has not.
LEMMA CutKeeps ==
    ASSUME NEW f \in Seq(Run), WellFormed(f), NEW k \in 0..Len(f),
           NEW u \in 0..(IF k < Len(f) THEN f[k+1].units ELSE 0)
    PROVE  KeepsCommitted(CutTo(f, k, u), f)
<1> DEFINE g == CutTo(f, k, u)
<1>0. Len(f) \in Nat /\ k \in Nat /\ u \in Int
  BY RunsOfFile
<1>1. /\ g \in Seq(Run) /\ WellFormed(g) /\ Len(g) >= k /\ Len(g) \in Nat
      /\ \A j \in 1..k : g[j] = f[j]
  BY CutToWellFormed, RunsOfFile
<1>2. FrameCount(g) \in 0..Len(g)
  BY <1>1, FrameCountType
<1>3. SubSeq(f, 1, k) \in Seq(Run) /\ Len(SubSeq(f, 1, k)) = k
  BY PrefixRuns
<1>4. CASE u = 0 \/ k >= Len(f)
  <2>1. Len(g) = k
    BY <1>3, <1>4 DEF CutTo
  <2> QED
    BY <1>0, <1>1, <1>2, <2>1 DEF KeepsCommitted
<1>5. CASE u # 0 /\ k < Len(f)
  <2>0. k + 1 \in 1..Len(f) /\ f[k+1] \in Run
    BY <1>0, <1>5, RunsOfFile
  <2> DEFINE r == [f[k+1] EXCEPT !.units = u]
  <2>1. g = Append(SubSeq(f, 1, k), r) /\ r \in Run
    <3>1. u \in Nat \ {0}
      BY <1>5, <2>0 DEF Run
    <3>2. r \in Run
      BY <2>0, <3>1 DEF Run
    <3>3. ~(u = 0 \/ k >= Len(f))
      BY <1>0, <1>5
    <3> QED
      BY <3>2, <3>3 DEF CutTo
  <2>2. Len(g) = k + 1 /\ g[k+1] = r
    BY <1>3, <2>1
  <2>3. r.units = u /\ TotalLength(r) = TotalLength(f[k+1]) /\ u <= f[k+1].units
    BY <1>0, <1>5, <2>0 DEF Run, TotalLength
  <2>4. f[k+1].units <= TotalLength(f[k+1])
    BY <2>0 DEF WellFormed, WellFormedAt
  <2> HIDE DEF g, r
  <2>5. ASSUME k + 1 <= FrameCount(g) PROVE g[k+1] = f[k+1]
    <3>1. g[k+1].units = TotalLength(g[k+1])
      BY <1>0, <1>1, <1>2, <2>5, CountedRunsComplete
    <3>2. u = f[k+1].units
      BY <2>0, <2>2, <2>3, <2>4, <3>1, RunType
    <3>3. r = f[k+1]
      BY <2>0, <3>2 DEF r, Run
    <3> QED
      BY <2>2, <3>3
  <2>6. ASSUME NEW j \in 1..FrameCount(g) PROVE j <= Len(f) /\ f[j] = g[j]
    <3>1. j \in 1..k \/ (j = k + 1 /\ k + 1 <= FrameCount(g))
      BY <1>0, <1>1, <1>2, <2>2
    <3> QED
      BY <1>0, <1>1, <1>5, <2>0, <2>5, <3>1
  <2> QED
    BY <2>6 DEF KeepsCommitted, g
<1> QED
  BY <1>0, <1>4, <1>5

LEMMA LogInvInit == Init => LogInv
<1> SUFFICES ASSUME Init PROVE UndoneIsKept
  BY DurableInvInit DEF LogInv
<1> QED
  BY EmptyIsKept DEF Init, UndoneIsKept

LEMMA LogInvStep == LogInv /\ [Next]_vars => LogInv'
<1> SUFFICES ASSUME LogInv, [Next]_vars PROVE UndoneIsKept'
  BY DurableInvStep DEF LogInv
<1>1. CASE PowerLoss
  BY <1>1, EmptyIsKept DEF PowerLoss, UndoneIsKept
<1>2. CASE UNCHANGED vars
  BY <1>2 DEF vars, LogInv, UndoneIsKept
<1> QED
  BY <1>1, <1>2, UndoneStep DEF Next, ProcessNext

LEMMA LogInvHolds == Spec => []LogInv
  BY LogInvInit, LogInvStep, PTL DEF Spec

\* A loss of power takes committed frames from the end only, and none of those
\* that were reported durable.
LEMMA PowerLossLoses ==
    ASSUME LogInv, PowerLoss
    PROVE  Log!Lose
<1>t. StructInv /\ TypeOK /\ DurableInv' /\ StructInv'
  BY DurableInvStep DEF LogInv, DurableInv, StructInv, LockInv, Next
<1>1. path # None /\ path' = path /\ acked' = acked
  BY DEF PowerLoss
<1>a. PICK f \in {data[path], undone[path]} : \E k \in synced[path]..Len(f) :
        \E u \in 0..(IF k < Len(f) THEN f[k+1].units ELSE 0) :
          data' = [i \in Inodes |-> IF i = path THEN CutTo(f, k, u) ELSE <<>>]
  BY DEF PowerLoss
<1>2. PICK k \in synced[path]..Len(f) :
        \E u \in 0..(IF k < Len(f) THEN f[k+1].units ELSE 0) :
          data' = [i \in Inodes |-> IF i = path THEN CutTo(f, k, u) ELSE <<>>]
  BY <1>a
<1>3. PICK u \in 0..(IF k < Len(f) THEN f[k+1].units ELSE 0) :
        data' = [i \in Inodes |-> IF i = path THEN CutTo(f, k, u) ELSE <<>>]
  BY <1>2
<1> DEFINE d == data[path]
           g == CutTo(f, k, u)
<1>4. /\ path \in Inodes /\ f \in Seq(Run) /\ WellFormed(f) /\ synced[path] \in Nat
      /\ d \in Seq(Run) /\ WellFormed(d)
  BY <1>t, <1>1, PathFileType
<1>5. k \in 0..Len(f) /\ g \in Seq(Run) /\ WellFormed(g)
  BY <1>4, CutToWellFormed
<1>6. KeepsCommitted(g, f)
  BY <1>4, <1>5, CutKeeps
<1>7. KeepsCommitted(f, d)
  <2>1. CASE f = d
    BY <1>4, <2>1, FrameCountType, RunsOfFile DEF KeepsCommitted
  <2>2. CASE f = undone[path]
    BY <1>4, <2>2 DEF LogInv, UndoneIsKept
  <2> QED
    BY <2>1, <2>2
<1>8. KeepsCommitted(g, d)
  BY <1>4, <1>5, <1>6, <1>7, KeepsTransitive
<1>9. data'[path] = g
  BY <1>3, <1>4
<1> HIDE DEF g, d
<1>10. /\ Len(DataFrames(g)) <= Len(DataFrames(d))
       /\ SubSeq(DataFrames(d), 1, Len(DataFrames(g))) = DataFrames(g)
  BY <1>4, <1>5, <1>8, KeptFramesArePrefix
<1>11. Committed = DataFrames(d) /\ Committed' = DataFrames(g)
  BY <1>1, <1>9 DEF Committed, d
<1>12. Len(acked) <= Len(Committed') /\ Len(Committed') \in Nat
  <2>1. DurableInv'
    BY <1>t
  <2>2. AckedSurvive'
    BY <2>1, AckedPrefix, PTL
  <2>3. Committed' \in Seq(FrameSet)
    BY <1>5, <1>11, DataFramesType
  <2> QED
    BY <1>1, <2>2, <2>3 DEF AckedSurvive
<1>13. Len(Committed) \in Nat /\ Len(acked) \in Nat
  BY <1>t, CommittedType DEF TypeOK
<1> QED
  BY <1>1, <1>10, <1>11, <1>12, <1>13 DEF Log!Lose

\* A write completes at most one frame of the file.
LEMMA WriteGrowsByOne ==
    ASSUME StructInv, NEW p \in Procs, WriteInitial(p) \/ WriteFrame(p)
    PROVE  FrameCount(data'[fd[p]]) <= FrameCount(data[fd[p]]) + 1
<1> USE DEF At
<1> DEFINE f == data[fd[p]]
           g == data'[fd[p]]
<1>t. TypeOK /\ HandlesHoldLocks /\ PointsKnowFile(p) /\ TypeOK'
  BY StructInvStep DEF StructInv, LockInv, Next, ProcessNext, Step
<1>f. fd[p] \in Inodes /\ f \in Seq(Run) /\ WellFormed(f) /\ g \in Seq(Run)
  BY <1>t, OpenFileType DEF WriteInitial, WriteFrame, TypeOK, StructInv, FilesWellFormed
<1>n. /\ FrameCount(f) \in Nat /\ FrameCount(g) \in Nat /\ Len(f) \in Nat /\ Len(g) \in Nat
      /\ FrameCount(g) <= Len(g)
  BY <1>f, FrameCountType, RunsOfFile
<1>1. Len(g) <= FrameCount(f) + 1
  <2>1. CASE WriteInitial(p)
    <3>1. g = AppendUnit(f, SchemaFrame, writer[p].written)
      BY <1>f, <1>t, <2>1 DEF WriteInitial, TypeOK
    <3>2. CASE writer[p] = NoWriter /\ f = <<>>
      <4>1. g = Append(<<>>, [ sequence    |-> SchemaFrame.sequence,
                     base_row_id |-> SchemaFrame.base_row_id,
                     row_count   |-> SchemaFrame.row_count,
                     body        |-> SchemaFrame.body,
                     offset      |-> FileSize(<<>>),
                     units       |-> 1 ])
        BY <3>1, <3>2 DEF AppendUnit, NoWriter
      <4>2. Len(g) = 1
        BY <4>1
      <4> QED
        BY <1>n, <4>2
    <3>3. CASE /\ writer[p] = [NoWriter EXCEPT !.written = 1]
               /\ Len(f) = 1 /\ FrameOf(f[1]) = SchemaFrame /\ f[1].units = 1
      <4>1. writer[p].written = 1
        BY <3>3 DEF NoWriter
      <4>2. g = [f EXCEPT ![1].units = 2]
        BY <3>1, <3>3, <4>1 DEF AppendUnit
      <4>3. Len(g) = 1
        BY <1>f, <3>3, <4>2
      <4> QED
        BY <1>n, <4>3
    <3> QED
      BY <1>t, <2>1, <3>2, <3>3 DEF WriteInitial, PointsKnowFile
  <2>2. CASE WriteFrame(p)
    <3>0. PICK w \in Writers : w = writer[p]
      BY <1>t DEF TypeOK
    <3>1. g = AppendUnit(f, PendingFrame(w), w.written) /\ PendingFrame(w) \in FrameSet
      BY <1>f, <1>t, <2>2, <3>0, PendingFrameType DEF WriteFrame, TypeOK
    <3>2. CASE ContinuesFile(w, f)
      <4>1. g = Append(f, [ sequence    |-> PendingFrame(w).sequence,
                     base_row_id |-> PendingFrame(w).base_row_id,
                     row_count   |-> PendingFrame(w).row_count,
                     body        |-> PendingFrame(w).body,
                     offset      |-> FileSize(f),
                     units       |-> 1 ])
        BY <3>1, <3>2 DEF AppendUnit, ContinuesFile
      <4>2. Len(g) = Len(f) + 1
        BY <1>f, <4>1
      <4>3. FrameCount(f) = Len(f)
        BY <1>f, <3>2, WholeFile DEF ContinuesFile
      <4> QED
        BY <1>n, <4>2, <4>3
    <3>3. CASE WritingFrame(w, f)
      <4>1. f # <<>> /\ w.written \in Nat \ {0} /\ Len(f) \in 1..Len(f)
        BY <1>f, <3>3 DEF WritingFrame, Writers
      <4>2. g = [f EXCEPT ![Len(f)].units = w.written + 1]
        BY <3>1, <3>3, <4>1 DEF AppendUnit, WritingFrame
      <4>3. Len(g) = Len(f)
        BY <1>f, <4>2
      <4>4. FrameCount(f) >= Len(f) - 1
        BY <1>f, <1>n, <4>1, WellFormedCount
      <4> QED
        BY <1>n, <4>3, <4>4
    <3> QED
      BY <1>t, <2>2, <3>0, <3>2, <3>3 DEF WriteFrame, PointsKnowFile
  <2> QED
    BY <2>1, <2>2
<1> HIDE DEF f, g
<1>2. FrameCount(g) <= FrameCount(f) + 1
  BY <1>n, <1>1
<1> QED
  BY <1>2 DEF f, g

\* Of a well-formed file, a committed frame is the one that may follow the
\* committed frames before it.
LEMMA CommittedContinues ==
    ASSUME NEW g \in Seq(Run), WellFormed(g), NEW n \in Nat, n + 2 = FrameCount(g),
           NEW s \in Seq(FrameSet), Len(s) = n, \A j \in 1..n : s[j] = DataFrames(g)[j]
    PROVE  Log!Continues(s, DataFrames(g)[n+1])
<1> DEFINE t == DataFrames(g)
           m == FrameCount(g)
<1>0. Len(g) \in Nat /\ m \in 0..Len(g)
  BY FrameCountType, RunsOfFile
<1>1. \A k \in 1..(m - 1) : t[k] = FrameOf(g[k+1])
  BY <1>0, DataFramesElements
<1>2. n + 1 \in 1..(m - 1) /\ n + 2 \in 1..Len(g) /\ n + 2 > 1
  BY <1>0
<1> HIDE DEF t, m
<1>3. t[n+1] = FrameOf(g[n+2]) /\ WellFormedAt(g, n + 2) /\ g[n+2] \in Run
  <2>1. t[n+1] = FrameOf(g[(n + 1) + 1])
    BY <1>1, <1>2
  <2> QED
    BY <1>2, <2>1, RunsOfFile DEF WellFormed
<1>4. /\ t[n+1].sequence = n + 1
      /\ t[n+1].row_count > 0
      /\ t[n+1].base_row_id = ExpectedBase(g, n + 2)
  BY <1>2, <1>3 DEF WellFormedAt, FrameOf
<1>5. ASSUME RowIds
      PROVE  ExpectedBase(g, n + 2) = IF s = <<>> THEN 0
                                      ELSE s[Len(s)].base_row_id + s[Len(s)].row_count
  <2>1. CASE n = 0
    BY <1>5, <2>1 DEF ExpectedBase, FIRST_BASE_ROW_ID
  <2>2. CASE n # 0
    <3>1. s # <<>> /\ n \in 1..n /\ n \in 1..(m - 1) /\ ~(n + 2 <= 2)
      BY <1>0, <1>2, <2>2 DEF m
    <3>2. s[n] = FrameOf(g[n+1])
      BY <1>1, <3>1 DEF t
    <3>3. ExpectedBase(g, n + 2) = g[(n + 2) - 1].base_row_id + g[(n + 2) - 1].row_count
      BY <1>5, <3>1 DEF ExpectedBase
    <3>4. (n + 2) - 1 = n + 1
      OBVIOUS
    <3> QED
      BY <3>1, <3>2, <3>3, <3>4 DEF FrameOf
  <2> QED
    BY <2>1, <2>2
<1> QED
  BY <1>4, <1>5 DEF Log!Continues, t

\* A step of a process publishes one frame, reports all of them durable, or
\* leaves the log alone.
LEMMA StepIsLogStep ==
    ASSUME LogInv, NEW p \in Procs, Caller(p) \/ Step(p) \/ Kill(p)
    PROVE  Log!Next \/ UNCHANGED <<Committed, acked>>
<1>t. StructInv /\ TypeOK /\ HandlesHoldLocks /\ StructInv' /\ TypeOK'
  BY StructInvStep DEF LogInv, DurableInv, StructInv, LockInv, Next, ProcessNext
<1>1. CASE SyncsFile(p) /\ pc[p] = "flushed" /\ acked' = DataFrames(data[fd[p]])
  <2>1. fd[p] \in Inodes /\ fd[p] # None
    BY <1>1, <1>t, OpenFileType DEF HandlesHoldLocks
  <2>2. fd[p] = path
    BY <1>1, <1>t, <2>1, WritersFindHeader DEF StructInv, PathIsCreators
  <2>3. acked' = Committed /\ Committed' = Committed
    BY <1>1, <2>1, <2>2 DEF SyncsFile, Committed
  <2> QED
    BY <2>3 DEF Log!Next, Log!Acknowledge
<1>2. CASE acked' = acked /\ Committed' # Committed
  <2>0. /\ Committed \in Seq(FrameSet) /\ Committed' \in Seq(FrameSet)
        /\ Len(Committed) \in Nat /\ Len(Committed') \in Nat
    <3>1. CASE path' = None
      BY <1>t, <3>1, CommittedType DEF Committed
    <3>2. CASE path' # None
      <4>1. data'[path'] \in Seq(Run) /\ Committed' = DataFrames(data'[path'])
        BY <1>t, <3>2 DEF TypeOK, Committed
      <4>2. Committed' \in Seq(FrameSet)
        BY <4>1, DataFramesType
      <4> QED
        BY <1>t, <4>2, CommittedType
    <3> QED
      BY <3>1, <3>2
  <2>1. Len(Committed) <= Len(Committed') /\ SubSeq(Committed', 1, Len(Committed)) = Committed
    BY StepGrowsCommitted, <1>t
  <2>2. path' = path /\ path # None
    <3>1. CASE Create(p)
      <4>1. PICK i \in Inodes : path' = i /\ data' = [data EXCEPT ![i] = <<>>]
        BY <3>1 DEF Create
      <4>2. path' # None /\ data'[path'] = <<>>
        BY <1>t, <4>1, NoneAssumption DEF TypeOK
      <4>3. Committed' = <<>> /\ Committed = <<>>
        BY <3>1, <4>2, EmptyCount DEF Committed, DataFrames, Create
      <4> QED
        BY <1>2, <4>3
    <3>2. CASE Cleanup(p)
      <4>1. Committed' = <<>>
        BY <3>2 DEF Committed, Cleanup
      <4>2. Len(Committed) = 0
        BY <2>0, <2>1, <4>1
      <4> QED
        BY <1>2, <2>0, <4>1, <4>2
    <3>3. CASE path' = path
      <4>1. CASE path = None
        BY <1>2, <3>3, <4>1 DEF Committed
      <4> QED
        BY <3>3, <4>1
    <3> QED
      BY <3>1, <3>2, <3>3, WhoWrites
  <2> DEFINE f == data[path]
             g == data'[path]
  <2>3. /\ path \in Inodes /\ f \in Seq(Run) /\ g \in Seq(Run) /\ WellFormed(f) /\ WellFormed(g)
        /\ FrameCount(f) \in Nat /\ FrameCount(g) \in Nat
    <3>1. path \in Inodes /\ f \in Seq(Run) /\ WellFormed(f) /\ FrameCount(f) \in Nat
      BY <1>t, <2>2, PathFileType
    <3>2. g \in Seq(Run) /\ WellFormed(g)
      BY <1>t, <3>1 DEF StructInv, FilesWellFormed, TypeOK
    <3> QED
      BY <3>1, <3>2, FrameCountType, RunsOfFile
  <2>4. Committed = DataFrames(f) /\ Committed' = DataFrames(g)
    BY <2>2 DEF Committed
  <2>5. FrameCount(g) <= FrameCount(f) + 1
    <3>1. CASE g = f
      BY <2>3, <3>1
    <3>2. CASE (WriteInitial(p) \/ WriteFrame(p)) /\ fd[p] = path
      BY <1>t, <3>2, WriteGrowsByOne
    <3>3. CASE RepairTruncate(p) /\ fd[p] = path
      <4>1. Len(g) = FrameCount(f)
        BY <1>t, <3>3, TruncateKeepsRuns
      <4>2. FrameCount(g) \in 0..Len(g)
        BY <2>3, FrameCountType
      <4> QED
        BY <2>3, <4>1, <4>2
    <3>4. CASE Create(p)
      BY <2>2, <3>4 DEF Create
    <3> QED
      BY <1>t, <2>3, <3>1, <3>2, <3>3, <3>4, WhoWrites, WritesKeepRuns, TruncateKeepsRuns
  <2> HIDE DEF f, g
  <2>6. FrameCount(f) # 0 /\ FrameCount(g) # 0
    <3>1. /\ FrameCount(f) = 0 => Committed = <<>> /\ Len(Committed) = 0
          /\ FrameCount(g) = 0 => Len(Committed') = 0
          /\ FrameCount(g) # 0 => Len(Committed') = FrameCount(g) - 1
      BY <2>3, <2>4, DataFramesElements
    <3>2. Len(Committed') # 0
      <4>1. ASSUME Len(Committed') = 0 PROVE FALSE
        <5>1. Committed = <<>> /\ Committed' = <<>>
          BY <2>0, <2>1, <4>1
        <5> QED
          BY <1>2, <5>1
      <4> QED
        BY <4>1
    <3> QED
      BY <2>3, <2>5, <3>1, <3>2
  <2>7. Len(Committed) = FrameCount(f) - 1 /\ Len(Committed') = FrameCount(g) - 1
    BY <2>3, <2>4, <2>6, DataFramesElements
  <2> DEFINE n == Len(Committed)
  <2>8. Len(Committed') # n
    <3>1. ASSUME Len(Committed') = n PROVE FALSE
      <4>1. \A k \in 1..n : Committed'[k] = Committed[k]
        BY <2>0, <2>1, <3>1
      <4>2. Committed' = Committed
        BY <2>0, <3>1, <4>1, SeqEqual
      <4> QED
        BY <1>2, <4>2
    <3> QED
      BY <3>1
  <2>9. Len(Committed') = n + 1 /\ n + 2 = FrameCount(g)
    BY <2>0, <2>1, <2>3, <2>5, <2>7, <2>8
  <2>10. \A j \in 1..n : Committed[j] = DataFrames(g)[j]
    BY <2>0, <2>1, <2>4
  <2>11. Log!Continues(Committed, Committed'[n+1])
    BY <2>0, <2>3, <2>4, <2>9, <2>10, CommittedContinues
  <2> QED
    BY <1>2, <2>1, <2>9, <2>11 DEF Log!Next, Log!Publish
<1> QED
  BY <1>1, <1>2, WhoSyncs

\* Whatever sessions, repairs, crashes and power losses do to the path, its
\* users see the append-only log of ActaLog: frames are published one at a time
\* with contiguous sequence numbers and row IDs, sync and finish report exactly
\* what is there, and a loss of power takes a suffix nobody was promised.
THEOREM PathIsLog == Spec => ImplementsLog
<1>1. Init => Log!Init
  BY DEF Init, Log!Init, Committed
<1>2. LogInv /\ [Next]_vars => [Log!Next]_<<Committed, acked>>
  <2> SUFFICES ASSUME LogInv, [Next]_vars
               PROVE  Log!Next \/ UNCHANGED <<Committed, acked>>
    OBVIOUS
  <2>1. CASE PowerLoss
    BY <2>1, PowerLossLoses DEF Log!Next
  <2>2. CASE UNCHANGED vars
    BY <2>2 DEF vars, Committed
  <2> QED
    BY <2>1, <2>2, StepIsLogStep DEF Next, ProcessNext
<1> QED
  BY <1>1, <1>2, LogInvHolds, PTL DEF Spec, ImplementsLog, Log!Spec

-----------------------------------------------------------------------------
(* Readers and tails: the inductive invariant                              *)

Blocks == [frame : FrameSet, offset : Nat]

FrameOrNot == FrameSet \cup {NoFrame}

Snapshots == [ identity : Inodes \cup {None}, source : Inodes \cup {None},
               header : FrameOrNot, blocks : Seq(Blocks), file_size : Nat,
               last_good_offset : Nat, next_sequence : Nat, next_row_id : Nat,
               commit_anchor : FrameOrNot, incomplete_tail : BOOLEAN ]

Scans == [ identity : Inodes \cup {None}, handle : Inodes \cup {None},
           header : FrameOrNot, file_size : Nat, offset : Nat, sequence : Nat,
           expected_base : Nat, prefix : FrameOrNot, staged : Seq(Blocks),
           incomplete_tail : BOOLEAN ]

Tails == [ live : BOOLEAN, polling : BOOLEAN, next_block : Nat,
           file : Inodes \cup {None}, asked : Nat, batch : FrameOrNot ]

\* The points of a refresh before its walk, and those of a walk.
Anchoring == {"refresh_anchor", "refresh_scan"}

Walking == {"walk", "walk_body", "walk_end"}

\* The reader's variables: r is rpc, s the snapshot, c the scan, t the tail and o
\* the outcome.
ReaderType(r, s, c, t) ==
    /\ r \in {"closed", "open_file", "ready", "poll", "refresh_open"} \cup Anchoring \cup Walking
    /\ s \in Snapshots
    /\ c \in Scans
    /\ t \in Tails

Has(s) == s # R!NoSnapshot

\* Which calls are made with a snapshot, and which with a tail.
CallsMatch(r, s, t) ==
    /\ r \in {"closed", "open_file"} => ~Has(s)
    /\ r \in {"ready", "poll", "refresh_open"} \cup Anchoring => Has(s)
    /\ t.live => Has(s)
    /\ t.polling => t.live
    /\ r = "poll" => t.polling
    /\ r = "ready" => ~t.polling

\* Every part of the reader works on the file i.
OneFile(r, s, c, t, i) ==
    /\ Has(s) => s.source = i /\ s.identity \in Inodes
    /\ r \in Anchoring \cup Walking => c.handle = i /\ c.identity \in Inodes
    /\ r \in Anchoring \cup Walking /\ Has(s) => c.identity = s.identity
    /\ r = "open_file" => c.identity \in Inodes
    /\ t.live => t.file \in {None, i}

NotRefused(s, o) ==
    Has(s) /\ s.identity = s.source => o \notin {"file_replaced", "file_truncated"}

\* The blocks are the first data frames of f, in order and without a gap.
Holds(f, blocks) ==
    /\ Len(blocks) + 1 <= FrameCount(f)
    /\ \A k \in 1..Len(blocks) : /\ blocks[k].frame = FrameOf(f[k+1])
                                 /\ blocks[k].offset = f[k+1].offset

\* A walk of f goes on after its run n.
Resumes(f, n, offset, sequence, base) ==
    /\ offset = End(f, n)
    /\ sequence = n
    /\ RowIds => base = ExpectedBase(f, n + 1)

\* What a Reader knows of the file f it was opened on.
SnapshotOf(s, f) ==
    /\ Holds(f, s.blocks)
    /\ Resumes(f, Len(s.blocks) + 1, s.last_good_offset, s.next_sequence, s.next_row_id)
    /\ s.header = FrameOf(f[1])
    /\ s.commit_anchor = FrameOf(f[Len(s.blocks) + 1])

\* What a walk knows of it that has found these blocks.
ScanOf(c, blocks, f) ==
    /\ Holds(f, blocks)
    /\ Resumes(f, Len(blocks) + 1, c.offset, c.sequence, c.expected_base)
    /\ c.header = FrameOf(f[1])

\* What a tail knows of it: the frames committed when its poll began are within
\* the extent that the poll's refresh captures, until its walk has found them.
TailOf(r, s, c, t, o, f) ==
    /\ t.asked + 1 <= FrameCount(f)
    /\ t.next_block <= Len(s.blocks)
    /\ o = "batch" /\ t.batch # NoFrame =>
         t.next_block > 0 /\ t.batch = FrameOf(f[t.next_block + 1])
    /\ t.polling => t.batch = NoFrame
    /\ o = "pending" /\ ~t.polling => t.next_block >= t.asked
    /\ t.polling /\ r \in {"refresh_open"} \cup Anchoring \cup Walking =>
         t.next_block = Len(s.blocks)
    /\ t.polling /\ r \in {"refresh_anchor", "walk", "walk_body"} =>
         End(f, t.asked + 1) <= c.file_size
    /\ t.polling /\ r = "walk_end" => t.asked <= Len(s.blocks \o c.staged)

ReaderOf(r, s, c, t, o, f) ==
    /\ FrameCount(f) >= 1
    /\ Has(s) => SnapshotOf(s, f)
    /\ r \in Walking => ScanOf(c, s.blocks \o c.staged, f)
    /\ t.live => TailOf(r, s, c, t, o, f)

\* i is the file under the path, and f its contents.
ReaderInv(r, s, c, t, o, i, f) ==
    /\ ReaderType(r, s, c, t)
    /\ CallsMatch(r, s, t)
    /\ OneFile(r, s, c, t, i)
    /\ NotRefused(s, o)
    /\ Has(s) \/ r \in Walking => i # None /\ ReaderOf(r, s, c, t, o, f)

LiveInv ==
    /\ StructInv
    /\ ReaderInv(rpc, snapshot, scan, tail, outcome, path, data[path])

-----------------------------------------------------------------------------
(* Reads of a well-formed file                                             *)

\* The reader's operators on files are those of the processes.
LEMMA SameOperators ==
    ASSUME NEW x
    PROVE  /\ R!FrameOf(x) = FrameOf(x) /\ R!TotalLength(x) = TotalLength(x)
           /\ R!FileSize(x) = FileSize(x)
  BY DEF R!FrameOf, FrameOf, R!TotalLength, TotalLength, R!FileSize, FileSize

LEMMA SameDataFrames ==
    ASSUME NEW f
    PROVE  R!DataFrames(f) = DataFrames(f)
<1>1. ASSUME NEW k PROVE R!CompleteFrame(f, k) <=> CompleteFrame(f, k)
  BY DEF R!CompleteFrame, CompleteFrame, R!ExpectedBase, ExpectedBase,
         R!FIRST_BASE_ROW_ID, FIRST_BASE_ROW_ID, R!TotalLength, TotalLength
<1>2. R!FrameCount(f) = FrameCount(f)
  <2>1. {n \in 1..Len(f) : \A k \in 1..n : R!CompleteFrame(f, k)}
          = {n \in 1..Len(f) : \A k \in 1..n : CompleteFrame(f, k)}
    BY <1>1
  <2>2. ASSUME NEW S PROVE R!Cardinality(S) = Cardinality(S)
    BY DEF R!Cardinality, Cardinality, R!IsFiniteSet, IsFiniteSet
  <2> QED
    BY <2>1, <2>2 DEF R!FrameCount, FrameCount
<1> QED
  BY <1>2 DEF R!DataFrames, DataFrames, R!FrameOf, FrameOf

LEMMA FrameOfRun ==
    ASSUME NEW run \in Run
    PROVE  FrameOf(run) \in FrameSet
  BY DEF FrameOf, Run, FrameSet

LEMMA CommittedRun ==
    ASSUME NEW f \in Seq(Run), WellFormed(f), NEW n \in 1..FrameCount(f)
    PROVE  /\ n \in 1..Len(f) /\ n \in Nat /\ f[n] \in Run /\ f[n].units = TotalLength(f[n])
           /\ f[n].offset \in Nat /\ End(f, n) \in Nat
           /\ f[n].sequence = n - 1
           /\ FrameCount(f) \in Nat /\ Len(f) \in Nat
<1>1. FrameCount(f) \in Nat /\ Len(f) \in Nat
  BY FrameCountType, RunsOfFile
<1>2. n \in 1..Len(f) /\ f[n].units = TotalLength(f[n])
  BY CountedRunsComplete
<1>3. f[n].sequence = n - 1
  BY <1>2 DEF WellFormed, WellFormedAt
<1> QED
  BY <1>1, <1>2, <1>3, EndType

\* A complete run of a well-formed file is a committed frame.
LEMMA CompleteIsCommitted ==
    ASSUME NEW f \in Seq(Run), WellFormed(f), NEW k \in 1..Len(f),
           f[k].units = TotalLength(f[k])
    PROVE  k <= FrameCount(f)
<1>1. Len(f) \in Nat /\ f # <<>> /\ FrameCount(f) \in Nat
  BY FrameCountType, RunsOfFile
<1> QED
  BY <1>1, WellFormedCount

\* read_commit_trailer at the end of a committed frame finds that frame.
LEMMA TrailerOfRun ==
    ASSUME NEW f \in Seq(Run), WellFormed(f), NEW n \in 1..FrameCount(f)
    PROVE  R!CommitTrailer(f, End(f, n)) = FrameOf(f[n])
<1> DEFINE ending == {k \in 1..Len(f) : /\ f[k].offset + f[k].units = End(f, n)
                                        /\ f[k].units = R!TotalLength(f[k])}
<1>1. n \in ending
  BY CommittedRun, SameOperators DEF End
<1>2. \A k \in ending : k = n
  BY CommittedRun, RunsApart DEF End
<1>3. (CHOOSE k \in ending : TRUE) = n
  BY <1>1, <1>2
<1> QED
  BY <1>1, <1>3, SameOperators DEF R!CommitTrailer

\* The frame read at the offset of a committed frame is that frame.
LEMMA FrameAtRun ==
    ASSUME NEW f \in Seq(Run), WellFormed(f), NEW n \in 1..FrameCount(f)
    PROVE  R!FrameAt(f, f[n].offset) = FrameOf(f[n])
<1> DEFINE whole == {k \in R!Starts(f, f[n].offset) : f[k].units = R!TotalLength(f[k])}
<1>1. n \in whole
  BY CommittedRun, SameOperators DEF R!Starts
<1>2. \A k \in whole : k = n
  <2>1. n \in 1..Len(f)
    BY CommittedRun
  <2>2. \A k \in whole : k \in 1..Len(f) /\ f[k].offset = f[n].offset
    BY DEF R!Starts
  <2> QED
    BY <2>1, <2>2, RunsApart
<1>3. (CHOOSE k \in whole : TRUE) = n
  BY <1>1, <1>2
<1> QED
  BY <1>1, <1>3, SameOperators DEF R!FrameAt

\* A frame read behind a committed frame is the next committed frame.
LEMMA FrameAtNext ==
    ASSUME NEW f \in Seq(Run), WellFormed(f), NEW n \in 1..FrameCount(f),
           R!FrameAt(f, End(f, n)) # NoFrame
    PROVE  /\ n + 1 \in 1..FrameCount(f)
           /\ f[n+1].offset = End(f, n)
           /\ R!FrameAt(f, End(f, n)) = FrameOf(f[n+1])
<1> DEFINE whole == {k \in R!Starts(f, End(f, n)) : f[k].units = R!TotalLength(f[k])}
<1>0. n \in 1..Len(f) /\ n \in Nat /\ Len(f) \in Nat /\ FrameCount(f) \in Nat
  BY CommittedRun
<1>1. whole # {}
  BY DEF R!FrameAt
<1>2. \A k \in whole : k = n + 1
  BY <1>0, RunsApart DEF R!Starts
<1>3. (CHOOSE k \in whole : TRUE) = n + 1
  BY <1>1, <1>2
<1>4. n + 1 \in whole
  BY <1>1, <1>2
<1>5. n + 1 \in 1..Len(f) /\ f[n+1].offset = End(f, n) /\ f[n+1].units = TotalLength(f[n+1])
  BY <1>4, SameOperators DEF R!Starts
<1>6. n + 1 <= FrameCount(f)
  BY <1>5, CompleteIsCommitted
<1>7. R!FrameAt(f, End(f, n)) = R!FrameOf(f[n+1])
  BY <1>1, <1>3 DEF R!FrameAt
<1> QED
  BY <1>0, <1>5, <1>6, <1>7, SameOperators

\* A prefix read behind a committed frame is that of the next run.
LEMMA PrefixAtNext ==
    ASSUME NEW f \in Seq(Run), WellFormed(f), NEW n \in 1..FrameCount(f),
           R!PrefixAt(f, End(f, n)) # NoFrame
    PROVE  /\ n + 1 \in 1..Len(f)
           /\ f[n+1].offset = End(f, n)
           /\ R!PrefixAt(f, End(f, n)) = FrameOf(f[n+1])
<1> DEFINE starts == R!Starts(f, End(f, n))
<1>0. n \in 1..Len(f) /\ n \in Nat /\ Len(f) \in Nat
  BY CommittedRun
<1>1. starts # {}
  BY DEF R!PrefixAt
<1>2. \A k \in starts : k = n + 1 /\ k \in 1..Len(f) /\ f[k].offset = End(f, n)
  BY <1>0, RunsApart DEF R!Starts
<1>3. (CHOOSE k \in starts : TRUE) = n + 1
  BY <1>1, <1>2
<1>4. n + 1 \in starts
  BY <1>1, <1>2
<1> HIDE DEF starts
<1> QED
  BY <1>1, <1>2, <1>3, <1>4, SameOperators DEF R!PrefixAt, starts

-----------------------------------------------------------------------------
(* Steps of the processes                                                  *)

LEMMA HoldsKept ==
    ASSUME NEW f \in Seq(Run), WellFormed(f), NEW g \in Seq(Run), WellFormed(g),
           KeepsCommitted(f, g), NEW blocks \in Seq(Blocks), Holds(f, blocks)
    PROVE  Holds(g, blocks) /\ Len(blocks) + 1 \in 1..FrameCount(f)
<1>1. FrameCount(g) >= FrameCount(f) /\ FrameCount(f) \in Nat /\ FrameCount(g) \in Nat
  BY KeptFramesArePrefix, FrameCountType, RunsOfFile
<1>2. Len(blocks) \in Nat /\ Len(blocks) + 1 \in 1..FrameCount(f)
  BY <1>1 DEF Holds
<1>3. Len(blocks) + 1 <= FrameCount(g)
  BY <1>1, <1>2
<1>4. ASSUME NEW k \in 1..Len(blocks)
      PROVE  /\ blocks[k].frame = FrameOf(g[k+1])
             /\ blocks[k].offset = g[k+1].offset
  <2>1. k + 1 \in 1..FrameCount(f)
    BY <1>1, <1>2
  <2>2. g[k+1] = f[k+1]
    BY <2>1 DEF KeepsCommitted
  <2> QED
    BY <2>2 DEF Holds
<1> QED
  BY <1>2, <1>3, <1>4 DEF Holds

LEMMA ResumesKept ==
    ASSUME NEW f, NEW g, KeepsCommitted(f, g), NEW n \in 1..FrameCount(f), n \in Nat,
           NEW offset, NEW sequence, NEW base, Resumes(f, n, offset, sequence, base)
    PROVE  Resumes(g, n, offset, sequence, base) /\ End(g, n) = End(f, n)
<1>1. g[n] = f[n] /\ (n + 1) - 1 = n
  BY DEF KeepsCommitted
<1>2. End(g, n) = End(f, n)
  BY <1>1 DEF End
<1>3. ExpectedBase(g, n + 1) = ExpectedBase(f, n + 1)
  BY <1>1 DEF ExpectedBase
<1> QED
  BY <1>2, <1>3 DEF Resumes

\* What the reader knows of a file stays true while its frames are kept.
LEMMA ReaderKept ==
    ASSUME NEW f \in Seq(Run), WellFormed(f), NEW g \in Seq(Run), WellFormed(g),
           KeepsCommitted(f, g),
           NEW r, NEW s \in Snapshots, NEW c \in Scans, NEW t \in Tails, NEW o,
           t.live => Has(s), ReaderOf(r, s, c, t, o, f)
    PROVE  ReaderOf(r, s, c, t, o, g)
<1>1. FrameCount(g) >= FrameCount(f) /\ FrameCount(f) \in Nat /\ FrameCount(g) \in Nat
  BY KeptFramesArePrefix, FrameCountType, RunsOfFile
<1>2. FrameCount(f) >= 1 /\ g[1] = f[1]
  BY <1>1 DEF ReaderOf, KeepsCommitted
<1>3. ASSUME NEW blocks \in Seq(Blocks), NEW x, NEW y, NEW z, Holds(f, blocks),
             Resumes(f, Len(blocks) + 1, x, y, z)
      PROVE  /\ Holds(g, blocks) /\ Resumes(g, Len(blocks) + 1, x, y, z)
             /\ g[Len(blocks) + 1] = f[Len(blocks) + 1]
  <2>1. Holds(g, blocks) /\ Len(blocks) + 1 \in 1..FrameCount(f) /\ Len(blocks) \in Nat
    BY <1>3, HoldsKept
  <2>2. Resumes(g, Len(blocks) + 1, x, y, z)
    BY <1>3, <2>1, ResumesKept
  <2> QED
    BY <2>1, <2>2 DEF KeepsCommitted
<1>4. s.blocks \in Seq(Blocks) /\ c.staged \in Seq(Blocks)
  BY DEF Snapshots, Scans
<1>5. Has(s) => SnapshotOf(s, g)
  BY <1>2, <1>3, <1>4 DEF ReaderOf, SnapshotOf
<1>6. r \in Walking => ScanOf(c, s.blocks \o c.staged, g)
  <2>1. s.blocks \o c.staged \in Seq(Blocks)
    BY <1>4
  <2> QED
    BY <1>2, <1>3, <2>1 DEF ReaderOf, ScanOf
<1>7. ASSUME t.live PROVE TailOf(r, s, c, t, o, g)
  <2>0. TailOf(r, s, c, t, o, f)
    BY <1>7 DEF ReaderOf
  <2>1. t.asked \in Nat /\ t.next_block \in Nat
    BY DEF Tails
  <2>2. t.asked + 1 \in 1..FrameCount(f)
    BY <1>1, <2>0, <2>1 DEF TailOf
  <2>3. End(g, t.asked + 1) = End(f, t.asked + 1)
    BY <2>2 DEF End, KeepsCommitted
  <2>4. t.asked + 1 <= FrameCount(g)
    BY <1>1, <2>1, <2>2
  <2>5. ASSUME o = "batch", t.batch # NoFrame
        PROVE  g[t.next_block + 1] = f[t.next_block + 1]
    <3>1. Len(s.blocks) + 1 <= FrameCount(f) /\ Len(s.blocks) \in Nat
      BY <1>4, <1>7 DEF ReaderOf, SnapshotOf, Holds
    <3>2. t.next_block + 1 \in 1..FrameCount(f)
      BY <1>1, <2>0, <2>1, <3>1 DEF TailOf
    <3> QED
      BY <3>2 DEF KeepsCommitted
  <2> QED
    BY <2>0, <2>3, <2>4, <2>5 DEF TailOf
<1> QED
  BY <1>1, <1>2, <1>5, <1>6, <1>7 DEF ReaderOf

LEMMA PathFile ==
    ASSUME LiveInv, path # None
    PROVE  /\ path \in Inodes /\ data[path] \in Seq(Run) /\ WellFormed(data[path])
           /\ FrameCount(data[path]) \in Nat /\ Len(data[path]) \in Nat
           /\ FileSize(data[path]) \in Nat
<1>1. path \in Inodes /\ data[path] \in Seq(Run) /\ WellFormed(data[path])
  BY PathFileType DEF LiveInv
<1> QED
  BY <1>1, FrameCountType, RunsOfFile, FileSizeType

\* A process neither takes the path from a reader nor alters what it has seen.
LEMMA ProcessStep ==
    ASSUME LiveInv, NEW p \in Procs, Caller(p) \/ Step(p) \/ Kill(p), UNCHANGED readerVars
    PROVE  LiveInv'
<1>0. StructInv /\ StructInv'
  BY StructInvStep DEF LiveInv, Next, ProcessNext
<1>r. rpc' = rpc /\ snapshot' = snapshot /\ scan' = scan /\ tail' = tail /\ outcome' = outcome
  BY DEF readerVars
<1>i. ReaderInv(rpc, snapshot, scan, tail, outcome, path, data[path])
  BY DEF LiveInv
<1>1. CASE Has(snapshot) \/ rpc \in Walking
  <2> DEFINE f == data[path]
             g == data'[path]
  <2>1. path # None /\ ReaderOf(rpc, snapshot, scan, tail, outcome, f)
    BY <1>1, <1>i DEF ReaderInv
  <2>2. path \in Inodes /\ f \in Seq(Run) /\ WellFormed(f) /\ FrameCount(f) \in Nat
    BY <2>1, PathFile
  <2>3. FrameCount(f) # 0
    BY <2>1, <2>2 DEF ReaderOf
  <2>4. path' = path /\ KeepsCommitted(f, g)
    BY <1>0, <2>1, <2>3, StepKeepsPath, StepKeepsCommitted
  <2>5. g \in Seq(Run) /\ WellFormed(g)
    BY <1>0, <2>2 DEF StructInv, LockInv, TypeOK, FilesWellFormed
  <2> HIDE DEF f, g
  <2>6. /\ snapshot \in Snapshots /\ scan \in Scans /\ tail \in Tails
        /\ tail.live => Has(snapshot)
    BY <1>i DEF ReaderInv, ReaderType, CallsMatch
  <2>7. ReaderOf(rpc, snapshot, scan, tail, outcome, g)
    BY <2>1, <2>2, <2>4, <2>5, <2>6, ReaderKept
  <2>8. ReaderInv(rpc, snapshot, scan, tail, outcome, path, g)
    BY <1>i, <2>1, <2>7 DEF ReaderInv
  <2> QED
    BY <1>0, <1>r, <2>4, <2>8 DEF LiveInv, g
<1>2. CASE ~(Has(snapshot) \/ rpc \in Walking)
  <2>1. ~tail.live /\ rpc \notin Anchoring
    BY <1>2, <1>i DEF ReaderInv, CallsMatch
  <2>2. OneFile(rpc, snapshot, scan, tail, path')
    BY <1>2, <1>i, <2>1 DEF ReaderInv, OneFile
  <2>3. ReaderInv(rpc, snapshot, scan, tail, outcome, path', data'[path'])
    BY <1>2, <1>i, <2>2 DEF ReaderInv
  <2> QED
    BY <1>0, <1>r, <2>3 DEF LiveInv
<1> QED
  BY <1>1, <1>2

-----------------------------------------------------------------------------
(* Steps of the reader                                                     *)

\* The reader's invariant after a step that leaves the files alone.
LEMMA ReaderStepKeeps ==
    ASSUME LiveInv, UNCHANGED vars,
           ReaderInv(rpc', snapshot', scan', tail', outcome', path, data[path])
    PROVE  LiveInv'
<1>1. StructInv'
  BY StructInvStep DEF LiveInv
<1>2. path' = path /\ data' = data
  BY DEF vars
<1> QED
  BY <1>1, <1>2 DEF LiveInv

LEMMA NoValuesType ==
    /\ R!NoSnapshot \in Snapshots /\ R!NoSnapshot.blocks = <<>>
    /\ R!NoScan \in Scans /\ R!NoScan.staged = <<>>
    /\ R!NoTail \in Tails /\ ~R!NoTail.live /\ ~R!NoTail.polling
<1>1. NoFrame \in FrameOrNot
  BY DEF FrameOrNot
<1>2. <<>> \in Seq(Blocks)
  OBVIOUS
<1>3. R!NoSnapshot \in Snapshots /\ R!NoSnapshot.blocks = <<>>
  BY <1>1, <1>2 DEF R!NoSnapshot, Snapshots
<1>4. R!NoScan \in Scans /\ R!NoScan.staged = <<>>
  BY <1>1, <1>2 DEF R!NoScan, Scans
<1>5. R!NoTail \in Tails /\ ~R!NoTail.live /\ ~R!NoTail.polling
  BY <1>1 DEF R!NoTail, Tails
<1> QED
  BY <1>3, <1>4, <1>5

\* A call that fails leaves the reader where it was, with the same snapshot.
LEMMA FailedCall ==
    ASSUME LiveInv, NEW kind, R!FailCall(kind), kind \notin {"batch", "pending"},
           NotRefused(snapshot, kind)
    PROVE  ReaderInv(rpc', snapshot', scan', tail', outcome', path, data[path])
<1> DEFINE f == data[path]
<1>i. ReaderInv(rpc, snapshot, scan, tail, outcome, path, f)
  BY DEF LiveInv
<1>t. snapshot \in Snapshots /\ scan \in Scans /\ tail \in Tails
  BY <1>i DEF ReaderInv, ReaderType
<1>1. /\ rpc' = IF Has(snapshot) THEN "ready" ELSE "closed"
      /\ outcome' = kind /\ scan' = R!NoScan /\ snapshot' = snapshot
      /\ tail' = [tail EXCEPT !.polling = FALSE]
  BY DEF R!FailCall, R!HasSnapshot, Has
<1>2. /\ tail' \in Tails /\ ~tail'.polling /\ tail'.live = tail.live /\ tail'.asked = tail.asked
      /\ tail'.next_block = tail.next_block /\ tail'.file = tail.file
  BY <1>1, <1>t DEF Tails
<1>3. ReaderType(rpc', snapshot', scan', tail')
  BY <1>1, <1>2, <1>t, NoValuesType DEF ReaderType
<1>4. CallsMatch(rpc', snapshot', tail')
  BY <1>1, <1>2, <1>i DEF ReaderInv, CallsMatch, Anchoring
<1>5. OneFile(rpc', snapshot', scan', tail', path)
  BY <1>1, <1>2, <1>i DEF ReaderInv, OneFile, Anchoring, Walking
<1>6. NotRefused(snapshot', outcome')
  BY <1>1
<1>7. ASSUME Has(snapshot') \/ rpc' \in Walking
      PROVE  path # None /\ ReaderOf(rpc', snapshot', scan', tail', outcome', f)
  <2>1. Has(snapshot)
    BY <1>1, <1>7 DEF Walking
  <2>2. path # None /\ ReaderOf(rpc, snapshot, scan, tail, outcome, f)
    BY <1>i, <2>1 DEF ReaderInv
  <2>3. tail'.live => TailOf(rpc', snapshot', scan', tail', outcome', f)
    BY <1>1, <1>2, <2>2 DEF ReaderOf, TailOf
  <2> QED
    BY <1>1, <2>1, <2>2, <2>3 DEF ReaderOf, Walking
<1> QED
  BY <1>3, <1>4, <1>5, <1>6, <1>7 DEF ReaderInv
LEMMA ReaderFacts ==
    ASSUME LiveInv
    PROVE  /\ snapshot \in Snapshots /\ scan \in Scans /\ tail \in Tails
           /\ snapshot.blocks \in Seq(Blocks) /\ scan.staged \in Seq(Blocks)
           /\ CallsMatch(rpc, snapshot, tail)
           /\ OneFile(rpc, snapshot, scan, tail, path)
           /\ NotRefused(snapshot, outcome)
           /\ Has(snapshot) \/ rpc \in Walking =>
                /\ path # None
                /\ ReaderOf(rpc, snapshot, scan, tail, outcome, data[path])
  BY DEF LiveInv, ReaderInv, ReaderType, Snapshots, Scans

\* The blocks of a snapshot end within the file.
LEMMA SnapshotWithinFile ==
    ASSUME NEW f \in Seq(Run), WellFormed(f), NEW s \in Snapshots, SnapshotOf(s, f)
    PROVE  /\ Len(s.blocks) + 1 \in 1..FrameCount(f) /\ Len(s.blocks) + 1 \in 1..Len(f)
           /\ s.last_good_offset = End(f, Len(s.blocks) + 1)
           /\ s.last_good_offset <= FileSize(f)
<1>1. Len(s.blocks) \in Nat /\ FrameCount(f) \in Nat
  <2>1. s.blocks \in Seq(Blocks)
    BY DEF Snapshots
  <2> QED
    BY <2>1, FrameCountType, RunsOfFile
<1>2. Len(s.blocks) + 1 \in 1..FrameCount(f)
  BY <1>1 DEF SnapshotOf, Holds
<1>3. Len(s.blocks) + 1 \in 1..Len(f)
  BY <1>2, CommittedRun
<1> QED
  BY <1>2, <1>3, EndWithinFile DEF SnapshotOf, Resumes

LEMMA OpenIdentityStep ==
    ASSUME LiveInv, R!OpenIdentity
    PROVE  ReaderInv(rpc', snapshot', scan', tail', outcome', path, data[path])
<1>1. /\ rpc = "closed" /\ rpc' = "open_file" /\ path # None /\ snapshot' = snapshot /\ tail' = tail
      /\ scan' = [R!NoScan EXCEPT !.identity = path] /\ outcome' = "none"
  BY DEF R!OpenIdentity
<1>2. path \in Inodes
  BY <1>1, PathFile
<1>3. scan' \in Scans /\ scan'.identity = path
  BY <1>1, <1>2, NoValuesType DEF Scans
<1>4. ReaderType(rpc', snapshot', scan', tail')
  BY <1>1, <1>3, ReaderFacts DEF ReaderType
<1>5. ~Has(snapshot) /\ ~tail.live /\ ~tail.polling
  BY <1>1, ReaderFacts DEF CallsMatch
<1>6. CallsMatch(rpc', snapshot', tail')
  BY <1>1, <1>5 DEF CallsMatch, Anchoring
<1>7. OneFile(rpc', snapshot', scan', tail', path)
  BY <1>1, <1>2, <1>3, <1>5 DEF OneFile, Anchoring, Walking
<1>8. ~Has(snapshot') /\ rpc' \notin Walking
  BY <1>1, <1>5 DEF Walking
<1> QED
  BY <1>4, <1>6, <1>7, <1>8 DEF ReaderInv, NotRefused

\* A walk that begins after the last block of the snapshot.
LEMMA StartScanStep ==
    ASSUME LiveInv, path # None, NEW offset \in Nat, NEW sequence \in Nat, NEW base \in Nat,
           R!StartScan(path, offset, sequence, base),
           rpc \in {"open_file", "refresh_scan"},
           Holds(data[path], snapshot.blocks),
           Resumes(data[path], Len(snapshot.blocks) + 1, offset, sequence, base)
    PROVE  ReaderInv(rpc', snapshot', scan', tail', outcome', path, data[path])
<1> DEFINE f == data[path]
<1>f. /\ path \in Inodes /\ f \in Seq(Run) /\ WellFormed(f) /\ FrameCount(f) \in Nat
      /\ FileSize(f) \in Nat /\ Len(f) \in Nat
  BY PathFile
<1>1. /\ Len(f) >= 1
      /\ scan' = [R!NoScan EXCEPT !.identity = scan.identity, !.handle = path,
                    !.header = FrameOf(f[1]), !.file_size = FileSize(f), !.offset = offset,
                    !.sequence = sequence, !.expected_base = base]
      /\ rpc' = "walk" /\ snapshot' = snapshot /\ tail' = tail /\ outcome' = outcome
  BY SameOperators DEF R!StartScan
<1>2. FrameOf(f[1]) \in FrameSet
  <2>1. 1 \in 1..Len(f)
    BY <1>1, <1>f
  <2> QED
    BY <2>1, <1>f, EndType, FrameOfRun
<1>h. scan.identity \in Inodes /\ (Has(snapshot) => scan.identity = snapshot.identity)
  BY ReaderFacts DEF OneFile, CallsMatch, Anchoring
<1> HIDE DEF f
<1>3. /\ scan' \in Scans /\ scan'.identity = scan.identity /\ scan'.handle = path
      /\ scan'.header = FrameOf(f[1]) /\ scan'.file_size = FileSize(f) /\ scan'.offset = offset
      /\ scan'.sequence = sequence /\ scan'.expected_base = base /\ scan'.staged = <<>>
  BY <1>1, <1>2, <1>f, <1>h, NoValuesType DEF Scans, FrameOrNot
<1>4. ReaderType(rpc', snapshot', scan', tail')
  BY <1>1, <1>3, ReaderFacts DEF ReaderType, Walking
<1>5. CallsMatch(rpc', snapshot', tail')
  BY <1>1, ReaderFacts DEF CallsMatch, Anchoring
<1>6. OneFile(rpc', snapshot', scan', tail', path)
  BY <1>1, <1>3, <1>h, ReaderFacts DEF OneFile, Anchoring, Walking
<1>7. NotRefused(snapshot', outcome')
  BY <1>1, ReaderFacts
<1>8. FrameCount(f) >= 1
  <2>1. Len(snapshot.blocks) + 1 <= FrameCount(f) /\ Len(snapshot.blocks) \in Nat
    BY ReaderFacts DEF Holds, f
  <2> QED
    BY <2>1, <1>f
<1>9. Has(snapshot) => ReaderOf(rpc, snapshot, scan, tail, outcome, f)
  BY ReaderFacts DEF f
<1>10. ScanOf(scan', snapshot'.blocks \o scan'.staged, f)
  <2>1. snapshot'.blocks \o scan'.staged = snapshot.blocks
    BY <1>1, <1>3, ReaderFacts, ConcatEmptySeq
  <2> QED
    BY <1>3, <2>1 DEF ScanOf, f
<1>11. ASSUME tail'.live PROVE TailOf(rpc', snapshot', scan', tail', outcome', f)
  <2>1. Has(snapshot) /\ tail.live /\ rpc # "open_file"
    BY <1>1, <1>11, ReaderFacts DEF CallsMatch
  <2>2. TailOf(rpc, snapshot, scan, tail, outcome, f) /\ tail.asked \in Nat
    BY <1>9, <2>1, ReaderFacts DEF ReaderOf, Tails
  <2>3. tail.asked + 1 \in 1..FrameCount(f)
    BY <1>f, <2>2 DEF TailOf
  <2>4. End(f, tail.asked + 1) <= FileSize(f)
    BY <1>f, <2>3, CommittedRun, EndWithinFile
  <2> QED
    BY <1>1, <1>3, <2>1, <2>2, <2>4 DEF TailOf, Anchoring
<1>12. ReaderOf(rpc', snapshot', scan', tail', outcome', f)
  BY <1>1, <1>8, <1>9, <1>10, <1>11 DEF ReaderOf
<1> QED
  BY <1>4, <1>5, <1>6, <1>7, <1>12 DEF ReaderInv, f

LEMMA OpenFileStep ==
    ASSUME LiveInv, R!OpenFile
    PROVE  ReaderInv(rpc', snapshot', scan', tail', outcome', path, data[path])
<1> DEFINE f == data[path]
<1>0. rpc = "open_file" /\ ~Has(snapshot) /\ snapshot.blocks = <<>>
  BY ReaderFacts, NoValuesType DEF R!OpenFile, CallsMatch, Has
<1>1. CASE R!FailCall("io") \/ R!FailCall("incomplete_schema")
  <2>1. NotRefused(snapshot, "io") /\ NotRefused(snapshot, "incomplete_schema")
    BY DEF NotRefused
  <2> QED
    BY <1>1, <2>1, FailedCall
<1>2. CASE /\ path # None
           /\ R!StartScan(path, R!TotalLength(f[1]), R!FIRST_DATA_FRAME_SEQUENCE,
                          R!FIRST_BASE_ROW_ID)
  <2>f. /\ f \in Seq(Run) /\ WellFormed(f) /\ FrameCount(f) \in Nat /\ Len(f) \in Nat
    BY <1>2, PathFile
  <2>1. Len(f) >= 1 /\ f[1].units = TotalLength(f[1])
    BY <1>2, SameOperators DEF R!StartScan
  <2>2. FrameCount(f) >= 1 /\ 1 \in 1..FrameCount(f)
    BY <2>f, <2>1, WellFormedWalk DEF HeaderComplete, HasSchemaFrame
  <2>3. f[1].offset = 0 /\ f[1].units \in Nat
    BY <2>f, <2>1, EndType DEF WellFormed, WellFormedAt
  <2>4. TotalLength(f[1]) = End(f, 1) /\ End(f, 1) \in Nat
    BY <2>1, <2>3 DEF End
  <2>5. Holds(f, snapshot.blocks)
    BY <1>0, <2>2 DEF Holds
  <2>6. Resumes(f, Len(snapshot.blocks) + 1, TotalLength(f[1]), 1, 0)
    BY <1>0, <2>4 DEF Resumes, ExpectedBase, FIRST_BASE_ROW_ID
  <2>7. R!StartScan(path, TotalLength(f[1]), 1, 0)
    BY <1>2, SameOperators DEF R!FIRST_DATA_FRAME_SEQUENCE, R!FIRST_BASE_ROW_ID
  <2> QED
    BY <1>0, <1>2, <2>4, <2>5, <2>6, <2>7, StartScanStep
<1> QED
  BY <1>1, <1>2 DEF R!OpenFile

LEMMA RefreshIdentityStep ==
    ASSUME LiveInv, R!RefreshIdentity, rpc \in {"ready", "poll"},
           rpc = "poll" => tail.next_block >= Len(snapshot.blocks)
    PROVE  ReaderInv(rpc', snapshot', scan', tail', outcome', path, data[path])
<1> DEFINE f == data[path]
<1>0. /\ Has(snapshot) /\ path # None /\ snapshot.source = path
      /\ ReaderOf(rpc, snapshot, scan, tail, outcome, f)
  BY ReaderFacts DEF CallsMatch, OneFile
<1>1. CASE path # snapshot.identity /\ R!FailCall("file_replaced")
  <2>1. NotRefused(snapshot, "file_replaced")
    BY <1>0, <1>1 DEF NotRefused
  <2> QED
    BY <1>1, <2>1, FailedCall
<1>2. CASE /\ rpc' = "refresh_open" /\ outcome' = "none"
           /\ snapshot' = snapshot /\ scan' = scan /\ tail' = tail
  <2>1. ReaderType(rpc', snapshot', scan', tail')
    BY <1>2, ReaderFacts DEF ReaderType
  <2>2. CallsMatch(rpc', snapshot', tail')
    BY <1>0, <1>2, ReaderFacts DEF CallsMatch, Anchoring
  <2>3. OneFile(rpc', snapshot', scan', tail', path)
    BY <1>2, ReaderFacts DEF OneFile, Anchoring, Walking
  <2>4. NotRefused(snapshot', outcome')
    BY <1>2 DEF NotRefused
  <2>5. ASSUME tail.live PROVE TailOf(rpc', snapshot', scan', tail', outcome', f)
    <3>1. TailOf(rpc, snapshot, scan, tail, outcome, f)
      BY <1>0, <2>5 DEF ReaderOf
    <3>2. tail.next_block \in Nat /\ Len(snapshot.blocks) \in Nat
      BY ReaderFacts DEF Tails
    <3>3. tail.polling => tail.next_block = Len(snapshot.blocks)
      BY <3>1, <3>2, ReaderFacts DEF TailOf, CallsMatch
    <3> QED
      BY <1>2, <3>1, <3>3 DEF TailOf, Anchoring, Walking
  <2>6. ReaderOf(rpc', snapshot', scan', tail', outcome', f)
    BY <1>0, <1>2, <2>5 DEF ReaderOf, Walking
  <2> QED
    BY <1>0, <2>1, <2>2, <2>3, <2>4, <2>6 DEF ReaderInv
<1> QED
  BY <1>0, <1>1, <1>2 DEF R!RefreshIdentity
LEMMA RefreshOpenStep ==
    ASSUME LiveInv, R!RefreshOpen
    PROVE  ReaderInv(rpc', snapshot', scan', tail', outcome', path, data[path])
<1> DEFINE f == data[path]
<1>0. /\ rpc = "refresh_open" /\ Has(snapshot) /\ path # None
      /\ snapshot.identity \in Inodes
      /\ ReaderOf(rpc, snapshot, scan, tail, outcome, f)
  BY ReaderFacts DEF R!RefreshOpen, CallsMatch, OneFile
<1>f. /\ path \in Inodes /\ f \in Seq(Run) /\ WellFormed(f) /\ FrameCount(f) \in Nat
      /\ FileSize(f) \in Nat
  BY <1>0, PathFile
<1>1. FileSize(f) >= snapshot.last_good_offset
  <2>1. SnapshotOf(snapshot, f) /\ snapshot \in Snapshots
    BY <1>0, ReaderFacts DEF ReaderOf
  <2> HIDE DEF f
  <2>2. snapshot.last_good_offset <= FileSize(f) /\ snapshot.last_good_offset \in Nat
    BY <1>f, <2>1, SnapshotWithinFile DEF Snapshots
  <2> QED
    BY <1>f, <2>2
<1>2. /\ scan' = [R!NoScan EXCEPT !.handle = path, !.identity = snapshot.identity,
                                  !.file_size = FileSize(f)]
      /\ rpc' = "refresh_anchor" /\ snapshot' = snapshot /\ tail' = tail /\ outcome' = outcome
  <2>1. ~(FileSize(f) < snapshot.last_good_offset)
    BY <1>1, <1>f, ReaderFacts DEF Snapshots
  <2> QED
    BY <1>0, <2>1, SameOperators DEF R!RefreshOpen
<1> HIDE DEF f
<1>3. /\ scan' \in Scans /\ scan'.handle = path /\ scan'.identity = snapshot.identity
      /\ scan'.file_size = FileSize(f)
  BY <1>0, <1>2, <1>f, NoValuesType DEF Scans
<1>4. ReaderType(rpc', snapshot', scan', tail')
  BY <1>2, <1>3, ReaderFacts DEF ReaderType, Anchoring
<1>5. CallsMatch(rpc', snapshot', tail')
  BY <1>0, <1>2, ReaderFacts DEF CallsMatch, Anchoring
<1>6. OneFile(rpc', snapshot', scan', tail', path)
  BY <1>0, <1>2, <1>3, ReaderFacts DEF OneFile, Anchoring
<1>7. NotRefused(snapshot', outcome')
  BY <1>2, ReaderFacts
<1>8. ASSUME tail.live PROVE TailOf(rpc', snapshot', scan', tail', outcome', f)
  <2>1. TailOf(rpc, snapshot, scan, tail, outcome, f) /\ tail.asked \in Nat
    BY <1>0, <1>8, ReaderFacts DEF ReaderOf, Tails
  <2>2. tail.asked + 1 \in 1..FrameCount(f)
    BY <1>f, <2>1 DEF TailOf
  <2>3. End(f, tail.asked + 1) <= FileSize(f)
    BY <1>f, <2>2, CommittedRun, EndWithinFile
  <2> QED
    BY <1>0, <1>2, <1>3, <2>1, <2>3 DEF TailOf, Anchoring, Walking
<1>9. ReaderOf(rpc', snapshot', scan', tail', outcome', f)
  BY <1>0, <1>2, <1>8 DEF ReaderOf, Walking
<1> QED
  BY <1>0, <1>4, <1>5, <1>6, <1>7, <1>9 DEF ReaderInv, f

\* A refresh that succeeds: new is the snapshot it leaves, which holds every
\* block the tail has seen and, when nothing was added, all it asked for.
LEMMA RefreshedStep ==
    ASSUME LiveInv, Has(snapshot), path # None, NEW added \in Nat, R!Refreshed(added),
           snapshot' \in Snapshots, Has(snapshot'), SnapshotOf(snapshot', data[path]),
           snapshot'.source = path, snapshot'.identity = snapshot.identity,
           Len(snapshot.blocks) <= Len(snapshot'.blocks),
           tail.live /\ tail.polling /\ added = 0 => tail.next_block >= tail.asked
    PROVE  ReaderInv(rpc', snapshot', scan', tail', outcome', path, data[path])
<1> DEFINE f == data[path]
<1>0. ReaderOf(rpc, snapshot, scan, tail, outcome, f) /\ FrameCount(f) >= 1
  BY ReaderFacts DEF ReaderOf
<1>i. snapshot.identity \in Inodes /\ snapshot.source = path
  BY ReaderFacts DEF OneFile
<1>l. Len(snapshot.blocks) \in Nat /\ Len(snapshot'.blocks) \in Nat /\ tail.next_block \in Nat
  BY ReaderFacts DEF Snapshots, Tails
<1>1. CASE /\ tail.polling /\ added > 0 /\ rpc' = "poll" /\ scan' = R!NoScan
           /\ tail' = tail /\ outcome' = outcome
  <2>1. ReaderType(rpc', snapshot', scan', tail')
    BY <1>1, NoValuesType, ReaderFacts DEF ReaderType
  <2>2. CallsMatch(rpc', snapshot', tail')
    BY <1>1, ReaderFacts DEF CallsMatch, Anchoring
  <2>3. OneFile(rpc', snapshot', scan', tail', path)
    BY <1>1, <1>i, ReaderFacts DEF OneFile, Anchoring, Walking
  <2>4. NotRefused(snapshot', outcome')
    BY <1>1, <1>i, ReaderFacts DEF NotRefused
  <2>5. tail.live => TailOf(rpc', snapshot', scan', tail', outcome', f)
    BY <1>0, <1>1, <1>l DEF ReaderOf, TailOf, Anchoring, Walking
  <2>6. ReaderOf(rpc', snapshot', scan', tail', outcome', f)
    BY <1>0, <1>1, <2>5 DEF ReaderOf, Walking
  <2> QED
    BY <2>1, <2>2, <2>3, <2>4, <2>6 DEF ReaderInv
<1>2. CASE /\ rpc' = "ready" /\ scan' = R!NoScan
           /\ tail' = [tail EXCEPT !.polling = FALSE]
           /\ outcome' = IF tail.polling THEN "pending" ELSE "refreshed"
           /\ tail.polling => added = 0
  <2>0. /\ tail' \in Tails /\ ~tail'.polling /\ tail'.live = tail.live /\ tail'.asked = tail.asked
        /\ tail'.next_block = tail.next_block /\ tail'.file = tail.file
    BY <1>2, ReaderFacts DEF Tails
  <2>1. ReaderType(rpc', snapshot', scan', tail')
    BY <1>2, <2>0, NoValuesType DEF ReaderType
  <2>2. CallsMatch(rpc', snapshot', tail')
    BY <1>2, <2>0 DEF CallsMatch, Anchoring
  <2>3. OneFile(rpc', snapshot', scan', tail', path)
    BY <1>2, <1>i, <2>0, ReaderFacts DEF OneFile, Anchoring, Walking
  <2>4. NotRefused(snapshot', outcome')
    BY <1>2 DEF NotRefused
  <2>5. tail'.live => TailOf(rpc', snapshot', scan', tail', outcome', f)
    BY <1>0, <1>2, <1>l, <2>0 DEF ReaderOf, TailOf, Anchoring, Walking
  <2>6. ReaderOf(rpc', snapshot', scan', tail', outcome', f)
    BY <1>0, <1>2, <2>5 DEF ReaderOf, Walking
  <2> QED
    BY <2>1, <2>2, <2>3, <2>4, <2>6 DEF ReaderInv
<1> QED
  BY <1>1, <1>2 DEF R!Refreshed

LEMMA RefreshAnchorStep ==
    ASSUME LiveInv, R!RefreshAnchor
    PROVE  ReaderInv(rpc', snapshot', scan', tail', outcome', path, data[path])
<1> DEFINE f == data[path]
           n == Len(snapshot.blocks) + 1
<1>0. /\ rpc = "refresh_anchor" /\ Has(snapshot) /\ path # None /\ scan.handle = path
      /\ snapshot.identity \in Inodes /\ scan.identity = snapshot.identity
      /\ snapshot.source = path
      /\ ReaderOf(rpc, snapshot, scan, tail, outcome, f)
  BY ReaderFacts DEF R!RefreshAnchor, CallsMatch, OneFile, Anchoring
<1>f. /\ path \in Inodes /\ f \in Seq(Run) /\ WellFormed(f) /\ FrameCount(f) \in Nat
      /\ FileSize(f) \in Nat
  BY <1>0, PathFile
<1>n. /\ n \in 1..FrameCount(f) /\ n \in 1..Len(f) /\ snapshot.last_good_offset = End(f, n)
      /\ snapshot.last_good_offset <= FileSize(f)
      /\ SnapshotOf(snapshot, f)
  BY <1>0, <1>f, SnapshotWithinFile, ReaderFacts DEF ReaderOf
<1>1. R!CommitTrailer(f, snapshot.last_good_offset) = snapshot.commit_anchor
  BY <1>n, <1>f, TrailerOfRun DEF SnapshotOf
<1>2. ~(R!FileSize(f) < snapshot.last_good_offset)
  BY <1>n, <1>f, SameOperators, ReaderFacts DEF Snapshots
<1>3. CASE /\ scan.file_size = snapshot.last_good_offset
           /\ snapshot' = [snapshot EXCEPT !.file_size = snapshot.last_good_offset,
                                           !.incomplete_tail = FALSE]
           /\ R!Refreshed(0)
  <2>1. /\ snapshot' \in Snapshots /\ snapshot'.blocks = snapshot.blocks
        /\ snapshot'.identity = snapshot.identity /\ snapshot'.source = snapshot.source
        /\ snapshot'.header = snapshot.header
        /\ snapshot'.commit_anchor = snapshot.commit_anchor
        /\ snapshot'.last_good_offset = snapshot.last_good_offset
        /\ snapshot'.next_sequence = snapshot.next_sequence
        /\ snapshot'.next_row_id = snapshot.next_row_id
    BY <1>3, ReaderFacts DEF Snapshots
  <2>2. Has(snapshot')
    BY <1>0, <2>1, NoneAssumption DEF Has, R!NoSnapshot
  <2>3. SnapshotOf(snapshot', f)
    BY <1>n, <2>1 DEF SnapshotOf
  <2>4. ASSUME tail.live, tail.polling PROVE tail.next_block >= tail.asked
    <3>1. /\ tail.asked + 1 <= FrameCount(f) /\ tail.next_block = Len(snapshot.blocks)
          /\ End(f, tail.asked + 1) <= End(f, n)
      BY <1>0, <1>3, <1>n, <2>4 DEF ReaderOf, TailOf, Anchoring
    <3>2. tail.asked \in Nat /\ Len(snapshot.blocks) \in Nat
      BY ReaderFacts DEF Tails
    <3>3. tail.asked + 1 \in 1..Len(f)
      BY <1>f, <3>1, <3>2, CommittedRun
    <3>4. tail.asked + 1 <= n
      BY <1>f, <1>n, <3>1, <3>3, RunsApart
    <3> QED
      BY <3>1, <3>2, <3>4
  <2> HIDE DEF f, n
  <2>5. Len(snapshot.blocks) <= Len(snapshot'.blocks)
    BY <2>1, ReaderFacts
  <2> QED
    BY <1>0, <1>3, <2>1, <2>2, <2>3, <2>4, <2>5, RefreshedStep DEF f
<1>4. CASE /\ rpc' = "refresh_scan"
           /\ snapshot' = snapshot /\ scan' = scan /\ tail' = tail /\ outcome' = outcome
  <2>1. ReaderType(rpc', snapshot', scan', tail')
    BY <1>4, ReaderFacts DEF ReaderType, Anchoring
  <2>2. CallsMatch(rpc', snapshot', tail')
    BY <1>0, <1>4, ReaderFacts DEF CallsMatch, Anchoring
  <2>3. OneFile(rpc', snapshot', scan', tail', path)
    BY <1>0, <1>4, <1>f, ReaderFacts DEF OneFile, Anchoring
  <2>4. NotRefused(snapshot', outcome')
    BY <1>4, ReaderFacts
  <2>5. tail.live => TailOf(rpc', snapshot', scan', tail', outcome', f)
    BY <1>0, <1>4 DEF ReaderOf, TailOf, Anchoring, Walking
  <2>6. ReaderOf(rpc', snapshot', scan', tail', outcome', f)
    BY <1>0, <1>4, <2>5 DEF ReaderOf, Walking
  <2> QED
    BY <1>0, <2>1, <2>2, <2>3, <2>4, <2>6 DEF ReaderInv
<1> QED
  BY <1>0, <1>1, <1>2, <1>3, <1>4 DEF R!RefreshAnchor

LEMMA RefreshScanStep ==
    ASSUME LiveInv, R!RefreshScan
    PROVE  ReaderInv(rpc', snapshot', scan', tail', outcome', path, data[path])
<1> DEFINE f == data[path]
<1>0. /\ rpc = "refresh_scan" /\ Has(snapshot) /\ path # None /\ scan.handle = path
      /\ ReaderOf(rpc, snapshot, scan, tail, outcome, f)
  BY ReaderFacts DEF R!RefreshScan, CallsMatch, OneFile, Anchoring
<1>1. SnapshotOf(snapshot, f)
  BY <1>0 DEF ReaderOf
<1>2. R!FrameOf(f[1]) = snapshot.header
  BY <1>1, SameOperators DEF SnapshotOf
<1>3. CASE R!FailCall("incomplete_schema")
  <2>1. NotRefused(snapshot, "incomplete_schema")
    BY DEF NotRefused
  <2> QED
    BY <1>3, <2>1, FailedCall
<1>4. CASE R!StartScan(path, snapshot.last_good_offset, snapshot.next_sequence,
                       snapshot.next_row_id)
  <2>1. /\ snapshot.last_good_offset \in Nat /\ snapshot.next_sequence \in Nat
        /\ snapshot.next_row_id \in Nat
    BY ReaderFacts DEF Snapshots
  <2>2. /\ Holds(f, snapshot.blocks)
        /\ Resumes(f, Len(snapshot.blocks) + 1, snapshot.last_good_offset,
                   snapshot.next_sequence, snapshot.next_row_id)
    BY <1>1 DEF SnapshotOf
  <2> QED
    BY <1>0, <1>4, <2>1, <2>2, StartScanStep
<1> QED
  BY <1>0, <1>2, <1>3, <1>4 DEF R!RefreshScan
-----------------------------------------------------------------------------
(* Steps of a walk                                                         *)

LEMMA AppendBehind ==
    ASSUME NEW s \in Seq(Blocks), NEW t \in Seq(Blocks), NEW b \in Blocks
    PROVE  /\ s \o Append(t, b) = Append(s \o t, b) /\ s \o t \in Seq(Blocks)
           /\ Append(t, b) \in Seq(Blocks)
<1>1. /\ Append(t, b) = t \o <<b>> /\ Append(s \o t, b) = (s \o t) \o <<b>>
      /\ <<b>> \in Seq(Blocks) /\ s \o t \in Seq(Blocks) /\ Append(t, b) \in Seq(Blocks)
  BY AppendIsConcat
<1> QED
  BY <1>1, ConcatAssociative

LEMMA HoldsMore ==
    ASSUME NEW f \in Seq(Run), NEW blocks \in Seq(Blocks), Holds(f, blocks), NEW b \in Blocks,
           FrameCount(f) \in Nat, Len(blocks) + 2 <= FrameCount(f),
           b.frame = FrameOf(f[Len(blocks) + 2]), b.offset = f[Len(blocks) + 2].offset
    PROVE  Holds(f, Append(blocks, b)) /\ Len(Append(blocks, b)) = Len(blocks) + 1
<1> DEFINE m == Append(blocks, b)
<1>1. /\ Len(blocks) \in Nat /\ Len(m) = Len(blocks) + 1 /\ m[Len(blocks) + 1] = b
      /\ \A k \in 1..Len(blocks) : m[k] = blocks[k]
  OBVIOUS
<1> HIDE DEF m
<1>2. ASSUME NEW k \in 1..Len(m)
      PROVE  m[k].frame = FrameOf(f[k+1]) /\ m[k].offset = f[k+1].offset
  <2>1. CASE k \in 1..Len(blocks)
    BY <1>1, <2>1 DEF Holds
  <2>2. CASE k = Len(blocks) + 1
    BY <1>1, <2>2
  <2> QED
    BY <1>1, <2>1, <2>2
<1>3. Len(m) + 1 <= FrameCount(f)
  BY <1>1
<1> QED
  BY <1>1, <1>2, <1>3 DEF Holds, m

\* Where a walk is: behind run n of the file, with all the blocks before it.
LEMMA WalkFacts ==
    ASSUME LiveInv, rpc \in Walking
    PROVE  LET f == data[path]
               blocks == snapshot.blocks \o scan.staged
               n == Len(blocks) + 1
           IN  /\ path # None /\ path \in Inodes /\ scan.handle = path /\ scan.identity \in Inodes
               /\ f \in Seq(Run) /\ WellFormed(f) /\ FrameCount(f) \in Nat
               /\ FileSize(f) \in Nat
               /\ ReaderOf(rpc, snapshot, scan, tail, outcome, f)
               /\ ScanOf(scan, blocks, f)
               /\ blocks \in Seq(Blocks) /\ Len(blocks) \in Nat /\ n \in Nat
               /\ n \in 1..FrameCount(f) /\ n \in 1..Len(f) /\ scan.offset = End(f, n)
               /\ tail.asked \in Nat
               /\ tail.live => tail.asked + 1 \in 1..FrameCount(f) /\ tail.asked + 1 \in 1..Len(f)
<1> DEFINE f == data[path]
           blocks == snapshot.blocks \o scan.staged
           n == Len(blocks) + 1
<1>1. /\ path # None /\ ReaderOf(rpc, snapshot, scan, tail, outcome, f)
      /\ scan.handle = path /\ scan.identity \in Inodes
  BY ReaderFacts DEF OneFile
<1>2. /\ path \in Inodes /\ f \in Seq(Run) /\ WellFormed(f) /\ FrameCount(f) \in Nat
      /\ FileSize(f) \in Nat
  BY <1>1, PathFile
<1>3. blocks \in Seq(Blocks) /\ tail.asked \in Nat
  BY ReaderFacts DEF Tails
<1>4. ScanOf(scan, blocks, f)
  BY <1>1 DEF ReaderOf
<1> HIDE DEF f, blocks
<1>5. Len(blocks) \in Nat /\ n \in Nat /\ n \in 1..FrameCount(f) /\ scan.offset = End(f, n)
  BY <1>2, <1>3, <1>4 DEF ScanOf, Holds, Resumes
<1>6. n \in 1..Len(f)
  BY <1>2, <1>5, CommittedRun
<1>7. ASSUME tail.live
      PROVE  tail.asked + 1 \in 1..FrameCount(f) /\ tail.asked + 1 \in 1..Len(f)
  <2>1. tail.asked + 1 \in 1..FrameCount(f)
    BY <1>1, <1>2, <1>3, <1>7 DEF ReaderOf, TailOf
  <2> QED
    BY <1>2, <2>1, CommittedRun
<1> QED
  BY <1>1, <1>2, <1>3, <1>4, <1>5, <1>6, <1>7 DEF f, blocks

\* Errors of a walk: none of them blames the file.
LEMMA WalkFails ==
    ASSUME LiveInv, NEW kind \in {"io", "corruption", "resource_limit"}, R!FailCall(kind)
    PROVE  ReaderInv(rpc', snapshot', scan', tail', outcome', path, data[path])
<1>1. NotRefused(snapshot, kind) /\ kind \notin {"batch", "pending"}
  BY DEF NotRefused
<1> QED
  BY <1>1, FailedCall

\* A walk that goes on, with the scan it now has.
LEMMA WalkStep ==
    ASSUME LiveInv, rpc \in Walking, rpc' \in Walking, scan' \in Scans,
           snapshot' = snapshot, tail' = tail, outcome' = outcome,
           scan'.identity = scan.identity, scan'.handle = scan.handle,
           ScanOf(scan', snapshot.blocks \o scan'.staged, data[path]),
           tail.live => TailOf(rpc', snapshot, scan', tail, outcome, data[path])
    PROVE  ReaderInv(rpc', snapshot', scan', tail', outcome', path, data[path])
<1>1. ReaderType(rpc', snapshot', scan', tail')
  BY ReaderFacts DEF ReaderType
<1>2. CallsMatch(rpc', snapshot', tail')
  BY ReaderFacts DEF CallsMatch, Anchoring, Walking
<1>3. OneFile(rpc', snapshot', scan', tail', path)
  BY ReaderFacts DEF OneFile, Anchoring, Walking
<1>4. NotRefused(snapshot', outcome')
  BY ReaderFacts
<1>5. path # None /\ ReaderOf(rpc, snapshot, scan, tail, outcome, data[path])
  BY ReaderFacts
<1>6. ReaderOf(rpc', snapshot', scan', tail', outcome', data[path])
  BY <1>5 DEF ReaderOf
<1> QED
  BY <1>1, <1>2, <1>3, <1>4, <1>5, <1>6 DEF ReaderInv

LEMMA WalkPrefixStep ==
    ASSUME LiveInv, R!WalkPrefix
    PROVE  ReaderInv(rpc', snapshot', scan', tail', outcome', path, data[path])
<1> DEFINE f == data[path]
           blocks == snapshot.blocks \o scan.staged
           n == Len(blocks) + 1
           prefix == R!PrefixAt(f, scan.offset)
<1>0. rpc = "walk" /\ rpc \in Walking
  BY DEF R!WalkPrefix, Walking
<1>w. /\ scan.handle = path /\ f \in Seq(Run) /\ WellFormed(f) /\ FrameCount(f) \in Nat
      /\ ReaderOf(rpc, snapshot, scan, tail, outcome, f) /\ ScanOf(scan, blocks, f)
      /\ n \in Nat /\ Len(blocks) \in Nat /\ n \in 1..FrameCount(f) /\ n \in 1..Len(f)
      /\ scan.offset = End(f, n) /\ tail.asked \in Nat
      /\ tail.live => tail.asked + 1 \in 1..FrameCount(f) /\ tail.asked + 1 \in 1..Len(f)
  BY <1>0, WalkFacts
<1>t. /\ scan \in Scans /\ scan.file_size \in Nat /\ scan.offset \in Nat
      /\ (tail.live => TailOf(rpc, snapshot, scan, tail, outcome, f))
      /\ snapshot.blocks \in Seq(Blocks)
  BY <1>w, ReaderFacts DEF Scans, ReaderOf
<1>a. n = Len(blocks) + 1 /\ n \in Nat /\ Len(blocks) \in Nat /\ tail.asked \in Nat
  BY <1>w
<1> HIDE DEF f, prefix, n, blocks
<1>f. f \in Seq(Run) /\ WellFormed(f) /\ FrameCount(f) \in Nat /\ n \in 1..Len(f)
  BY <1>w
<1>e. /\ scan.offset = End(f, n) /\ scan.offset \in Nat /\ scan.file_size \in Nat
  BY <1>w, <1>t
<1>1. CASE R!FailCall("io") \/ R!FailCall("corruption")
  BY <1>1, WalkFails
<1>2. CASE /\ scan.offset >= scan.file_size /\ rpc' = "walk_end"
           /\ snapshot' = snapshot /\ scan' = scan /\ tail' = tail /\ outcome' = outcome
  <2>1. ASSUME tail.live, tail.polling PROVE tail.asked <= Len(blocks)
    <3>1. End(f, tail.asked + 1) <= scan.file_size /\ End(f, tail.asked + 1) \in Nat
      BY <1>0, <1>t, <1>w, <2>1, EndType DEF TailOf
    <3>2. End(f, tail.asked + 1) <= End(f, n) /\ tail.asked + 1 \in 1..Len(f)
      BY <1>2, <1>e, <1>w, <2>1, <3>1
    <3>3. tail.asked + 1 <= n
      BY <1>f, <3>2, RunsApart
    <3> QED
      BY <1>a, <3>3
  <2>2. tail.live => TailOf(rpc', snapshot, scan', tail, outcome, f)
    BY <1>0, <1>2, <1>t, <2>1 DEF TailOf, Anchoring, Walking, blocks
  <2> QED
    BY <1>0, <1>2, <1>t, <1>w, <2>2, WalkStep DEF Walking, f, blocks
<1>p. ASSUME prefix # NoFrame
      PROVE  /\ n + 1 \in 1..Len(f) /\ f[n+1].offset = scan.offset /\ prefix = FrameOf(f[n+1])
             /\ prefix \in FrameSet
             /\ R!TotalLength(prefix) = TotalLength(f[n+1])
  <2>1. n + 1 \in 1..Len(f) /\ f[n+1].offset = scan.offset /\ prefix = FrameOf(f[n+1])
    BY <1>p, <1>w, PrefixAtNext DEF prefix
  <2>2. TotalLength(prefix) = TotalLength(f[n+1])
    BY <2>1 DEF TotalLength, FrameOf
  <2> QED
    BY <1>w, <2>1, <2>2, EndType, FrameOfRun, SameOperators
<1>3. CASE /\ prefix # NoFrame /\ R!TotalLength(prefix) > scan.file_size - scan.offset
           /\ scan' = [scan EXCEPT !.incomplete_tail = TRUE] /\ rpc' = "walk_end"
           /\ snapshot' = snapshot /\ tail' = tail /\ outcome' = outcome
  <2>0. /\ scan' \in Scans /\ scan'.identity = scan.identity /\ scan'.handle = scan.handle
        /\ scan'.staged = scan.staged /\ scan'.offset = scan.offset
        /\ scan'.sequence = scan.sequence /\ scan'.expected_base = scan.expected_base
        /\ scan'.header = scan.header
    BY <1>3, <1>t DEF Scans
  <2>1. ASSUME tail.live, tail.polling PROVE tail.asked <= Len(blocks)
    <3>1. SUFFICES ASSUME ~(tail.asked + 1 <= n) PROVE FALSE
      BY <1>a
    <3>0. tail.asked + 1 \in 1..FrameCount(f) /\ tail.asked + 1 \in 1..Len(f)
      BY <1>w, <2>1
    <3>2. n + 1 \in 1..FrameCount(f) /\ n + 1 \in 1..Len(f)
      <4>1. n + 1 \in 1..FrameCount(f)
        BY <1>a, <1>f, <3>0, <3>1
      <4> QED
        BY <4>1, <1>3, <1>p
    <3>3. f[n+1].units = TotalLength(f[n+1]) /\ f[n+1].offset = scan.offset
      BY <1>w, <3>2, <1>3, <1>p, CommittedRun
    <3>4. End(f, n + 1) = scan.offset + TotalLength(f[n+1])
      BY <3>3 DEF End
    <3>5. End(f, n + 1) \in Nat /\ End(f, tail.asked + 1) \in Nat /\ f[n+1].units \in Nat
      BY <1>w, <2>1, <3>2, EndType
    <3>6. End(f, n + 1) <= End(f, tail.asked + 1)
      <4>1. CASE n + 1 = tail.asked + 1
        BY <4>1, <3>5
      <4>2. CASE n + 1 < tail.asked + 1
        BY <4>2, <1>f, <3>0, <3>2, <3>5, RunsOrdered
      <4> QED
        BY <4>1, <4>2, <1>a, <3>1
    <3>7. End(f, tail.asked + 1) <= scan.file_size
      BY <1>0, <1>t, <2>1 DEF TailOf
    <3>8. TotalLength(f[n+1]) > scan.file_size - scan.offset
      BY <1>3, <1>p
    <3> QED
      <4>1. TotalLength(f[n+1]) \in Nat
        BY <3>3, <3>5
      <4> QED
        BY <1>e, <4>1, <3>4, <3>5, <3>6, <3>7, <3>8
  <2>2. tail.live => TailOf(rpc', snapshot, scan', tail, outcome, f)
    BY <1>0, <1>3, <1>t, <2>0, <2>1 DEF TailOf, Anchoring, Walking, blocks
  <2>3. ScanOf(scan', snapshot.blocks \o scan'.staged, f)
    BY <1>w, <2>0 DEF ScanOf, blocks
  <2> QED
    BY <1>0, <1>3, <2>0, <2>2, <2>3, WalkStep DEF Walking, f
<1>4. CASE /\ prefix # NoFrame
           /\ scan' = [scan EXCEPT !.prefix = prefix] /\ rpc' = "walk_body"
           /\ snapshot' = snapshot /\ tail' = tail /\ outcome' = outcome
  <2>0. /\ scan' \in Scans /\ scan'.identity = scan.identity /\ scan'.handle = scan.handle
        /\ scan'.staged = scan.staged /\ scan'.offset = scan.offset
        /\ scan'.sequence = scan.sequence /\ scan'.expected_base = scan.expected_base
        /\ scan'.header = scan.header /\ scan'.file_size = scan.file_size
    BY <1>4, <1>t, <1>p DEF Scans, FrameOrNot
  <2>2. tail.live => TailOf(rpc', snapshot, scan', tail, outcome, f)
    BY <1>0, <1>4, <1>t, <2>0 DEF TailOf, Anchoring, Walking, blocks
  <2>3. ScanOf(scan', snapshot.blocks \o scan'.staged, f)
    BY <1>w, <2>0 DEF ScanOf, blocks
  <2> QED
    BY <1>0, <1>4, <2>0, <2>2, <2>3, WalkStep DEF Walking, f
<1> QED
  BY <1>0, <1>w, <1>1, <1>2, <1>3, <1>4 DEF R!WalkPrefix, f, prefix
LEMMA WalkBodyStep ==
    ASSUME LiveInv, R!WalkBody
    PROVE  ReaderInv(rpc', snapshot', scan', tail', outcome', path, data[path])
<1> DEFINE f == data[path]
           blocks == snapshot.blocks \o scan.staged
           n == Len(blocks) + 1
           frame == R!FrameAt(f, scan.offset)
           end == scan.offset + R!TotalLength(scan.prefix)
           b == [frame |-> frame, offset |-> scan.offset]
<1>0. rpc = "walk_body" /\ rpc \in Walking
  BY DEF R!WalkBody, Walking
<1>w. /\ scan.handle = path /\ f \in Seq(Run) /\ WellFormed(f) /\ FrameCount(f) \in Nat
      /\ ReaderOf(rpc, snapshot, scan, tail, outcome, f) /\ ScanOf(scan, blocks, f)
      /\ blocks \in Seq(Blocks) /\ n \in Nat /\ Len(blocks) \in Nat
      /\ n \in 1..FrameCount(f) /\ n \in 1..Len(f) /\ scan.offset = End(f, n)
  BY <1>0, WalkFacts
<1>t. /\ scan \in Scans /\ scan.offset \in Nat /\ scan.sequence \in Nat
      /\ scan.expected_base \in Nat /\ scan.staged \in Seq(Blocks)
      /\ snapshot.blocks \in Seq(Blocks)
      /\ (tail.live => TailOf(rpc, snapshot, scan, tail, outcome, f))
  BY <1>w, ReaderFacts DEF Scans, ReaderOf
<1>a. n = Len(blocks) + 1 /\ n \in Nat /\ Len(blocks) \in Nat
  BY <1>w
<1> HIDE DEF f, frame, n, blocks
<1>1. CASE R!FailCall("io") \/ R!FailCall("corruption") \/ R!FailCall("resource_limit")
  BY <1>1, WalkFails
<1>2. CASE /\ frame # NoFrame /\ R!SamePrefix(frame, scan.prefix)
           /\ frame.base_row_id = IF RowIds THEN scan.expected_base ELSE UNAVAILABLE_BASE_ROW_ID
           /\ scan' = [scan EXCEPT
                         !.staged = Append(@, [frame |-> frame, offset |-> scan.offset]),
                         !.offset = end,
                         !.sequence = @ + 1,
                         !.expected_base = IF RowIds THEN @ + frame.row_count ELSE @,
                         !.prefix = NoFrame]
           /\ rpc' = "walk" /\ snapshot' = snapshot /\ tail' = tail /\ outcome' = outcome
  <2>1. n + 1 \in 1..FrameCount(f) /\ f[n+1].offset = scan.offset /\ frame = FrameOf(f[n+1])
    BY <1>2, <1>w, FrameAtNext DEF frame
  <2>2. f[n+1] \in Run /\ f[n+1].units = TotalLength(f[n+1]) /\ n + 1 \in 1..Len(f)
    BY <1>w, <2>1, CommittedRun
  <2>3. /\ frame \in FrameSet /\ frame.row_count = f[n+1].row_count
        /\ frame.base_row_id = f[n+1].base_row_id /\ frame.sequence = f[n+1].sequence
    BY <2>1, <2>2, FrameOfRun DEF FrameOf
  <2>4. R!TotalLength(scan.prefix) = TotalLength(f[n+1])
    BY <1>2, <2>3, SameOperators DEF R!SamePrefix, TotalLength
  <2>5. end = End(f, n + 1) /\ end \in Nat
    BY <1>w, <2>1, <2>2, <2>4, EndType DEF End
  <2>6. b \in Blocks /\ frame.row_count \in Nat
    BY <1>t, <2>3 DEF Blocks, FrameSet
  <2> HIDE DEF b, end
  <2>7. /\ scan' \in Scans /\ scan'.identity = scan.identity /\ scan'.handle = scan.handle
        /\ scan'.header = scan.header /\ scan'.file_size = scan.file_size
        /\ scan'.staged = Append(scan.staged, b) /\ scan'.offset = end
        /\ scan'.sequence = scan.sequence + 1
        /\ RowIds => scan'.expected_base = scan.expected_base + frame.row_count
    <3>1. Append(scan.staged, b) \in Seq(Blocks)
      BY <1>t, <2>6, AppendBehind
    <3> DEFINE base == IF RowIds THEN scan.expected_base + frame.row_count
                       ELSE scan.expected_base
    <3>2. base \in Nat /\ (RowIds => base = scan.expected_base + frame.row_count)
      BY <1>t, <2>6
    <3>3. scan' = [scan EXCEPT !.staged = Append(scan.staged, b), !.offset = end,
                               !.sequence = scan.sequence + 1, !.expected_base = base,
                               !.prefix = NoFrame]
      BY <1>2 DEF b
    <3>4. NoFrame \in FrameOrNot /\ scan.sequence + 1 \in Nat
      BY <1>t DEF FrameOrNot
    <3> HIDE DEF base
    <3> QED
      BY <1>t, <2>5, <3>1, <3>2, <3>3, <3>4 DEF Scans
  <2>8. snapshot.blocks \o scan'.staged = Append(blocks, b)
    BY <1>t, <2>6, <2>7, AppendBehind DEF blocks
  <2>9. Holds(f, Append(blocks, b)) /\ Len(Append(blocks, b)) = n
    <3>1. b.frame = FrameOf(f[n+1]) /\ b.offset = f[n+1].offset
      BY <2>1 DEF b
    <3>2. Len(blocks) + 2 = n + 1 /\ n + 1 <= FrameCount(f)
      BY <1>a, <1>w, <2>1
    <3>3. Holds(f, blocks)
      BY <1>w DEF ScanOf
    <3> QED
      BY <1>a, <1>w, <2>6, <3>1, <3>2, <3>3, HoldsMore
  <2>10. Resumes(f, n + 1, scan'.offset, scan'.sequence, scan'.expected_base)
    <3>1. scan.sequence = n
      BY <1>w, <1>a DEF ScanOf, Resumes
    <3>2. RowIds => ExpectedBase(f, n + 2) = f[n+1].base_row_id + f[n+1].row_count
      BY <1>w DEF ExpectedBase
    <3>3. (n + 1) + 1 = n + 2
      BY <1>a
    <3> QED
      BY <1>2, <2>3, <2>5, <2>7, <3>1, <3>2, <3>3 DEF Resumes
  <2>11. ScanOf(scan', snapshot.blocks \o scan'.staged, f)
    BY <1>w, <2>7, <2>8, <2>9, <2>10 DEF ScanOf
  <2>12. tail.live => TailOf(rpc', snapshot, scan', tail, outcome, f)
    BY <1>0, <1>2, <1>t, <2>7 DEF TailOf, Anchoring, Walking
  <2> QED
    BY <1>0, <1>2, <2>7, <2>11, <2>12, WalkStep DEF Walking, f
<1> QED
  BY <1>w, <1>1, <1>2 DEF R!WalkBody, f, frame

LEMMA WalkEndStep ==
    ASSUME LiveInv, R!WalkEnd
    PROVE  ReaderInv(rpc', snapshot', scan', tail', outcome', path, data[path])
<1> DEFINE f == data[path]
           blocks == snapshot.blocks \o scan.staged
           n == Len(blocks) + 1
<1>0. rpc = "walk_end" /\ rpc \in Walking
  BY DEF R!WalkEnd, Walking
<1>w. /\ scan.handle = path /\ f \in Seq(Run) /\ WellFormed(f) /\ FrameCount(f) \in Nat
      /\ path # None /\ path \in Inodes /\ scan.identity \in Inodes
      /\ ReaderOf(rpc, snapshot, scan, tail, outcome, f) /\ ScanOf(scan, blocks, f)
      /\ blocks \in Seq(Blocks) /\ n \in Nat /\ Len(blocks) \in Nat
      /\ n \in 1..FrameCount(f) /\ n \in 1..Len(f) /\ scan.offset = End(f, n)
  BY <1>0, WalkFacts
<1>t. /\ scan \in Scans /\ scan.staged \in Seq(Blocks) /\ snapshot.blocks \in Seq(Blocks)
  BY ReaderFacts
<1>l. /\ Len(blocks) = Len(snapshot.blocks) + Len(scan.staged)
      /\ Len(scan.staged) \in Nat /\ Len(snapshot.blocks) \in Nat
  BY <1>t
<1>c. R!CommitTrailer(f, scan.offset) = FrameOf(f[n]) /\ FrameOf(f[n]) \in FrameSet
  BY <1>w, TrailerOfRun, CommittedRun, FrameOfRun
<1> HIDE DEF f, blocks, n
<1>1. CASE R!FailCall("io")
  BY <1>1, WalkFails
<1>2. CASE /\ snapshot' = R!WalkedSnapshot(f)
           /\ IF R!HasSnapshot THEN R!Refreshed(Len(scan.staged))
              ELSE /\ rpc' = "ready" /\ outcome' = "opened" /\ scan' = R!NoScan /\ tail' = tail
  <2>1. /\ snapshot' \in Snapshots /\ snapshot'.identity = scan.identity
        /\ snapshot'.source = path /\ snapshot'.header = scan.header
        /\ snapshot'.blocks = blocks /\ snapshot'.last_good_offset = scan.offset
        /\ snapshot'.next_sequence = scan.sequence
        /\ snapshot'.next_row_id = scan.expected_base /\ snapshot'.commit_anchor = FrameOf(f[n])
    BY <1>2, <1>t, <1>w, <1>c DEF R!WalkedSnapshot, Snapshots, Scans, FrameOrNot, blocks
  <2>2. Has(snapshot')
    BY <1>w, <2>1, NoneAssumption DEF Has, R!NoSnapshot
  <2>3. SnapshotOf(snapshot', f)
    BY <1>w, <2>1 DEF SnapshotOf, ScanOf, n
  <2>4. Len(snapshot.blocks) <= Len(snapshot'.blocks)
    <3>1. Len(snapshot'.blocks) = Len(blocks)
      BY <2>1
    <3>2. \A a, b \in Nat : a <= a + b
      OBVIOUS
    <3>3. Len(snapshot.blocks) <= Len(snapshot.blocks) + Len(scan.staged)
      BY <1>l, <3>2
    <3>4. Len(snapshot.blocks) <= Len(blocks)
      BY <1>l, <3>3
    <3> QED
      BY <3>1, <3>4
  <2>5. CASE Has(snapshot)
    <3>1. R!Refreshed(Len(scan.staged)) /\ scan.identity = snapshot.identity
      BY <1>0, <1>2, <2>5, ReaderFacts DEF Has, R!HasSnapshot, OneFile
    <3>2. ASSUME tail.live, tail.polling, Len(scan.staged) = 0
          PROVE  tail.next_block >= tail.asked
      <4>1. tail.next_block = Len(snapshot.blocks) /\ tail.asked <= Len(blocks)
        BY <1>0, <1>w, <3>2 DEF ReaderOf, TailOf, blocks
      <4>2. tail.asked \in Nat
        BY ReaderFacts DEF Tails
      <4> QED
        BY <1>l, <3>2, <4>1, <4>2
    <3> QED
      BY <1>w, <1>l, <2>1, <2>2, <2>3, <2>4, <2>5, <3>1, <3>2, RefreshedStep DEF f
  <2>6. CASE ~Has(snapshot)
    <3>1. rpc' = "ready" /\ outcome' = "opened" /\ scan' = R!NoScan /\ tail' = tail
      BY <1>2, <2>6 DEF Has, R!HasSnapshot
    <3>2. ~tail.live /\ ~tail.polling
      BY <2>6, ReaderFacts DEF CallsMatch
    <3>3. ReaderType(rpc', snapshot', scan', tail')
      BY <2>1, <3>1, NoValuesType, ReaderFacts DEF ReaderType
    <3>4. CallsMatch(rpc', snapshot', tail')
      BY <2>2, <3>1, <3>2 DEF CallsMatch, Anchoring
    <3>5. OneFile(rpc', snapshot', scan', tail', path)
      BY <1>w, <2>1, <3>1, <3>2 DEF OneFile, Anchoring, Walking
    <3>6. NotRefused(snapshot', outcome')
      BY <3>1 DEF NotRefused
    <3>7. ReaderOf(rpc', snapshot', scan', tail', outcome', f)
      BY <1>w, <2>3, <3>1, <3>2 DEF ReaderOf, Walking
    <3> QED
      BY <1>w, <3>3, <3>4, <3>5, <3>6, <3>7 DEF ReaderInv, f
  <2> QED
    BY <2>5, <2>6
<1> QED
  BY <1>w, <1>1, <1>2 DEF R!WalkEnd, f
-----------------------------------------------------------------------------
(* Steps of a tail                                                         *)

LEMMA StartTailStep ==
    ASSUME LiveInv, R!StartTail
    PROVE  ReaderInv(rpc', snapshot', scan', tail', outcome', path, data[path])
<1> DEFINE f == data[path]
<1>0. /\ rpc = "ready" /\ rpc' = rpc /\ snapshot' = snapshot /\ scan' = scan /\ outcome' = "none"
      /\ tail' = [R!NoTail EXCEPT !.live = TRUE, !.next_block = Len(snapshot.blocks)]
  BY DEF R!StartTail
<1>1. /\ Has(snapshot) /\ path # None /\ ReaderOf(rpc, snapshot, scan, tail, outcome, f)
      /\ Len(snapshot.blocks) \in Nat
  BY <1>0, ReaderFacts DEF CallsMatch
<1>2. /\ tail' \in Tails /\ tail'.live /\ ~tail'.polling /\ tail'.asked = 0 /\ tail'.file = None
      /\ tail'.next_block = Len(snapshot.blocks)
  BY <1>0, <1>1, NoValuesType DEF R!NoTail, Tails
<1>3. ReaderType(rpc', snapshot', scan', tail')
  BY <1>0, <1>2, ReaderFacts DEF ReaderType
<1>4. CallsMatch(rpc', snapshot', tail')
  BY <1>0, <1>1, <1>2 DEF CallsMatch, Anchoring
<1>5. OneFile(rpc', snapshot', scan', tail', path)
  BY <1>0, <1>2, ReaderFacts DEF OneFile, Anchoring, Walking
<1>6. NotRefused(snapshot', outcome')
  BY <1>0 DEF NotRefused
<1>7. TailOf(rpc', snapshot', scan', tail', outcome', f)
  BY <1>0, <1>1, <1>2 DEF TailOf, ReaderOf
<1>8. ReaderOf(rpc', snapshot', scan', tail', outcome', f)
  BY <1>0, <1>1, <1>7 DEF ReaderOf, Walking
<1> QED
  BY <1>1, <1>3, <1>4, <1>5, <1>6, <1>8 DEF ReaderInv

LEMMA DropTailStep ==
    ASSUME LiveInv, R!DropTail
    PROVE  ReaderInv(rpc', snapshot', scan', tail', outcome', path, data[path])
<1> DEFINE f == data[path]
<1>0. /\ rpc = "ready" /\ rpc' = rpc /\ snapshot' = snapshot /\ scan' = scan /\ outcome' = "none"
      /\ tail' = R!NoTail
  BY DEF R!DropTail
<1>1. Has(snapshot) /\ path # None /\ ReaderOf(rpc, snapshot, scan, tail, outcome, f)
  BY <1>0, ReaderFacts DEF CallsMatch
<1>2. tail' \in Tails /\ ~tail'.live /\ ~tail'.polling
  BY <1>0, NoValuesType
<1>3. ReaderType(rpc', snapshot', scan', tail')
  BY <1>0, <1>2, ReaderFacts DEF ReaderType
<1>4. CallsMatch(rpc', snapshot', tail')
  BY <1>0, <1>1, <1>2 DEF CallsMatch, Anchoring
<1>5. OneFile(rpc', snapshot', scan', tail', path)
  BY <1>0, <1>2, ReaderFacts DEF OneFile, Anchoring, Walking
<1>6. NotRefused(snapshot', outcome')
  BY <1>0 DEF NotRefused
<1>7. ReaderOf(rpc', snapshot', scan', tail', outcome', f)
  BY <1>0, <1>1, <1>2 DEF ReaderOf, Walking
<1> QED
  BY <1>1, <1>3, <1>4, <1>5, <1>6, <1>7 DEF ReaderInv

LEMMA CloseStep ==
    ASSUME LiveInv, R!Close
    PROVE  ReaderInv(rpc', snapshot', scan', tail', outcome', path, data[path])
<1>0. /\ rpc = "ready" /\ rpc' = "closed" /\ snapshot' = R!NoSnapshot /\ scan' = scan
      /\ tail' = tail /\ ~tail.live /\ outcome' = "none"
  BY DEF R!Close
<1>1. ~Has(snapshot') /\ rpc' \notin Walking /\ ~tail.polling
  BY <1>0, ReaderFacts DEF Has, Walking, CallsMatch
<1>2. ReaderType(rpc', snapshot', scan', tail')
  BY <1>0, NoValuesType, ReaderFacts DEF ReaderType
<1>3. CallsMatch(rpc', snapshot', tail')
  BY <1>0, <1>1 DEF CallsMatch, Anchoring
<1>4. OneFile(rpc', snapshot', scan', tail', path)
  BY <1>0, <1>1 DEF OneFile, Anchoring, Walking
<1> QED
  BY <1>1, <1>2, <1>3, <1>4 DEF ReaderInv, NotRefused

LEMMA BeginPollStep ==
    ASSUME LiveInv, R!BeginPoll
    PROVE  ReaderInv(rpc', snapshot', scan', tail', outcome', path, data[path])
<1> DEFINE f == data[path]
           asked == Len(DataFrames(f))
<1>0. rpc = "ready" /\ tail.live
  BY DEF R!BeginPoll
<1>1. Has(snapshot) /\ path # None /\ ReaderOf(rpc, snapshot, scan, tail, outcome, f)
  BY <1>0, ReaderFacts DEF CallsMatch
<1>2. f \in Seq(Run) /\ FrameCount(f) \in Nat /\ FrameCount(f) >= 1
  BY <1>1, PathFile DEF ReaderOf
<1>3. asked \in Nat /\ asked + 1 = FrameCount(f)
  BY <1>2, DataFramesElements
<1>4. R!DataFrames(f) = DataFrames(f)
  BY SameDataFrames
<1>5. /\ tail' = [tail EXCEPT !.polling = TRUE, !.batch = NoFrame, !.asked = asked]
      /\ rpc' = "poll" /\ outcome' = "none" /\ snapshot' = snapshot /\ scan' = scan
  BY <1>1, <1>4 DEF R!BeginPoll
<1> HIDE DEF f, asked
<1>6. /\ tail' \in Tails /\ tail'.live /\ tail'.polling /\ tail'.asked = asked
      /\ tail'.file = tail.file /\ tail'.batch = NoFrame /\ tail'.next_block = tail.next_block
  BY <1>0, <1>3, <1>5, ReaderFacts DEF Tails, FrameOrNot
<1>7. ReaderType(rpc', snapshot', scan', tail')
  BY <1>5, <1>6, ReaderFacts DEF ReaderType
<1>8. CallsMatch(rpc', snapshot', tail')
  BY <1>1, <1>5, <1>6 DEF CallsMatch, Anchoring
<1>9. OneFile(rpc', snapshot', scan', tail', path)
  BY <1>0, <1>5, <1>6, ReaderFacts DEF OneFile, Anchoring, Walking
<1>10. NotRefused(snapshot', outcome')
  BY <1>5 DEF NotRefused
<1>11. TailOf(rpc', snapshot', scan', tail', outcome', f)
  <2>1. tail.next_block <= Len(snapshot.blocks)
    BY <1>0, <1>1 DEF ReaderOf, TailOf
  <2>2. asked + 1 <= FrameCount(f)
    BY <1>2, <1>3
  <2> QED
    BY <1>5, <1>6, <2>1, <2>2 DEF TailOf, Anchoring, Walking
<1>12. ReaderOf(rpc', snapshot', scan', tail', outcome', f)
  BY <1>1, <1>5, <1>11 DEF ReaderOf, Walking
<1> QED
  BY <1>1, <1>7, <1>8, <1>9, <1>10, <1>12 DEF ReaderInv, f

LEMMA DecodeNextStep ==
    ASSUME LiveInv, R!DecodeNext
    PROVE  ReaderInv(rpc', snapshot', scan', tail', outcome', path, data[path])
<1> DEFINE f == data[path]
           n == tail.next_block + 1
           frame == R!DecodedFrame(R!TailFile, R!NextBlock)
<1>0. /\ rpc = "poll" /\ snapshot' = snapshot /\ scan' = scan
      /\ tail.next_block < Len(snapshot.blocks)
  BY DEF R!DecodeNext
<1>1. /\ Has(snapshot) /\ path # None /\ ReaderOf(rpc, snapshot, scan, tail, outcome, f)
      /\ tail.polling /\ tail.live /\ tail.file \in {None, path}
  BY <1>0, ReaderFacts DEF CallsMatch, OneFile
<1>2. f \in Seq(Run) /\ WellFormed(f) /\ FrameCount(f) \in Nat
  BY <1>1, PathFile
<1>3. /\ tail.next_block \in Nat /\ n \in Nat /\ n \in 1..Len(snapshot.blocks)
      /\ Len(snapshot.blocks) \in Nat
  <2>1. tail.next_block \in Nat /\ Len(snapshot.blocks) \in Nat
    BY ReaderFacts DEF Tails
  <2> QED
    BY <1>0, <2>1
<1>4. R!TailFile = path /\ path \in Inodes
  BY <1>1, PathFile DEF R!TailFile
<1>5. R!NextBlock = snapshot.blocks[n]
  BY DEF R!NextBlock
<1>6. /\ n + 1 \in 1..FrameCount(f)
      /\ snapshot.blocks[n].offset = f[n+1].offset
  <2>1. Holds(f, snapshot.blocks)
    BY <1>1 DEF ReaderOf, SnapshotOf
  <2> HIDE DEF f
  <2>2. Len(snapshot.blocks) + 1 <= FrameCount(f) /\ snapshot.blocks[n].offset = f[n+1].offset
    BY <2>1, <1>3 DEF Holds
  <2> QED
    BY <1>2, <1>3, <2>2
<1>7. ASSUME frame # NoFrame PROVE frame = FrameOf(f[n+1]) /\ frame \in FrameSet
  <2>1. frame = R!FrameAt(f, snapshot.blocks[n].offset)
    BY <1>1, <1>4, <1>5, <1>7 DEF R!DecodedFrame
  <2> HIDE DEF f, frame
  <2>2. frame = FrameOf(f[n+1])
    BY <1>2, <1>6, <2>1, FrameAtRun
  <2> QED
    BY <1>2, <1>6, <2>2, CommittedRun, FrameOfRun
<1>t. tail \in Tails /\ TailOf(rpc, snapshot, scan, tail, outcome, f)
  BY <1>1, ReaderFacts DEF ReaderOf
\* Whatever came of the block, the tail is behind it.
<1>8. ASSUME tail' \in Tails, tail'.live, tail'.next_block = n, tail'.asked = tail.asked,
             tail'.file \in {None, path},
             \/ rpc' = "poll" /\ outcome' = outcome /\ tail'.polling /\ tail'.batch = NoFrame
             \/ /\ rpc' = "ready" /\ ~tail'.polling
                /\ \/ outcome' = "batch" /\ tail'.batch = FrameOf(f[n+1])
                   \/ outcome' = "decode_error"
      PROVE  ReaderInv(rpc', snapshot', scan', tail', outcome', path, data[path])
  <2>1. ReaderType(rpc', snapshot', scan', tail')
    BY <1>0, <1>8, ReaderFacts DEF ReaderType
  <2>2. CallsMatch(rpc', snapshot', tail')
    BY <1>0, <1>1, <1>8 DEF CallsMatch, Anchoring
  <2>3. OneFile(rpc', snapshot', scan', tail', path)
    BY <1>0, <1>8, ReaderFacts DEF OneFile, Anchoring, Walking
  <2>4. NotRefused(snapshot', outcome')
    BY <1>0, <1>8, ReaderFacts DEF NotRefused
  <2>5. n > 0 /\ n <= Len(snapshot.blocks)
    BY <1>3
  <2>h. tail.asked + 1 <= FrameCount(f)
    BY <1>t DEF TailOf
  <2> HIDE DEF f, n
  <2>6. TailOf(rpc', snapshot', scan', tail', outcome', f)
    BY <1>0, <1>8, <2>5, <2>h DEF TailOf, Anchoring, Walking
  <2>7. ReaderOf(rpc', snapshot', scan', tail', outcome', f)
    BY <1>0, <1>1, <1>8, <2>6 DEF ReaderOf, Walking
  <2> QED
    BY <1>1, <2>1, <2>2, <2>3, <2>4, <2>7 DEF ReaderInv, f
<1> HIDE DEF f, n, frame
<1>9. CASE /\ \E file \in {tail.file, R!TailFile} :
                tail' = [tail EXCEPT !.next_block = n, !.file = file]
           /\ rpc' = rpc /\ outcome' = outcome
  <2>1. PICK file \in {tail.file, R!TailFile} :
                tail' = [tail EXCEPT !.next_block = n, !.file = file]
    BY <1>9
  <2>2. file \in {None, path} /\ file \in Inodes \cup {None}
    BY <1>1, <1>4
  <2>3. tail.batch = NoFrame
    BY <1>1, <1>t DEF TailOf
  <2>4. /\ tail' \in Tails /\ tail'.live /\ tail'.next_block = n /\ tail'.asked = tail.asked
        /\ tail'.file \in {None, path} /\ tail'.polling /\ tail'.batch = NoFrame
    BY <1>1, <1>3, <1>t, <2>1, <2>2, <2>3 DEF Tails
  <2> QED
    BY <1>0, <1>8, <1>9, <2>4
<1>10. CASE /\ frame # NoFrame
            /\ tail' = [tail EXCEPT !.next_block = n, !.file = R!TailFile,
                                    !.polling = FALSE, !.batch = frame]
            /\ rpc' = "ready" /\ outcome' = "batch"
  <2>1. /\ tail' \in Tails /\ tail'.live /\ tail'.next_block = n /\ tail'.asked = tail.asked
        /\ tail'.file \in {None, path} /\ ~tail'.polling /\ tail'.batch = frame
    BY <1>1, <1>3, <1>4, <1>t, <1>7, <1>10 DEF Tails, FrameOrNot
  <2> QED
    BY <1>7, <1>8, <1>10, <2>1
<1>11. CASE /\ tail' = [tail EXCEPT !.next_block = n, !.file = R!TailFile, !.polling = FALSE]
            /\ rpc' = "ready" /\ outcome' = "decode_error"
  <2>1. /\ tail' \in Tails /\ tail'.live /\ tail'.next_block = n /\ tail'.asked = tail.asked
        /\ tail'.file \in {None, path} /\ ~tail'.polling
    BY <1>1, <1>3, <1>4, <1>t, <1>11 DEF Tails
  <2> QED
    BY <1>8, <1>11, <2>1
<1> QED
  BY <1>9, <1>10, <1>11 DEF R!DecodeNext, n, frame
-----------------------------------------------------------------------------
(* The invariant                                                           *)

LEMMA LiveInvInit == LiveInit => LiveInv
<1> SUFFICES ASSUME LiveInit PROVE LiveInv
  OBVIOUS
<1>1. StructInv
  BY StructInvInit DEF LiveInit
<1>2. /\ rpc = "closed" /\ snapshot = R!NoSnapshot /\ scan = R!NoScan /\ tail = R!NoTail
      /\ outcome = "none"
  BY DEF LiveInit, R!ReaderInit
<1>3. ~Has(snapshot) /\ rpc \notin Walking /\ rpc \notin Anchoring
  BY <1>2 DEF Has, Walking, Anchoring
<1>4. ReaderType(rpc, snapshot, scan, tail)
  BY <1>2, NoValuesType DEF ReaderType
<1>5. CallsMatch(rpc, snapshot, tail)
  BY <1>2, <1>3, NoValuesType DEF CallsMatch, Anchoring
<1>6. OneFile(rpc, snapshot, scan, tail, path)
  BY <1>2, <1>3, NoValuesType DEF OneFile
<1>7. ReaderInv(rpc, snapshot, scan, tail, outcome, path, data[path])
  BY <1>3, <1>4, <1>5, <1>6 DEF ReaderInv, NotRefused
<1> QED
  BY <1>1, <1>7 DEF LiveInv

LEMMA ReaderStepInv ==
    ASSUME LiveInv, R!ReaderNext, UNCHANGED vars
    PROVE  LiveInv'
<1>1. CASE R!OpenIdentity
  BY <1>1, OpenIdentityStep, ReaderStepKeeps
<1>2. CASE R!OpenFile
  BY <1>2, OpenFileStep, ReaderStepKeeps
<1>3. CASE R!Refresh \/ R!PollRefresh
  <2>1. /\ R!RefreshIdentity /\ rpc \in {"ready", "poll"}
        /\ rpc = "poll" => tail.next_block >= Len(snapshot.blocks)
    BY <1>3 DEF R!Refresh, R!PollRefresh
  <2> QED
    BY <2>1, RefreshIdentityStep, ReaderStepKeeps
<1>4. CASE R!RefreshOpen
  BY <1>4, RefreshOpenStep, ReaderStepKeeps
<1>5. CASE R!RefreshAnchor
  BY <1>5, RefreshAnchorStep, ReaderStepKeeps
<1>6. CASE R!RefreshScan
  BY <1>6, RefreshScanStep, ReaderStepKeeps
<1>7. CASE R!WalkPrefix
  BY <1>7, WalkPrefixStep, ReaderStepKeeps
<1>8. CASE R!WalkBody
  BY <1>8, WalkBodyStep, ReaderStepKeeps
<1>9. CASE R!WalkEnd
  BY <1>9, WalkEndStep, ReaderStepKeeps
<1>10. CASE R!StartTail \/ R!DropTail
  BY <1>10, StartTailStep, DropTailStep, ReaderStepKeeps
<1>11. CASE R!BeginPoll
  BY <1>11, BeginPollStep, ReaderStepKeeps
<1>12. CASE R!DecodeNext
  BY <1>12, DecodeNextStep, ReaderStepKeeps
<1>13. CASE R!Close
  BY <1>13, CloseStep, ReaderStepKeeps
<1> QED
  BY <1>1, <1>2, <1>3, <1>4, <1>5, <1>6, <1>7, <1>8, <1>9, <1>10, <1>11, <1>12, <1>13
     DEF R!ReaderNext, R!ReaderStep

LEMMA LiveInvStep == LiveInv /\ [LiveNext]_lvars => LiveInv'
<1> SUFFICES ASSUME LiveInv, [LiveNext]_lvars PROVE LiveInv'
  OBVIOUS
<1>1. CASE ProcessNext /\ UNCHANGED readerVars
  BY <1>1, ProcessStep DEF ProcessNext
<1>2. CASE R!ReaderNext /\ UNCHANGED vars
  BY <1>2, ReaderStepInv
<1>3. CASE UNCHANGED lvars
  <2>1. UNCHANGED vars /\ UNCHANGED readerVars
    BY <1>3 DEF lvars
  <2>2. /\ rpc' = rpc /\ snapshot' = snapshot /\ scan' = scan /\ tail' = tail
        /\ outcome' = outcome
    BY <2>1 DEF readerVars
  <2>3. ReaderInv(rpc', snapshot', scan', tail', outcome', path, data[path])
    BY <2>2 DEF LiveInv
  <2> QED
    BY <2>1, <2>3, ReaderStepKeeps
<1> QED
  BY <1>1, <1>2, <1>3 DEF LiveNext

LEMMA LiveInvHolds == LiveSpec => []LiveInv
  BY LiveInvInit, LiveInvStep, PTL DEF LiveSpec

-----------------------------------------------------------------------------
(* What the reader and the tail promise                                    *)

\* The committed frames of a file the reader has a snapshot of.
LEMMA CommittedOfFile ==
    ASSUME LiveInv, Has(snapshot)
    PROVE  LET f == data[path]
           IN  /\ path # None /\ f \in Seq(Run) /\ WellFormed(f) /\ FrameCount(f) \in Nat
               /\ SnapshotOf(snapshot, f) /\ Committed \in Seq(FrameSet)
               /\ Len(Committed) = FrameCount(f) - 1
               /\ \A k \in 1..Len(Committed) : Committed[k] = FrameOf(f[k+1])
               /\ (tail.live => TailOf(rpc, snapshot, scan, tail, outcome, f))
<1> DEFINE f == data[path]
<1>1. path # None /\ ReaderOf(rpc, snapshot, scan, tail, outcome, f)
  BY ReaderFacts
<1>2. f \in Seq(Run) /\ WellFormed(f) /\ FrameCount(f) \in Nat
  BY <1>1, PathFile
<1>3. FrameCount(f) # 0 /\ Committed = DataFrames(f)
  BY <1>1, <1>2 DEF ReaderOf, Committed
<1>4. Committed \in Seq(FrameSet)
  BY CommittedType DEF LiveInv
<1>5. /\ Len(Committed) = FrameCount(f) - 1
      /\ \A k \in 1..(FrameCount(f) - 1) : Committed[k] = FrameOf(f[k+1])
  BY <1>2, <1>3, DataFramesElements
<1> QED
  BY <1>1, <1>2, <1>4, <1>5 DEF ReaderOf

\* A reader exposes committed frames only, in order and without a gap, although
\* it takes no lock while writers append, die and repair (Reader::open and
\* Reader::refresh).
THEOREM ReadersSeeCommitted == LiveSpec => []SnapshotIsCommitted
<1>1. LiveInv => SnapshotIsCommitted
  <2> SUFFICES ASSUME LiveInv PROVE SnapshotIsCommitted
    OBVIOUS
  <2> DEFINE f == data[path]
             n == Len(snapshot.blocks)
  <2>0. snapshot.blocks \in Seq(Blocks) /\ n \in Nat
    BY ReaderFacts
  <2>b. /\ BlockFrames \in Seq(FrameSet) /\ Len(BlockFrames) = n
        /\ \A k \in 1..n : BlockFrames[k] = snapshot.blocks[k].frame
    <3>1. \A k \in 1..n : snapshot.blocks[k] \in Blocks
      BY <2>0
    <3>2. \A k \in 1..n : snapshot.blocks[k].frame \in FrameSet
      BY <3>1 DEF Blocks
    <3> QED
      BY <2>0, <3>2 DEF BlockFrames
  <2>1. CASE Has(snapshot)
    <3>1. /\ FrameCount(f) \in Nat /\ SnapshotOf(snapshot, f) /\ Committed \in Seq(FrameSet)
          /\ Len(Committed) = FrameCount(f) - 1
          /\ \A k \in 1..Len(Committed) : Committed[k] = FrameOf(f[k+1])
      BY <2>1, CommittedOfFile
    <3> HIDE DEF f
    <3>2. n + 1 <= FrameCount(f) /\ \A k \in 1..n : snapshot.blocks[k].frame = FrameOf(f[k+1])
      BY <3>1 DEF SnapshotOf, Holds
    <3> HIDE DEF n
    <3>3. n <= Len(Committed) /\ \A k \in 1..n : k \in 1..Len(Committed)
      BY <2>0, <3>1, <3>2
    <3>4. \A k \in 1..n : Committed[k] = BlockFrames[k]
      BY <2>b, <3>1, <3>2, <3>3
    <3>5. SubSeq(Committed, 1, Len(BlockFrames)) = BlockFrames
      BY <2>b, <3>1, <3>3, <3>4, PrefixOfSequence
    <3> QED
      BY <2>b, <3>3, <3>5 DEF SnapshotIsCommitted
  <2>2. CASE ~Has(snapshot)
    <3>1. n = 0 /\ BlockFrames = <<>>
      <4>1. n = 0
        BY <2>2, NoValuesType DEF Has
      <4> QED
        BY <2>b, <4>1
    <3>2. Len(Committed) \in Nat /\ SubSeq(Committed, 1, 0) = <<>>
      BY CommittedType, SubSeqEmpty DEF LiveInv
    <3> QED
      BY <3>1, <3>2 DEF SnapshotIsCommitted
  <2> QED
    BY <2>1, <2>2
<1> QED
  BY <1>1, LiveInvHolds, PTL

\* The resume point of a snapshot is the end of its last block in the file, with
\* the sequence and the row ID that the next frame must carry (resume_point).
THEOREM ResumePointsHold == LiveSpec => []ResumesAfterLastBlock
<1>1. LiveInv => ResumesAfterLastBlock
  <2> SUFFICES ASSUME LiveInv, Has(snapshot) PROVE ResumesAfterLastBlock
    BY DEF ResumesAfterLastBlock, R!HasSnapshot, Has
  <2>1. SnapshotOf(snapshot, data[path]) /\ Len(snapshot.blocks) \in Nat
    BY CommittedOfFile, ReaderFacts
  <2>2. (Len(snapshot.blocks) + 1) + 1 = Len(snapshot.blocks) + 2
    BY <2>1
  <2> QED
    BY <2>1, <2>2 DEF ResumesAfterLastBlock, SnapshotOf, Resumes, End
<1> QED
  BY <1>1, LiveInvHolds, PTL

\* Cooperating writers and repairs never make a refresh refuse the file it was
\* opened on (expect_own_committed_bytes, expect_own_file_header).
THEOREM RefusalsAreReal == LiveSpec => []NoFalseRefusal
<1>1. LiveInv => NoFalseRefusal
  BY ReaderFacts DEF NoFalseRefusal, NotRefused, Has, R!HasSnapshot
<1> QED
  BY <1>1, LiveInvHolds, PTL

\* A poll that returns None has dispatched every block committed when it began
\* (Tail::poll_next).
THEOREM PendingIsCaughtUp == LiveSpec => []NoneMeansCaughtUp
<1>1. LiveInv => NoneMeansCaughtUp
  <2> SUFFICES ASSUME LiveInv, tail.live PROVE NoneMeansCaughtUp
    BY DEF NoneMeansCaughtUp
  <2>1. TailOf(rpc, snapshot, scan, tail, outcome, data[path])
    BY CommittedOfFile, ReaderFacts DEF CallsMatch
  <2> QED
    BY <2>1 DEF NoneMeansCaughtUp, TailOf
<1> QED
  BY <1>1, LiveInvHolds, PTL

\* The batch a poll returns is the committed block at the tail's position
\* (decode_next).
THEOREM TailsDeliverCommitted == LiveSpec => []TailDeliversCommitted
<1>1. LiveInv => TailDeliversCommitted
  <2> SUFFICES ASSUME LiveInv, tail.live, outcome = "batch", tail.batch # NoFrame
               PROVE  tail.batch = Committed[tail.next_block]
    BY DEF TailDeliversCommitted
  <2> DEFINE f == data[path]
             n == tail.next_block
  <2>1. Has(snapshot) /\ n \in Nat /\ Len(snapshot.blocks) \in Nat
    BY ReaderFacts DEF CallsMatch, Tails
  <2>2. /\ FrameCount(f) \in Nat /\ SnapshotOf(snapshot, f)
        /\ Len(Committed) = FrameCount(f) - 1
        /\ \A k \in 1..Len(Committed) : Committed[k] = FrameOf(f[k+1])
        /\ TailOf(rpc, snapshot, scan, tail, outcome, f)
    BY <2>1, CommittedOfFile
  <2> HIDE DEF f
  <2>3. /\ n > 0 /\ n <= Len(snapshot.blocks) /\ tail.batch = FrameOf(f[n+1])
        /\ Len(snapshot.blocks) + 1 <= FrameCount(f)
    BY <2>2 DEF TailOf, SnapshotOf, Holds
  <2>4. n \in 1..Len(Committed)
    BY <2>1, <2>2, <2>3
  <2> QED
    BY <2>2, <2>3, <2>4
<1> QED
  BY <1>1, LiveInvHolds, PTL
\* A step of the reader keeps its blocks, and one that fails the whole snapshot.
Extends(s, t, o, u) ==
    /\ u # o /\ u \in R!Failures => t = s
    /\ Len(s.blocks) <= Len(t.blocks)
    /\ SubSeq(t.blocks, 1, Len(s.blocks)) = s.blocks
    /\ t.identity = s.identity

LEMMA SameSnapshot ==
    ASSUME NEW s \in Snapshots, NEW t, t = s, NEW o, NEW u
    PROVE  Extends(s, t, o, u)
<1>1. s.blocks \in Seq(Blocks) /\ Len(s.blocks) \in Nat
  BY DEF Snapshots
<1>2. SubSeq(s.blocks, 1, Len(s.blocks)) = s.blocks
  BY <1>1, PrefixOfSequence
<1> QED
  BY <1>1, <1>2 DEF Extends

LEMMA ConcatBehind ==
    ASSUME NEW s \in Seq(Blocks), NEW t \in Seq(Blocks)
    PROVE  /\ s \o t \in Seq(Blocks) /\ Len(s \o t) = Len(s) + Len(t) /\ Len(t) \in Nat
           /\ \A k \in 1..Len(s) : (s \o t)[k] = s[k]
  OBVIOUS

LEMMA ReaderExtends ==
    ASSUME LiveInv, R!ReaderNext, Has(snapshot), Has(snapshot')
    PROVE  Extends(snapshot, snapshot', outcome, outcome')
<1>0. /\ snapshot \in Snapshots /\ snapshot.blocks \in Seq(Blocks)
      /\ scan.staged \in Seq(Blocks) /\ Len(snapshot.blocks) \in Nat
  BY ReaderFacts
<1>1. CASE snapshot' = snapshot
  BY <1>0, <1>1, SameSnapshot
<1>r. ASSUME NEW added, R!Refreshed(added) PROVE outcome' = outcome \/ outcome' \notin R!Failures
  BY <1>r DEF R!Refreshed, R!Failures
<1>2. CASE R!RefreshAnchor /\ snapshot' # snapshot
  <2>1. /\ snapshot' = [snapshot EXCEPT !.file_size = snapshot.last_good_offset,
                                        !.incomplete_tail = FALSE]
        /\ R!Refreshed(0)
    BY <1>2 DEF R!RefreshAnchor, R!FailCall
  <2>2. snapshot'.blocks = snapshot.blocks /\ snapshot'.identity = snapshot.identity
    BY <1>0, <2>1 DEF Snapshots
  <2>3. SubSeq(snapshot.blocks, 1, Len(snapshot.blocks)) = snapshot.blocks
    BY <1>0, PrefixOfSequence
  <2> QED
    BY <1>0, <1>r, <2>1, <2>2, <2>3 DEF Extends
<1>3. CASE R!WalkEnd /\ snapshot' # snapshot
  <2>1. rpc \in Walking /\ R!Refreshed(Len(scan.staged))
        /\ snapshot' = R!WalkedSnapshot(data[scan.handle])
    BY <1>3 DEF R!WalkEnd, R!FailCall, Has, R!HasSnapshot, Walking
  <2>2. scan.identity = snapshot.identity
    BY <2>1, ReaderFacts DEF OneFile
  <2>3. /\ snapshot'.blocks = snapshot.blocks \o scan.staged
        /\ snapshot'.identity = snapshot.identity
    BY <2>1, <2>2 DEF R!WalkedSnapshot
  <2> DEFINE t == snapshot.blocks \o scan.staged
  <2>4. /\ t \in Seq(Blocks) /\ Len(t) = Len(snapshot.blocks) + Len(scan.staged)
        /\ Len(scan.staged) \in Nat
        /\ \A k \in 1..Len(snapshot.blocks) : t[k] = snapshot.blocks[k]
    BY <1>0, ConcatBehind
  <2> HIDE DEF t
  <2>5. \A a, b \in Nat : a <= a + b
    OBVIOUS
  <2>6. Len(snapshot.blocks) <= Len(t)
    BY <1>0, <2>4, <2>5
  <2>7. SubSeq(t, 1, Len(snapshot.blocks)) = snapshot.blocks
    BY <1>0, <2>4, <2>6, PrefixOfSequence
  <2> QED
    BY <1>r, <2>1, <2>3, <2>6, <2>7 DEF Extends, t
<1>4. CASE /\ ~R!RefreshAnchor /\ ~R!WalkEnd /\ ~R!Close
  <2>1. ASSUME NEW kind, R!FailCall(kind) PROVE snapshot' = snapshot
    BY <2>1 DEF R!FailCall
  <2>2. ASSUME NEW h, NEW x, NEW y, NEW z, R!StartScan(h, x, y, z) PROVE snapshot' = snapshot
    BY <2>2 DEF R!StartScan
  <2>3. R!RefreshIdentity => snapshot' = snapshot
    BY <2>1 DEF R!RefreshIdentity
  <2>4. snapshot' = snapshot
    BY <1>4, <2>1, <2>2, <2>3
       DEF R!ReaderNext, R!ReaderStep, R!OpenIdentity, R!OpenFile, R!Refresh, R!PollRefresh,
           R!RefreshOpen, R!RefreshScan, R!WalkPrefix, R!WalkBody, R!StartTail, R!DropTail,
           R!BeginPoll, R!DecodeNext
  <2> QED
    BY <1>1, <2>4
<1>5. ~R!Close
  BY DEF R!Close, Has
<1> QED
  BY <1>1, <1>2, <1>3, <1>4, <1>5

\* A refresh that fails leaves the snapshot untouched and one that succeeds only
\* extends it, whatever the processes did to the file meanwhile (the staged
\* commit at the end of Reader::refresh).
THEOREM SnapshotsOnlyExtend == LiveSpec => SnapshotOnlyExtends
<1> DEFINE Kept == Has(snapshot) /\ Has(snapshot') => Extends(snapshot, snapshot', outcome, outcome')
<1>1. LiveInv /\ [LiveNext]_lvars => [Kept]_lvars
  <2> SUFFICES ASSUME LiveInv, LiveNext, Has(snapshot), Has(snapshot')
               PROVE  Extends(snapshot, snapshot', outcome, outcome')
    OBVIOUS
  <2>1. CASE R!ReaderNext
    BY <2>1, ReaderExtends
  <2>2. CASE UNCHANGED readerVars
    <3>1. snapshot' = snapshot /\ snapshot \in Snapshots
      BY <2>2, ReaderFacts DEF readerVars
    <3> QED
      BY <3>1, SameSnapshot
  <2> QED
    BY <2>1, <2>2 DEF LiveNext
<1>2. LiveSpec => [][Kept]_lvars
  BY <1>1, LiveInvHolds, PTL DEF LiveSpec
<1>3. [Kept]_lvars =>
      [ R!HasSnapshot /\ snapshot' # R!NoSnapshot =>
          /\ outcome' # outcome /\ outcome' \in R!Failures => snapshot' = snapshot
          /\ Len(snapshot.blocks) <= Len(snapshot'.blocks)
          /\ SubSeq(snapshot'.blocks, 1, Len(snapshot.blocks)) = snapshot.blocks
          /\ snapshot'.identity = snapshot.identity ]_lvars
  BY DEF Extends, Has, R!HasSnapshot
<1> QED
  BY <1>2, <1>3, PTL DEF SnapshotOnlyExtends
=============================================================================
