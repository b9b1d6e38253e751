---------------------------- MODULE FileViewProofs ----------------------------
(***************************************************************************)
(* Proofs about FileView, for every block size, number of rows, scroll     *)
(* range and set of files.                                                 *)
(***************************************************************************)
EXTENDS FileView, TLAPS, FiniteSetTheorems, WellFoundedInduction

\* Every step of the scroll bar moves by little beside a block.  Without this the
\* theorems about the text are false.
SmallSteps == \A f \in Files : 4 * Rows * Resolution(f.size) <= BlockSize

\* A buffer that was loaded begins at buffer_pos and has two blocks or reaches the
\* end of the file.
InFile ==
    /\ buffer_pos \in 0..file.size
    /\ buffer.len \in Nat
    /\ buffer.from = buffer_pos
    /\ buffer.len >= 2 * BlockSize \/ buffer_pos + buffer.len = file.size
    /\ buffer_pos + buffer.len <= file.size

\* The buffer is in step with its position, and so are the rows cut out of it.
Sound ==
    /\ (buffer = Empty /\ buffer_pos = 0) \/ InFile
    /\ ReadsStayInLoaded
    /\ ShowsPosition
    /\ ShowsEnoughRows

\* The inductive invariant: until a load throws, the buffer is sound.  (A load that
\* throws between the two of load_buff leaves it out of step.)
Inv ==
    /\ TypeOK
    /\ symbols_per_scroll = Resolution(file.size)
    /\ ~lost => Sound

-----------------------------------------------------------------------------

LEMMA BlockOf ==
    ASSUME NEW n \in Nat
    PROVE  /\ n \div BlockSize \in Nat
           /\ (n \div BlockSize) * BlockSize \in Nat
           /\ (n \div BlockSize) * BlockSize <= n
           /\ n < (n \div BlockSize) * BlockSize + BlockSize
  BY BlockSizeAssumption

LEMMA BlocksInOrder ==
    ASSUME NEW m \in Nat, NEW n \in Nat, m <= n
    PROVE  m * BlockSize <= n * BlockSize
  BY BlockSizeAssumption

\* The step of the scroll bar is a positive number.
LEMMA ResolutionIsPositive ==
    ASSUME NEW n \in Nat
    PROVE  Resolution(n) \in Nat \ {0}
  BY RowsAssumption DEF Resolution

\* load_buff leaves a buffer that is in the file and holds the position.
LEMMA BlocksHold ==
    ASSUME file.size \in Nat, NEW pos \in 0..file.size
    PROVE  LET b == Blocks(pos, Loads(pos))
               base == Low(pos) * BlockSize
           IN  /\ base \in 0..file.size /\ base <= pos
               /\ b.from = base
               /\ b.len \in Nat
               /\ b.len >= 2 * BlockSize \/ base + b.len = file.size
               /\ base + b.len <= file.size
               /\ pos - base <= b.len
<1> DEFINE base == Low(pos) * BlockSize
           last == MaxBlock(file.size) * BlockSize
<1>1. /\ Low(pos) \in Nat /\ base \in Nat
      /\ base <= pos /\ pos < base + BlockSize
  BY BlockOf DEF Low
<1>2. /\ MaxBlock(file.size) \in Nat /\ last \in Nat
      /\ file.size < last + BlockSize
  BY BlockOf DEF MaxBlock
<1>3. ~HasNext(pos) => file.size < base + BlockSize
  <2>1. SUFFICES ASSUME ~HasNext(pos) PROVE last <= base
    BY <1>1, <1>2, BlockSizeAssumption
  <2>2. MaxBlock(file.size) <= Low(pos)
    BY <1>1, <1>2, <2>1 DEF HasNext
  <2> QED
    BY <1>1, <1>2, <2>2, BlocksInOrder
<1> HIDE DEF base
<1>4. CASE HasNext(pos)
  <2>1. Blocks(pos, Loads(pos)) =
            [from |-> base, len |-> IF file.size - base < 2 * BlockSize
                                    THEN file.size - base ELSE 2 * BlockSize]
    BY <1>4 DEF Blocks, Loads, base
  <2> QED
    BY <1>1, <2>1, BlockSizeAssumption DEF base
<1>5. CASE ~HasNext(pos)
  <2>1. Blocks(pos, Loads(pos)) =
            [from |-> base, len |-> IF file.size - base < 1 * BlockSize
                                    THEN file.size - base ELSE 1 * BlockSize]
    BY <1>5 DEF Blocks, Loads, base
  <2>2. 1 * BlockSize = BlockSize
    BY BlockSizeAssumption
  <2> QED
    BY <1>1, <1>3, <1>5, <2>1, <2>2, BlockSizeAssumption DEF base
<1> QED
  BY <1>4, <1>5

\* Without a load, the buffer already holds the position.
LEMMA BufferHolds ==
    ASSUME SmallSteps, TypeOK, symbols_per_scroll = Resolution(file.size), InFile,
           NEW pos \in 0..file.size, buffer.len # 0, ~NeedsLoad(pos)
    PROVE  buffer_pos <= pos /\ pos - buffer_pos <= buffer.len
<1>1. file.size \in Nat /\ file \in Files
  BY FilesAssumption DEF TypeOK
<1> DEFINE near == 4 * Rows * symbols_per_scroll
<1>2. near \in Nat /\ near <= BlockSize
  BY <1>1, ResolutionIsPositive, RowsAssumption DEF SmallSteps
<1>3. pos >= buffer_pos /\ pos <= buffer_pos + BlockSize + near
  <2>1. ~(pos < buffer_pos) /\ ~(pos > buffer_pos + BlockSize + near)
    BY DEF NeedsLoad
  <2> QED
    BY <1>1, <1>2, <2>1, BlockSizeAssumption DEF InFile
<1> QED
  BY <1>1, <1>2, <1>3, BlockSizeAssumption DEF InFile

-----------------------------------------------------------------------------
(***************************************************************************)
(* The rows.                                                               *)
(***************************************************************************)

\* A set of natural numbers has a least member, and a greatest if it is bounded.
LEMMA Least ==
    ASSUME NEW S, \A n \in S : n \in Nat, S # {}
    PROVE  Min(S) \in S /\ \A n \in S : Min(S) <= n
<1> S \subseteq Nat
  OBVIOUS
<1>1. PICK m \in S : \A n \in S : ~(<<n, m>> \in OpToRel(<, Nat))
  BY NatLessThanWellFounded, WFMin
<1>2. \A n \in S : ~(n < m)
  BY <1>1 DEF OpToRel
<1>3. \A n \in S : m <= n
  BY <1>2
<1> QED
  BY <1>3 DEF Min

LEMMA Greatest ==
    ASSUME NEW S, NEW top \in Nat, \A n \in S : n \in Nat /\ n <= top, S # {}
    PROVE  Max(S) \in S /\ \A n \in S : n <= Max(S)
<1> DEFINE T == {top - n : n \in S}
<1>1. (\A n \in T : n \in Nat) /\ T # {}
  OBVIOUS
<1>2. Min(T) \in T /\ \A n \in T : Min(T) <= n
  BY <1>1, Least
<1>3. PICK m \in S : Min(T) = top - m
  BY <1>2
<1>4. \A n \in S : top - m <= top - n
  BY <1>2, <1>3
<1>5. \A n \in S : m >= n
  BY <1>4
<1>6. Max(S) \in S /\ \A n \in S : Max(S) >= n
  BY <1>5 DEF Max
<1> QED
  BY <1>6

Buffers == [from : Nat, len : Nat]

LEMMA NewlinesAre ==
    ASSUME NEW b \in Buffers, NEW lo \in Nat, NEW hi \in Int
    PROVE  /\ \A i \in Newlines(b, lo, hi) : i \in Nat /\ lo <= i /\ i <= hi /\ i < b.len
           /\ IsFiniteSet(Newlines(b, lo, hi))
           /\ RowsIn(b, lo, hi) \in Nat
<1>1. \A i \in Newlines(b, lo, hi) : i \in Nat /\ lo <= i /\ i <= hi /\ i < b.len
  BY DEF Newlines
<1>2. Newlines(b, lo, hi) \in SUBSET (lo..hi)
  BY DEF Newlines
<1>3. IsFiniteSet(Newlines(b, lo, hi))
  BY <1>2, FS_Interval, FS_Subset
<1> QED
  BY <1>1, <1>3, FS_CardinalityType DEF RowsIn

LEMMA RowEndIs ==
    ASSUME NEW b \in Buffers, NEW rel \in Nat
    PROVE  /\ RowEnd(b, rel) \in Nat /\ rel <= RowEnd(b, rel)
           /\ rel <= b.len => RowEnd(b, rel) <= b.len
           /\ \A i \in rel..(RowEnd(b, rel) - 1) : b.from + i \notin file.rows
<1>1. b.len \in Nat /\ b.from \in Nat
  BY DEF Buffers
<1>2. CASE rel < b.len
  <2> DEFINE N == Newlines(b, rel, b.len)
             S == N \cup {b.len}
  <2>1. S # {} /\ \A i \in S : i \in Nat /\ rel <= i
    <3>1. \A i \in N : i \in Nat /\ rel <= i
      <4>1. b.len \in Int
        BY <1>1
      <4> QED
        BY <4>1, NewlinesAre
    <3> HIDE DEF N
    <3> QED
      BY <1>1, <1>2, <3>1
  <2>2. Min(S) \in S /\ (\A n \in S : Min(S) <= n) /\ RowEnd(b, rel) = Min(S)
    BY <1>2, <2>1, Least DEF RowEnd
  <2>3. ASSUME NEW i \in rel..(RowEnd(b, rel) - 1), b.from + i \in file.rows PROVE FALSE
    <3>1. RowEnd(b, rel) \in Nat /\ RowEnd(b, rel) <= b.len
      BY <1>1, <2>1, <2>2
    <3>2. i \in Newlines(b, rel, b.len)
      BY <1>1, <2>3, <3>1 DEF Newlines
    <3>3. RowEnd(b, rel) <= i
      BY <2>2, <3>2
    <3> QED
      BY <1>1, <2>3, <3>1, <3>3
  <2> QED
    BY <1>1, <2>1, <2>2, <2>3
<1>3. CASE ~(rel < b.len)
  BY <1>1, <1>3 DEF RowEnd
<1> QED
  BY <1>2, <1>3

LEMMA RowStartIs ==
    ASSUME NEW b \in Buffers, NEW rel \in Nat
    PROVE  RowStart(b, rel) \in 0..rel
<1> DEFINE N == Newlines(b, 1, rel)
           S == N \cup {0}
<1>1. S # {} /\ \A i \in S : i \in Nat /\ i <= rel
  <2>1. \A i \in N : i \in Nat /\ i <= rel
    BY NewlinesAre
  <2> HIDE DEF N
  <2> QED
    BY <2>1
<1>2. Max(S) \in S
  BY <1>1, Greatest
<1> QED
  BY <1>1, <1>2 DEF RowStart

\* There are Rows rows up to NextEnd if the buffer has them, and else it is at the
\* end of the buffer.
LEMMA NextEndIs ==
    ASSUME NEW b \in Buffers, NEW start \in 0..b.len
    PROVE  /\ NextEnd(b, start) \in start..b.len
           /\ IF RowsIn(b, start + 1, b.len) >= Rows
              THEN RowsIn(b, start + 1, NextEnd(b, start)) >= Rows
              ELSE NextEnd(b, start) = b.len
<1>1. b.len \in Nat /\ start \in Nat /\ start + 1 \in Nat
  BY DEF Buffers
<1> DEFINE all  == Newlines(b, start + 1, b.len)
           S(i) == RowsIn(b, start + 1, i)
           T    == {i \in all : S(i) >= Rows}
<1>2. /\ \A i \in all : i \in Nat /\ start + 1 <= i /\ i < b.len
      /\ IsFiniteSet(all)
  <2>1. \A lo \in Nat, hi \in Int :
          /\ \A i \in Newlines(b, lo, hi) : i \in Nat /\ lo <= i /\ i <= hi /\ i < b.len
          /\ IsFiniteSet(Newlines(b, lo, hi))
    BY NewlinesAre
  <2>2. start + 1 \in Nat /\ b.len \in Int
    BY <1>1
  <2> QED
    BY <2>1, <2>2
<1> HIDE DEF all
<1>3. T \cup {b.len} # {} /\ \A i \in T \cup {b.len} : i \in Nat
  BY <1>1, <1>2
<1>4. /\ NextEnd(b, start) = Min(T \cup {b.len})
      /\ NextEnd(b, start) \in T \cup {b.len}
      /\ \A i \in T : NextEnd(b, start) <= i
  BY <1>3, Least DEF NextEnd, all
<1>5. NextEnd(b, start) \in start..b.len
  BY <1>1, <1>2, <1>4
<1>6. CASE S(b.len) >= Rows
  <2>1. all # {}
    BY <1>6, FS_EmptySet, RowsAssumption DEF RowsIn, all
  <2>2. /\ Max(all) \in all /\ Max(all) \in Nat
        /\ \A i \in all : i <= Max(all)
    <3>1. \A i \in all : i \in Nat /\ i <= b.len
      BY <1>1, <1>2
    <3> QED
      BY <1>1, <2>1, <3>1, Greatest
  <2>3. Newlines(b, start + 1, Max(all)) = all
    BY <1>1, <1>2, <2>2 DEF Newlines, all
  <2>4. Max(all) \in T
    BY <1>6, <2>2, <2>3 DEF RowsIn, all
  <2>5. NextEnd(b, start) # b.len \/ NextEnd(b, start) \in T
    <3>1. Max(all) < b.len
      BY <1>2, <2>2
    <3> QED
      BY <1>1, <1>4, <1>5, <2>2, <2>4, <3>1
  <2> QED
    BY <1>4, <1>5, <1>6, <2>5
<1>7. CASE ~(S(b.len) >= Rows)
  <2>1. ASSUME NEW i \in all, S(i) >= Rows PROVE FALSE
    <3>1. Newlines(b, start + 1, i) \in SUBSET all
      BY <1>1, <1>2, <2>1 DEF Newlines, all
    <3>2. S(i) <= S(b.len)
      BY <1>2, <3>1, FS_Subset DEF RowsIn, all
    <3>3. i \in Int /\ b.len \in Int
      BY <1>1, <1>2
    <3>4. S(i) \in Nat /\ S(b.len) \in Nat
      BY <1>1, <3>3, NewlinesAre
    <3> QED
      BY <1>7, <2>1, <3>2, <3>4, RowsAssumption
  <2>2. T = {}
    BY <2>1
  <2> QED
    BY <1>4, <1>5, <1>7, <2>2
<1> QED
  BY <1>6, <1>7

LEMMA PreviousStartIs ==
    ASSUME NEW b \in Buffers, NEW start \in 0..b.len
    PROVE  LET missing == Rows - RowsIn(b, start + 1, b.len)
               begin   == PreviousStart(b, start)
           IN  /\ begin \in 0..start
               /\ missing > 0 => (begin = 0 \/ RowsIn(b, begin, start - 1) >= missing)
<1> DEFINE missing == Rows - RowsIn(b, start + 1, b.len)
           before == Newlines(b, 0, start - 1)
           T == {i \in before : RowsIn(b, i, start - 1) >= missing}
<1>1. b.len \in Nat /\ start \in Nat /\ missing \in Int
  BY NewlinesAre, RowsAssumption DEF Buffers
<1>2. CASE missing <= 0
  BY <1>1, <1>2 DEF PreviousStart
<1>3. CASE ~(missing <= 0)
  <2>1. T \cup {0} # {} /\ \A i \in T \cup {0} : i \in Nat /\ i <= start
    <3>1. \A i \in before : i \in Nat /\ i <= start - 1
      BY <1>1, NewlinesAre
    <3> HIDE DEF before
    <3> QED
      BY <1>1, <3>1
  <2>2. Max(T \cup {0}) \in T \cup {0}
    BY <1>1, <2>1, Greatest
  <2>3. PreviousStart(b, start) = Max(T \cup {0})
    BY <1>3 DEF PreviousStart
  <2> QED
    BY <1>1, <2>1, <2>2, <2>3
<1> QED
  BY <1>2, <1>3

\* Rows that end from lo to hi of the buffer end there in the file.
LEMMA RowsOfFile ==
    ASSUME NEW b \in Buffers, NEW lo \in Nat, NEW hi \in Int
    PROVE  RowsIn(b, lo, hi) <= Cardinality(((b.from + lo)..(b.from + hi)) \cap file.rows)
<1> DEFINE S == Newlines(b, lo, hi)
           I == (b.from + lo)..(b.from + hi)
           T == I \cap file.rows
           f == [i \in S |-> b.from + i]
<1>1. b.from \in Nat
  BY DEF Buffers
<1>2. \A i \in S : i \in Nat /\ b.from + i \in T
  BY <1>1 DEF Newlines
<1>3. f \in [S -> T] /\ \A i, j \in S : f[i] = f[j] => i = j
  BY <1>1, <1>2
<1>4. f \in Injection(S, T)
  BY <1>3 DEF Injection, IsInjective
<1>5. IsFiniteSet(T)
  <2>1. IsFiniteSet(I)
    BY <1>1, FS_Interval
  <2> QED
    BY <2>1, FS_Intersection
<1> HIDE DEF S, T, f
<1>6. Cardinality(S) <= Cardinality(T)
  BY <1>4, <1>5, FS_Injection
<1> QED
  BY <1>6 DEF RowsIn, S, T

\* The rows from PreviousStart to NextEnd are enough, or they are all there are.
LEMMA RowsAreEnough ==
    ASSUME NEW b \in Buffers, NEW start \in 0..b.len
    PROVE  LET begin == PreviousStart(b, start)
               end   == NextEnd(b, start)
           IN  RowsIn(b, begin, end) >= Rows \/ (begin = 0 /\ end = b.len)
<1> DEFINE begin == PreviousStart(b, start)
           end   == NextEnd(b, start)
           after == Newlines(b, start + 1, end)
           before == Newlines(b, begin, start - 1)
           shownRows == Newlines(b, begin, end)
           missing == Rows - RowsIn(b, start + 1, b.len)
<1>1. b.len \in Nat /\ start \in Nat /\ Rows \in Nat
  BY RowsAssumption DEF Buffers
<1>2. /\ end \in start..b.len
      /\ IF RowsIn(b, start + 1, b.len) >= Rows
         THEN RowsIn(b, start + 1, end) >= Rows ELSE end = b.len
  BY NextEndIs
<1>3. /\ begin \in 0..start
      /\ missing > 0 => (begin = 0 \/ RowsIn(b, begin, start - 1) >= missing)
  BY PreviousStartIs
<1> HIDE DEF begin, end
<1>4. /\ IsFiniteSet(after) /\ IsFiniteSet(before) /\ IsFiniteSet(shownRows)
      /\ Cardinality(after) \in Nat /\ Cardinality(before) \in Nat
      /\ Cardinality(shownRows) \in Nat /\ RowsIn(b, start + 1, b.len) \in Nat
  <2>1. begin \in Nat /\ start + 1 \in Nat /\ end \in Int /\ start - 1 \in Int /\ b.len \in Int
    BY <1>1, <1>2, <1>3
  <2>2. \A lo \in Nat, hi \in Int :
          IsFiniteSet(Newlines(b, lo, hi)) /\ Cardinality(Newlines(b, lo, hi)) \in Nat
    BY NewlinesAre DEF RowsIn
  <2> QED
    BY <2>1, <2>2 DEF RowsIn
<1>5. after \in SUBSET shownRows /\ before \in SUBSET shownRows /\ before \cap after = {}
  BY <1>1, <1>2, <1>3 DEF Newlines
<1>6. CASE RowsIn(b, start + 1, b.len) >= Rows
  <2>1. Cardinality(after) >= Rows
    BY <1>2, <1>6 DEF RowsIn
  <2> HIDE DEF after, shownRows
  <2>2. Cardinality(after) <= Cardinality(shownRows)
    BY <1>4, <1>5, FS_Subset
  <2>3. Cardinality(shownRows) >= Rows
    BY <1>1, <1>4, <2>1, <2>2
  <2> QED
    BY <2>3 DEF RowsIn, begin, end, shownRows
<1>7. CASE ~(RowsIn(b, start + 1, b.len) >= Rows) /\ begin # 0
  <2>1. end = b.len /\ Cardinality(after) = RowsIn(b, start + 1, b.len)
    BY <1>2, <1>7 DEF RowsIn
  <2>2. missing > 0
    BY <1>1, <1>4, <1>7
  <2>3. Cardinality(before) >= Rows - Cardinality(after)
    BY <1>3, <1>7, <2>1, <2>2 DEF RowsIn
  <2> HIDE DEF after, before, shownRows
  <2>4. IsFiniteSet(before \cup after) /\
        Cardinality(before \cup after) = Cardinality(before) + Cardinality(after)
    <3>1. Cardinality(before \cup after) =
              Cardinality(before) + Cardinality(after) - Cardinality(before \cap after)
      BY <1>4, FS_Union
    <3>2. Cardinality(before \cap after) = 0
      BY <1>5, FS_EmptySet
    <3> QED
      BY <1>4, <3>1, <3>2, FS_Union
  <2>5. before \cup after \in SUBSET shownRows
    BY <1>5
  <2>6. Cardinality(before \cup after) <= Cardinality(shownRows)
    BY <1>4, <2>5, FS_Subset
  <2>7. Cardinality(shownRows) >= Rows
    BY <1>1, <1>4, <2>3, <2>4, <2>6
  <2> QED
    BY <2>7 DEF RowsIn, begin, end, shownRows
<1>8. CASE ~(RowsIn(b, start + 1, b.len) >= Rows) /\ begin = 0
  BY <1>2, <1>8 DEF begin, end
<1> QED
  BY <1>6, <1>7, <1>8

-----------------------------------------------------------------------------
(***************************************************************************)
(* What get_strings_for_pos ends with.                                     *)
(***************************************************************************)

Results == [kind : {"none", "text", "thrown", "outside"}, lo : Nat, hi : Nat]

\* The rows are cut out of the buffer.
LEMMA CutRowsInside ==
    ASSUME NEW b \in Buffers, NEW pos \in Nat, NEW base \in Nat, base <= pos,
           pos - base <= b.len, CutRows(pos, b, base)
    PROVE  \E begin, end \in Nat :
             /\ shown' = Text(b.from + begin, b.from + end)
             /\ begin <= end /\ pos - base <= end /\ end <= b.len
             /\ begin <= pos - base \/
                  \A i \in (pos - base)..(begin - 1) : b.from + i \notin file.rows
             /\ RowsIn(b, begin, end) >= Rows \/ (begin = 0 /\ end = b.len)
             /\ next_row_size' \in Nat /\ prev_row_size' \in Nat
<1> DEFINE rel   == pos - base
           start == IF pos = 0 THEN 0 ELSE RowEnd(b, rel)
           begin == PreviousStart(b, start)
           end   == NextEnd(b, start)
<1>1. rel \in Nat /\ rel <= b.len /\ b.len \in Nat /\ b.from \in Nat
  BY DEF Buffers
<1>2. /\ shown' = Text(b.from + begin, b.from + end)
      /\ next_row_size' = RowEnd(b, rel) - rel + 1
      /\ prev_row_size' = rel - RowStart(b, rel) + 1
  BY <1>1 DEF CutRows
<1> HIDE DEF rel
<1>3. /\ RowEnd(b, rel) \in Nat /\ rel <= RowEnd(b, rel) /\ RowEnd(b, rel) <= b.len
      /\ \A i \in rel..(RowEnd(b, rel) - 1) : b.from + i \notin file.rows
  BY <1>1, RowEndIs
<1>4. RowStart(b, rel) \in 0..rel
  BY <1>1, RowStartIs
<1>5. start \in 0..b.len /\ rel <= start /\ start <= RowEnd(b, rel)
  BY <1>1, <1>3 DEF rel
<1> HIDE DEF start
<1>6. begin \in 0..start /\ end \in start..b.len
  BY <1>5, NextEndIs, PreviousStartIs
<1>7. RowsIn(b, begin, end) >= Rows \/ (begin = 0 /\ end = b.len)
  BY <1>5, RowsAreEnough
<1> HIDE DEF begin, end
<1>8. begin \in Nat /\ end \in Nat /\ begin <= end /\ rel <= end /\ end <= b.len
  BY <1>1, <1>5, <1>6
<1>9. next_row_size' \in Nat /\ prev_row_size' \in Nat
  BY <1>1, <1>2, <1>3, <1>4
<1>10. \A i \in rel..(begin - 1) : b.from + i \notin file.rows
  BY <1>1, <1>3, <1>5, <1>6
<1> QED
  BY <1>2, <1>7, <1>8, <1>9, <1>10 DEF rel

LEMMA CutRowsType ==
    ASSUME NEW b \in Buffers, NEW pos \in Nat, NEW base \in Nat, base <= pos,
           CutRows(pos, b, base)
    PROVE  shown' \in Results /\ next_row_size' \in Nat /\ prev_row_size' \in Nat
<1>1. b.len \in Nat /\ b.from \in Nat /\ pos - base \in Nat
  BY DEF Buffers
<1>2. CASE pos - base <= b.len
  BY <1>1, <1>2, CutRowsInside DEF Results, Text
<1>3. CASE ~(pos - base <= b.len)
  <2>1. /\ next_row_size' = RowEnd(b, pos - base) - (pos - base) + 1
        /\ prev_row_size' \in 1..(pos - base + 1)
        /\ shown' = Outside
    BY <1>3 DEF CutRows
  <2>2. RowEnd(b, pos - base) \in Nat /\ pos - base <= RowEnd(b, pos - base)
    BY <1>1, RowEndIs
  <2> QED
    BY <1>1, <2>1, <2>2 DEF Results, Outside
<1> QED
  BY <1>2, <1>3

\* A text that was cut out of a buffer that begins at its place in the file.
LEMMA CutRowsShows ==
    ASSUME NEW pos \in Nat, file' = file, at' = pos, buffer' \in Buffers,
           buffer'.from = buffer_pos', buffer_pos' <= pos,
           pos - buffer_pos' <= buffer'.len, CutRows(pos, buffer', buffer_pos'),
           file.size \in Nat, buffer_pos' + buffer'.len <= file.size
    PROVE  shown'.kind = "text" /\ ShowsPosition' /\ ShowsEnoughRows'
<1> DEFINE b == buffer'
           base == buffer_pos'
<1>1. base \in Nat /\ b.len \in Nat /\ b.from = base
  BY DEF Buffers
<1>2. PICK begin, end \in Nat :
        /\ shown' = Text(b.from + begin, b.from + end)
        /\ begin <= end /\ pos - base <= end /\ end <= b.len
        /\ begin <= pos - base \/
             \A i \in (pos - base)..(begin - 1) : b.from + i \notin file.rows
        /\ RowsIn(b, begin, end) >= Rows \/ (begin = 0 /\ end = b.len)
  BY <1>1, CutRowsInside
<1>3. shown'.kind = "text" /\ shown'.lo = base + begin /\ shown'.hi = base + end
  BY <1>1, <1>2 DEF Text
<1>4. ShowsPosition'
  <2>1. shown'.lo <= shown'.hi /\ at' <= shown'.hi /\ shown'.hi <= file'.size
    BY <1>1, <1>2, <1>3
  <2>2. shown'.lo <= at' \/ (at'..(shown'.lo - 1)) \cap file'.rows = {}
    <3>1. base + begin <= pos \/ (pos..(base + begin - 1)) \cap file.rows = {}
      <4> HIDE DEF base, b
      <4>1. SUFFICES ASSUME ~(base + begin <= pos), NEW n \in pos..(base + begin - 1),
                            n \in file.rows
                     PROVE  FALSE
        OBVIOUS
      <4>2. n - base \in (pos - base)..(begin - 1) /\ b.from + (n - base) = n
        BY <1>1, <4>1
      <4>3. ~(begin <= pos - base)
        BY <1>1, <4>1
      <4> QED
        BY <1>2, <4>1, <4>2, <4>3
    <3>2. shown'.lo = base + begin /\ at' = pos /\ file' = file
      BY <1>3
    <3>3. shown'.lo <= at' <=> base + begin <= pos
      BY <1>1, <3>2
    <3> QED
      BY <1>1, <3>1, <3>2, <3>3
  <2> QED
    BY <2>1, <2>2 DEF ShowsPosition
<1>5. ShowsEnoughRows'
  <2>1. CASE RowsIn(b, begin, end) >= Rows
    <3>1. RowsIn(b, begin, end) <= Cardinality(((base + begin)..(base + end)) \cap file.rows)
      BY <1>1, <1>2, RowsOfFile
    <3>2. Cardinality((shown'.lo..shown'.hi) \cap file'.rows) >= Rows
      <4>1. RowsIn(b, begin, end) \in Nat
        BY <1>1, <1>2, NewlinesAre
      <4>2. IsFiniteSet((base + begin)..(base + end))
        <5>1. base + begin \in Int /\ base + end \in Int
          BY <1>1, <1>2
        <5> HIDE DEF base
        <5> QED
          BY <5>1, FS_Interval
      <4>3. Cardinality(((base + begin)..(base + end)) \cap file.rows) \in Nat
        BY <4>2, FS_Intersection, FS_CardinalityType
      <4> QED
        BY <1>3, <2>1, <3>1, <4>1, <4>3, RowsAssumption
    <3> QED
      BY <3>2 DEF ShowsEnoughRows
  <2>2. CASE begin = 0 /\ end = b.len
    <3>1. base + begin = base /\ base + end = base + b.len
      <4> HIDE DEF base, b
      <4> QED
        BY <1>1, <2>2
    <3> QED
      BY <1>1, <1>3, <3>1 DEF ShowsEnoughRows
  <2> QED
    BY <1>2, <2>1, <2>2
<1> QED
  BY <1>3, <1>4, <1>5

-----------------------------------------------------------------------------
(***************************************************************************)
(* Types: no step needs an assumption.                                     *)
(***************************************************************************)

LEMMA BlocksType ==
    ASSUME file.size \in Nat, NEW pos \in 0..file.size, NEW n \in {1, 2}
    PROVE  Blocks(pos, n) \in Buffers
<1> DEFINE base == Low(pos) * BlockSize
           room == file.size - base
<1>1. base \in Nat /\ room \in Nat
  BY BlockOf DEF Low
<1>2. n * BlockSize \in Nat
  BY BlockSizeAssumption
<1>3. Blocks(pos, n) = [from |-> base, len |-> IF room < n * BlockSize THEN room ELSE n * BlockSize]
  BY DEF Blocks
<1> HIDE DEF base, room
<1> QED
  BY <1>1, <1>2, <1>3 DEF Buffers

LEMMA GetStringsType ==
    ASSUME TypeOK, NEW p \in Nat, GetStringsForPos(p)
    PROVE  TypeOK'
<1>1. file.size \in Nat /\ buffer \in Buffers /\ buffer_pos \in Nat
  BY FilesAssumption DEF TypeOK, Buffers
<1> DEFINE pos == IF p > file.size THEN file.size ELSE p
<1>2. pos \in 0..file.size /\ pos \in Nat
  BY <1>1
<1>3. at' = pos /\ file' = file /\ symbols_per_scroll' = symbols_per_scroll
  BY DEF GetStringsForPos
<1>4. Low(pos) * BlockSize \in Nat /\ Low(pos) * BlockSize <= pos /\ Loads(pos) \in {1, 2}
  BY <1>2, BlockOf DEF Low, Loads
<1> HIDE DEF pos
<1> SUFFICES /\ buffer' \in Buffers /\ buffer_pos' \in Nat /\ lost' \in BOOLEAN
             /\ shown' \in Results /\ next_row_size' \in Nat /\ prev_row_size' \in Nat
  BY <1>2, <1>3 DEF TypeOK, Results, Buffers
<1>5. CASE /\ ~NeedsLoad(pos)
           /\ CutRows(pos, buffer, buffer_pos)
           /\ UNCHANGED <<buffer, buffer_pos, lost>>
  <2>1. buffer_pos <= pos
    BY <1>1, <1>2, <1>5 DEF NeedsLoad
  <2> QED
    BY <1>1, <1>2, <1>5, <2>1, CutRowsType DEF TypeOK
<1>6. CASE /\ buffer' = Blocks(pos, Loads(pos))
           /\ buffer_pos' = Low(pos) * BlockSize
           /\ CutRows(pos, buffer', buffer_pos')
           /\ UNCHANGED lost
  BY <1>1, <1>2, <1>4, <1>6, BlocksType, CutRowsType DEF TypeOK
<1>7. CASE /\ buffer' = buffer \/ buffer' = Blocks(pos, 1)
           /\ lost' = TRUE
           /\ shown' = Thrown
           /\ UNCHANGED <<buffer_pos, prev_row_size, next_row_size>>
  BY <1>1, <1>2, <1>7, BlocksType DEF TypeOK, Thrown, Results
<1> QED
  BY <1>5, <1>6, <1>7 DEF GetStringsForPos, pos

LEMMA InitType ==
    ASSUME Init PROVE TypeOK
  BY FilesAssumption, ResolutionIsPositive DEF Init, TypeOK, Empty, Nothing

LEMMA ConnectType ==
    ASSUME Connect PROVE TypeOK'
  BY FilesAssumption, ResolutionIsPositive
  DEF Connect, ResetPosition, TypeOK, Empty, Nothing

\* Sizes and positions never go below zero, whatever is loaded and however loads
\* fail.
THEOREM TypeCorrect == Spec => []TypeOK
<1>1. Init => TypeOK
  BY InitType
<1>2. TypeOK /\ [Next]_vars => TypeOK'
  <2>1. SUFFICES ASSUME TypeOK, [Next]_vars PROVE TypeOK'
    OBVIOUS
  <2>2. CASE Connect
    BY <2>2, ConnectType
  <2>3. CASE \E p \in 0..(file.size + 1) : GetStringsForPos(p)
    BY <2>1, <2>3, GetStringsType
  <2>4. CASE UNCHANGED vars
    BY <2>1, <2>4 DEF vars, TypeOK
  <2> QED
    BY <2>1, <2>2, <2>3, <2>4 DEF Next
<1> QED
  BY <1>1, <1>2, PTL DEF Spec

-----------------------------------------------------------------------------
(***************************************************************************)
(* The buffer is in step with its position.                                *)
(***************************************************************************)

LEMMA InitInv ==
    ASSUME Init PROVE Inv
  BY InitType
  DEF Init, Inv, Sound, Nothing, ReadsStayInLoaded, ReadsStayInBuffer, ShowsPosition,
      ShowsEnoughRows

LEMMA ConnectInv ==
    ASSUME Connect PROVE Inv'
  BY ConnectType
  DEF Connect, ResetPosition, Inv, Sound, Nothing, ReadsStayInLoaded, ReadsStayInBuffer,
      ShowsPosition, ShowsEnoughRows

\* Rows are cut out of a buffer that is in step with buffer_pos.
LEMMA ShownInv ==
    ASSUME TypeOK', file' = file, file.size \in Nat,
           NEW pos \in Nat, at' = pos, InFile', buffer_pos' <= pos,
           pos - buffer_pos' <= buffer'.len, CutRows(pos, buffer', buffer_pos')
    PROVE  Sound' /\ shown'.kind = "text"
<1>1. buffer' \in Buffers /\ buffer'.from = buffer_pos' /\ buffer_pos' + buffer'.len <= file.size
  BY DEF TypeOK, Buffers, InFile
<1>2. shown'.kind = "text" /\ ShowsPosition' /\ ShowsEnoughRows'
  BY <1>1, CutRowsShows
<1> QED
  BY <1>2 DEF Sound, ReadsStayInLoaded, ReadsStayInBuffer

\* A position asked of a buffer in which nothing was loaded, and that no test finds.
LEMMA OutsideInv ==
    ASSUME NEW pos \in Nat \ {0}, buffer = Empty, buffer_pos = 0, at' = pos,
           buffer' = buffer, buffer_pos' = buffer_pos, CutRows(pos, buffer, buffer_pos)
    PROVE  Sound'
<1>1. ~(pos - buffer_pos <= buffer.len) /\ buffer'.len = 0
  BY DEF Empty
<1>2. shown' = Outside
  BY <1>1 DEF CutRows
<1> QED
  BY <1>1, <1>2 DEF Sound, Outside, ReadsStayInLoaded, ShowsPosition, ShowsEnoughRows

\* Any position may be asked for, and be the first.
LEMMA GetStringsInv ==
    ASSUME SmallSteps, Inv, NEW p \in Nat, GetStringsForPos(p)
    PROVE  Inv'
<1>1. file.size \in Nat
  BY FilesAssumption DEF Inv, TypeOK
<1> DEFINE pos == IF p > file.size THEN file.size ELSE p
<1>2. pos \in 0..file.size /\ pos \in Nat
  BY <1>1
<1>3. file' = file /\ symbols_per_scroll' = symbols_per_scroll /\ at' = pos
  BY DEF GetStringsForPos
<1>4. TypeOK'
  BY GetStringsType DEF Inv
<1> HIDE DEF pos
<1>5. CASE lost'
  BY <1>3, <1>4, <1>5 DEF Inv
<1>6. CASE /\ ~lost /\ ~lost'
           /\ ~NeedsLoad(pos)
           /\ CutRows(pos, buffer, buffer_pos)
           /\ UNCHANGED <<buffer, buffer_pos, lost>>
  <2>1. Sound
    BY <1>6 DEF Inv
  <2>2. CASE InFile
    <3>1. buffer.len = 0 => pos = buffer_pos
      <4>1. ~(pos < buffer_pos)
        BY <1>6 DEF NeedsLoad
      <4> QED
        BY <1>1, <1>2, <2>2, <4>1, BlockSizeAssumption DEF InFile
    <3>2. buffer_pos <= pos /\ pos - buffer_pos <= buffer.len
      BY <1>2, <1>6, <2>2, <3>1, BufferHolds DEF Inv, InFile
    <3>3. InFile'
      BY <1>3, <1>6, <2>2 DEF InFile
    <3>4. Sound' /\ shown'.kind = "text"
      BY <1>1, <1>2, <1>3, <1>4, <1>6, <3>2, <3>3, ShownInv
    <3> QED
      BY <1>3, <1>4, <3>4 DEF Inv
  <2>3. CASE buffer = Empty /\ buffer_pos = 0
    <3>1. pos # 0 /\ buffer.len = 0
      BY <1>6, <2>3 DEF NeedsLoad, Empty
    <3>2. Sound'
      BY <1>2, <1>3, <1>6, <2>3, <3>1, OutsideInv
    <3> QED
      BY <1>2, <1>3, <1>4, <3>1, <3>2 DEF Inv
  <2> QED
    BY <2>1, <2>2, <2>3 DEF Sound
<1>7. CASE /\ NeedsLoad(pos) /\ ~lost
           /\ buffer' = Blocks(pos, Loads(pos))
           /\ buffer_pos' = Low(pos) * BlockSize
           /\ CutRows(pos, buffer', buffer_pos')
           /\ UNCHANGED lost
  <2>1. InFile' /\ buffer_pos' <= pos /\ pos - buffer_pos' <= buffer'.len
    BY <1>1, <1>2, <1>3, <1>7, BlocksHold DEF InFile
  <2>2. Sound' /\ shown'.kind = "text"
    BY <1>1, <1>2, <1>3, <1>4, <1>7, <2>1, ShownInv
  <2> QED
    BY <1>3, <1>4, <2>2 DEF Inv
<1> QED
  BY <1>5, <1>6, <1>7 DEF GetStringsForPos, pos

LEMMA SameInv ==
    ASSUME Inv, UNCHANGED vars PROVE Inv'
  BY DEF vars, Inv, Sound, InFile, TypeOK, ReadsStayInLoaded, ReadsStayInBuffer,
         ShowsPosition, ShowsEnoughRows

LEMMA NextInv ==
    ASSUME SmallSteps, Inv, [Next]_vars
    PROVE  Inv'
<1>1. CASE Connect
  BY <1>1, ConnectInv
<1>2. CASE \E p \in 0..(file.size + 1) : GetStringsForPos(p)
  BY <1>2, GetStringsInv
<1>3. CASE UNCHANGED vars
  BY <1>3, SameInv
<1> QED
  BY <1>1, <1>2, <1>3 DEF Next

\* The inductive invariant, whether loads may throw or not.
THEOREM Invariance ==
    ASSUME SmallSteps PROVE Spec => []Inv
<1>1. Inv /\ [Next]_vars => Inv'
  BY NextInv, SmallSteps
<1> QED
  BY <1>1, InitInv, PTL DEF Spec

\* Until a load of the client throws, what is shown is right, and rows are read outside
\* the buffer only where nothing was loaded yet and the position is not 0.
THEOREM WhileLoadsSucceed ==
    ASSUME SmallSteps
    PROVE  Spec => [](~lost => ReadsStayInLoaded /\ ShowsPosition /\ ShowsEnoughRows)
<1>1. Inv => (~lost => ReadsStayInLoaded /\ ShowsPosition /\ ShowsEnoughRows)
  BY DEF Inv, Sound
<1> QED
  BY <1>1, Invariance, SmallSteps, PTL

LEMMA NeverLost ==
    ASSUME ~LoadsMayFail PROVE Spec => []~lost
<1>1. Init => ~lost
  BY DEF Init
<1>2. ~lost /\ [Next]_vars => ~lost'
  BY ~LoadsMayFail DEF Next, Connect, GetStringsForPos, vars
<1> QED
  BY <1>1, <1>2, PTL DEF Spec

\* ReadsStayInLoaded for every file, block size and number of rows, if the moves of the
\* scroll bar are small beside a block and no load throws: of a buffer in which something
\* was loaded, or asked for position 0, the three tests of get_strings_for_pos load
\* whenever the position is not in it.  (Of an empty one they miss the other positions.)
THEOREM InsideLoaded ==
    ASSUME SmallSteps, ~LoadsMayFail
    PROVE  Spec => []ReadsStayInLoaded
  BY WhileLoadsSucceed, NeverLost, SmallSteps, ~LoadsMayFail, PTL

\* The text shown is the file's at the position asked for.
THEOREM PositionShown ==
    ASSUME SmallSteps, ~LoadsMayFail
    PROVE  Spec => []ShowsPosition
  BY WhileLoadsSucceed, NeverLost, SmallSteps, ~LoadsMayFail, PTL

\* The window is filled with rows as far as the buffer has them: get_next_rows and
\* get_previous_rows together.
THEOREM RowsShown ==
    ASSUME SmallSteps, ~LoadsMayFail
    PROVE  Spec => []ShowsEnoughRows
  BY WhileLoadsSucceed, NeverLost, SmallSteps, ~LoadsMayFail, PTL


-----------------------------------------------------------------------------
(***************************************************************************)
(* Which files are small enough.                                           *)
(***************************************************************************)

\* The size from which a step of the scroll bar is too large for the buffer:
\* 31,522,800 bytes with the code's constants.
SizeLimit == ScrollRange * (BlockSize \div (4 * Rows) + 1)

LEMMA Quotient ==
    ASSUME NEW a \in Nat, NEW d \in Nat \ {0}
    PROVE  /\ a \div d \in Nat /\ d * (a \div d) \in Nat
           /\ d * (a \div d) <= a /\ a < d * (a \div d + 1)
  OBVIOUS

LEMMA ProductsInOrder ==
    ASSUME NEW m \in Nat, NEW n \in Nat, NEW d \in Nat \ {0}
    PROVE  m <= n <=> d * m <= d * n
  OBVIOUS

\* A quotient is below the numbers whose multiples the dividend is below.
LEMMA QuotientBelow ==
    ASSUME NEW a \in Nat, NEW d \in Nat \ {0}, NEW m \in Nat
    PROVE  a \div d <= m <=> a < d * (m + 1)
<1> DEFINE q == a \div d
<1>1. q \in Nat /\ d * q \in Nat /\ d * q <= a /\ a < d * (q + 1)
  BY Quotient
<1> HIDE DEF q
<1>2. d * (m + 1) \in Nat /\ d * (q + 1) \in Nat
  BY <1>1
<1>3. ASSUME q <= m PROVE a < d * (m + 1)
  <2>1. d * (q + 1) <= d * (m + 1)
    BY <1>1, <1>3, ProductsInOrder
  <2> QED
    BY <1>1, <1>2, <2>1
<1>4. ASSUME m + 1 <= q PROVE ~(a < d * (m + 1))
  <2>1. d * (m + 1) <= d * q
    BY <1>1, <1>4, ProductsInOrder
  <2> QED
    BY <1>1, <1>2, <2>1
<1> QED
  BY <1>1, <1>3, <1>4 DEF q

\* A multiple of d is within b if its factor is within their quotient.
LEMMA MultipleWithin ==
    ASSUME NEW b \in Nat, NEW d \in Nat \ {0}, NEW r \in Nat
    PROVE  d * r <= b <=> r <= b \div d
<1> DEFINE q == b \div d
<1>1. q \in Nat /\ d * q \in Nat /\ d * q <= b /\ b < d * (q + 1)
  BY Quotient
<1> HIDE DEF q
<1>2. d * r \in Nat /\ d * (q + 1) \in Nat
  BY <1>1
<1>3. ASSUME r <= q PROVE d * r <= b
  <2>1. d * r <= d * q
    BY <1>1, <1>3, ProductsInOrder
  <2> QED
    BY <1>1, <1>2, <2>1
<1>4. ASSUME q + 1 <= r PROVE ~(d * r <= b)
  <2>1. d * (q + 1) <= d * r
    BY <1>1, <1>4, ProductsInOrder
  <2> QED
    BY <1>1, <1>2, <2>1
<1> QED
  BY <1>1, <1>3, <1>4 DEF q

\* The files whose steps are small are exactly those below the limit.  (A window of
\* more than a quarter of a block in rows has no such files.)
LEMMA StepsAreSmallBelow ==
    ASSUME 4 * Rows <= BlockSize, NEW size \in Nat
    PROVE  4 * Rows * Resolution(size) <= BlockSize <=> size < SizeLimit
<1> DEFINE d == 4 * Rows
           m == BlockSize \div d
<1>1. d \in Nat \ {0} /\ BlockSize \in Nat \ {0} /\ ScrollRange \in Nat \ {0} /\ d <= BlockSize
  BY RowsAssumption, BlockSizeAssumption
<1> HIDE DEF d
<1>2. m \in Nat /\ 1 <= m
  <2>1. d * 1 <= BlockSize
    BY <1>1
  <2> QED
    BY <1>1, <2>1, MultipleWithin, Quotient
<1>3. Resolution(size) \in Nat
  BY ResolutionIsPositive
<1>4. d * Resolution(size) <= BlockSize <=> Resolution(size) <= m
  BY <1>1, <1>3, MultipleWithin
<1> HIDE DEF m
<1>5. Resolution(size) <= m <=> size < ScrollRange * (m + 1)
  <2>1. CASE size < ScrollRange
    <3>1. ScrollRange * 1 <= ScrollRange * (m + 1) /\ ScrollRange * (m + 1) \in Nat
      BY <1>1, <1>2, ProductsInOrder
    <3>2. Resolution(size) = 1 /\ size < ScrollRange * (m + 1)
      BY <1>1, <2>1, <3>1 DEF Resolution
    <3> QED
      BY <1>2, <3>2
  <2>2. CASE ~(size < ScrollRange)
    BY <1>1, <1>2, <2>2, QuotientBelow DEF Resolution
  <2> QED
    BY <2>1, <2>2
<1> QED
  BY <1>4, <1>5 DEF SizeLimit, d, m

\* For files below the limit the step of the scroll bar makes nothing shown wrong: the
\* README's "works with very large file" holds up to some thirty megabytes.  (Files of the
\* run file_view_large are above; a first position other than 0 stays excepted.)
THEOREM BelowLimit ==
    ASSUME 4 * Rows <= BlockSize, ~LoadsMayFail, \A f \in Files : f.size < SizeLimit
    PROVE  Spec => [](ReadsStayInLoaded /\ ShowsPosition /\ ShowsEnoughRows)
<1>1. SmallSteps
  BY FilesAssumption, StepsAreSmallBelow, 4 * Rows <= BlockSize,
     \A f \in Files : f.size < SizeLimit DEF SmallSteps
<1> QED
  BY <1>1, InsideLoaded, PositionShown, RowsShown, ~LoadsMayFail, PTL
=============================================================================
