------------------------- MODULE CryptoStreamProofs -------------------------
(***************************************************************************)
(* Proofs about the stored file, for every size of a chunk and every       *)
(* length of a text.                                                       *)
(***************************************************************************)
EXTENDS CryptoStream, Integers, SequenceTheorems, TLAPS

----------------------------------------------------------------------------
(* Whole steps.                                                            *)

LEMMA Sizes ==
    /\ ChunkSize \in Nat \ {0} /\ Overhead \in Nat \ {0} /\ MaxLength \in Nat
    /\ encChunkSize \in Nat \ {0} /\ encChunkSize = ChunkSize + Overhead
BY CryptoAssumption DEF encChunkSize

LEMMA Times ==
    ASSUME NEW i \in Nat, NEW d \in Nat \ {0}
    PROVE  /\ i * d \in Nat /\ i <= i * d
           /\ (i + 1) * d = i * d + d
           /\ \A j \in Nat : i < j => i * d + d <= j * d
<1>1. \A j \in Nat : i < j => i * d + d <= j * d
  <2> SUFFICES ASSUME NEW j \in Nat, i < j
               PROVE  i * d + d <= j * d
    OBVIOUS
  <2>1. (j - (i + 1)) * d \in Nat
    OBVIOUS
  <2>2. j * d = (j - (i + 1)) * d + i * d + d
    OBVIOUS
  <2> QED
    BY <2>1, <2>2
<1>2. i * d \in Nat /\ i <= i * d /\ (i + 1) * d = i * d + d
  OBVIOUS
<1> QED
  BY <1>1, <1>2

LEMMA Division ==
    ASSUME NEW n \in Nat, NEW d \in Nat \ {0}
    PROVE  /\ n \div d \in Nat /\ (n % d) \in 0..(d - 1)
           /\ n = (n \div d) * d + (n % d)
OBVIOUS

LEMMA Quotient ==
    ASSUME NEW i \in Nat, NEW d \in Nat \ {0}, NEW r \in 0..(d - 1)
    PROVE  (i * d + r) \div d = i
<1> DEFINE n == i * d + r
           q == n \div d
<1>1. n \in Nat
  BY Times
<1>2. q \in Nat /\ (n % d) \in 0..(d - 1) /\ n = q * d + (n % d)
  BY <1>1, Division
<1>3. ~(q < i)
  BY <1>2, Times
<1>4. ~(i < q)
  BY <1>2, Times
<1> QED
  BY <1>2, <1>3, <1>4

----------------------------------------------------------------------------
(* The format.                                                             *)

\* The unit at place k of chunk i.
LEMMA UnitInChunk ==
    ASSUME NEW text, NEW i \in Nat, NEW k \in 1..encChunkSize
    PROVE  UnitOf(text, Overhead + i * encChunkSize + k)
              = <<"chunk", i, Piece(text, i), k>>
<1> DEFINE n == Overhead + i * encChunkSize + k
<1>1. i * encChunkSize \in Nat
  BY Sizes, Times
<1>2. ~(n <= Overhead) /\ n - Overhead - 1 = i * encChunkSize + (k - 1)
  BY <1>1, Sizes
<1>3. (i * encChunkSize + (k - 1)) \div encChunkSize = i
  <2>1. k - 1 \in 0..(encChunkSize - 1)
    BY Sizes
  <2> QED
    BY <2>1, Sizes, Quotient
<1>4. n - Overhead - i * encChunkSize = k
  BY <1>1, Sizes
<1> QED
  BY <1>2, <1>3, <1>4 DEF UnitOf

\* Every unit after the nonce is in a chunk.
LEMMA ChunkOfUnit ==
    ASSUME NEW n \in Nat, n > Overhead
    PROVE  \E i \in Nat : \E k \in 1..encChunkSize :
              n = Overhead + i * encChunkSize + k
<1> DEFINE m == n - Overhead - 1
           i == m \div encChunkSize
           k == (m % encChunkSize) + 1
<1>1. m \in Nat
  BY Sizes
<1>2. /\ i \in Nat /\ (m % encChunkSize) \in 0..(encChunkSize - 1)
      /\ m = i * encChunkSize + (m % encChunkSize)
  BY <1>1, Sizes, Division
<1>3. k \in 1..encChunkSize /\ m = i * encChunkSize + (k - 1)
  BY <1>2, Sizes
<1>4. n = Overhead + i * encChunkSize + k
  <2>1. i * encChunkSize \in Nat
    BY <1>2, Sizes, Times
  <2> HIDE DEF i, k
  <2> QED
    BY <1>3, <2>1, Sizes
<1> QED
  BY <1>2, <1>3, <1>4

\* How long the file of a text is that ends in chunk i, or just before it.
LEMMA FileOfChunks ==
    ASSUME NEW text, NEW i \in Nat, NEW r \in 0..(ChunkSize - 1),
           Len(text) = i * ChunkSize + r
    PROVE  FileLength(text) = Overhead + i * encChunkSize
                                + (IF r = 0 THEN 0 ELSE r + Overhead)
<1>1. /\ i * ChunkSize \in Nat /\ i * Overhead \in Nat
      /\ i * encChunkSize = i * ChunkSize + i * Overhead
      /\ (i + 1) * ChunkSize = i * ChunkSize + ChunkSize
      /\ (i + 1) * Overhead = i * Overhead + Overhead
  BY Sizes, Times
<1>2. CASE r = 0
  <2>1. Len(text) + ChunkSize - 1 = i * ChunkSize + (ChunkSize - 1)
    BY <1>1, <1>2, Sizes
  <2>2. ChunkSize - 1 \in 0..(ChunkSize - 1)
    BY Sizes
  <2>3. Chunks(text) = i
    BY <2>1, <2>2, Sizes, Quotient DEF Chunks
  <2> QED
    BY <1>1, <1>2, <2>3, Sizes DEF FileLength
<1>3. CASE r # 0
  <2>1. Len(text) + ChunkSize - 1 = (i + 1) * ChunkSize + (r - 1)
    BY <1>1, <1>3, Sizes
  <2>2. r - 1 \in 0..(ChunkSize - 1) /\ i + 1 \in Nat
    BY <1>3, Sizes
  <2>3. Chunks(text) = i + 1
    BY <2>1, <2>2, Sizes, Quotient DEF Chunks
  <2> QED
    BY <1>1, <1>3, <2>3, Sizes DEF FileLength
<1> QED
  BY <1>2, <1>3

\* The file of a text of whole chunks so far, by what the text goes on with.
LEMMA FileAfterChunks ==
    ASSUME NEW text \in Seq(Text), NEW i \in Nat, i * ChunkSize <= Len(text)
    PROVE  /\ FileLength(text) \in Nat
           /\ (i + 1) * ChunkSize <= Len(text) =>
                 Overhead + (i + 1) * encChunkSize <= FileLength(text)
           /\ Len(text) < (i + 1) * ChunkSize =>
                 FileLength(text) =
                    Overhead + i * encChunkSize
                       + (IF Len(text) = i * ChunkSize THEN 0
                          ELSE Len(text) - i * ChunkSize + Overhead)
<1> DEFINE j == Len(text) \div ChunkSize
           r == Len(text) % ChunkSize
<1>0. Len(text) \in Nat
  BY LenProperties
<1>1. /\ j \in Nat /\ r \in 0..(ChunkSize - 1)
      /\ Len(text) = j * ChunkSize + r
  BY <1>0, Sizes, Division
<1> HIDE DEF j, r
<1>2. FileLength(text) = Overhead + j * encChunkSize
                           + (IF r = 0 THEN 0 ELSE r + Overhead)
  BY <1>1, FileOfChunks
<1>3. /\ j * encChunkSize \in Nat /\ i * ChunkSize \in Nat
      /\ i * encChunkSize \in Nat
      /\ (i + 1) * ChunkSize = i * ChunkSize + ChunkSize
      /\ (i + 1) * encChunkSize = i * encChunkSize + encChunkSize
  BY <1>1, Sizes, Times
<1>4. FileLength(text) \in Nat
  BY <1>1, <1>2, <1>3, Sizes
<1>5. ASSUME (i + 1) * ChunkSize <= Len(text)
      PROVE  Overhead + (i + 1) * encChunkSize <= FileLength(text)
  <2>1. i < j
    <3> SUFFICES ASSUME j <= i
                 PROVE  FALSE
      BY <1>1
    <3>1. j * ChunkSize <= i * ChunkSize
      BY <1>1, <1>3, Sizes, Times
    <3> QED
      BY <1>1, <1>3, <1>5, <3>1, Sizes
  <2>2. i * encChunkSize + encChunkSize <= j * encChunkSize
    BY <1>1, <2>1, Sizes, Times
  <2> QED
    BY <1>1, <1>2, <1>3, <2>2, Sizes
<1>6. ASSUME Len(text) < (i + 1) * ChunkSize
      PROVE  FileLength(text) =
                Overhead + i * encChunkSize
                   + (IF Len(text) = i * ChunkSize THEN 0
                      ELSE Len(text) - i * ChunkSize + Overhead)
  <2> DEFINE s == Len(text) - i * ChunkSize
  <2>1. s \in 0..(ChunkSize - 1) /\ Len(text) = i * ChunkSize + s
    BY <1>0, <1>3, <1>6, Sizes
  <2>2. FileLength(text) = Overhead + i * encChunkSize
                             + (IF s = 0 THEN 0 ELSE s + Overhead)
    <3> HIDE DEF s
    <3> QED
      BY <2>1, FileOfChunks
  <2>3. s = 0 <=> Len(text) = i * ChunkSize
    BY <1>0, <1>3
  <2> QED
    BY <2>2, <2>3
<1> QED
  BY <1>4, <1>5, <1>6

\* The text of chunk i: a whole chunk, or what is left.
LEMMA PieceOfText ==
    ASSUME NEW text \in Seq(Text), NEW i \in Nat, i * ChunkSize <= Len(text)
    PROVE  /\ Piece(text, i) \in Seq(Text)
           /\ Len(Piece(text, i)) = IF (i + 1) * ChunkSize <= Len(text)
                                    THEN ChunkSize ELSE Len(text) - i * ChunkSize
           /\ SubSeq(text, 1, i * ChunkSize) \o Piece(text, i)
                 = SubSeq(text, 1, i * ChunkSize + Len(Piece(text, i)))
<1> DEFINE last == IF (i + 1) * ChunkSize < Len(text) THEN (i + 1) * ChunkSize
                   ELSE Len(text)
           first == i * ChunkSize
<1>1. /\ first \in Nat /\ (i + 1) * ChunkSize = first + ChunkSize
      /\ Len(text) \in Nat
  BY Sizes, Times, LenProperties
<1>2. /\ last \in first..Len(text) /\ first <= Len(text)
      /\ last = IF first + ChunkSize <= Len(text) THEN first + ChunkSize
                ELSE Len(text)
  BY <1>1, Sizes
<1>3. Piece(text, i) = SubSeq(text, first + 1, last)
  BY DEF Piece
<1> HIDE DEF first, last
<1>4. \A k \in (first + 1)..last : text[k] \in Text
  <2> SUFFICES ASSUME NEW k \in (first + 1)..last
               PROVE  text[k] \in Text
    OBVIOUS
  <2>1. k \in 1..Len(text)
    BY <1>1, <1>2
  <2> QED
    BY <2>1, ElementOfSeq
<1>5. /\ SubSeq(text, first + 1, last) \in Seq(Text)
      /\ Len(SubSeq(text, first + 1, last)) = last - first
  <2>1. first + 1 \in Int /\ last \in Int
    BY <1>1, <1>2
  <2>2. /\ SubSeq(text, first + 1, last) \in Seq(Text)
        /\ Len(SubSeq(text, first + 1, last)) =
              IF first + 1 <= last THEN last - (first + 1) + 1 ELSE 0
    BY <1>4, <2>1, SubSeqProperties
  <2> QED
    BY <1>1, <1>2, <2>2
<1>6. SubSeq(text, 1, first) \o SubSeq(text, first + 1, last)
         = SubSeq(text, 1, last)
  <2>1. /\ 1 \in 1..(Len(text) + 1) /\ first \in (1 - 1)..Len(text)
        /\ last \in first..Len(text)
    BY <1>1, <1>2
  <2> QED
    BY <2>1, ConcatAdjacentSubSeq
<1>7. Len(Piece(text, i)) = last - first /\ first + (last - first) = last
  BY <1>1, <1>2, <1>3, <1>5
<1>8. last - first = IF first + ChunkSize <= Len(text)
                     THEN ChunkSize ELSE Len(text) - first
  BY <1>1, <1>2, Sizes
<1> QED
  BY <1>1, <1>3, <1>5, <1>6, <1>7, <1>8 DEF first

----------------------------------------------------------------------------
(* Files and texts.                                                        *)

Units == ({"nonce"} \X Nat) \cup ({"chunk"} \X Nat \X Seq(Text) \X Nat)

LEMMA Bounded ==
    ASSUME NEW S, NEW n \in Nat, NEW s
    PROVE  s \in BoundedSeq(S, n) <=> s \in Seq(S) /\ Len(s) <= n
<1>1. ASSUME s \in BoundedSeq(S, n)
      PROVE  s \in Seq(S) /\ Len(s) <= n
  <2>1. PICK m \in 0..n : s \in [1..m -> S]
    BY <1>1 DEF BoundedSeq, SeqOf
  <2> QED
    BY <2>1
<1>2. ASSUME s \in Seq(S), Len(s) <= n
      PROVE  s \in BoundedSeq(S, n)
  <2>1. s \in [1..Len(s) -> S] /\ Len(s) \in 0..n
    BY <1>2, LenProperties
  <2> QED
    BY <2>1 DEF BoundedSeq, SeqOf
<1> QED
  BY <1>1, <1>2

LEMMA ReadUnits ==
    ASSUME NEW S, NEW file \in Seq(S), pos \in 0..Len(file),
           NEW n \in Nat \ {0}
    PROVE  /\ Read(file, n) \in Seq(S)
           /\ Len(Read(file, n)) =
                 IF pos + n <= Len(file) THEN n ELSE Len(file) - pos
           /\ \A k \in 1..Len(Read(file, n)) : Read(file, n)[k] = file[pos + k]
<1> DEFINE last == IF pos + n < Len(file) THEN pos + n ELSE Len(file)
<1>1. Len(file) \in Nat /\ pos \in Nat /\ pos <= Len(file)
  BY LenProperties
<1>2. /\ last \in pos..Len(file)
      /\ last = IF pos + n <= Len(file) THEN pos + n ELSE Len(file)
  BY <1>1
<1>3. Read(file, n) = SubSeq(file, pos + 1, last)
  BY DEF Read
<1> HIDE DEF last
<1>4. \A k \in (pos + 1)..last : file[k] \in S
  <2> SUFFICES ASSUME NEW k \in (pos + 1)..last
               PROVE  file[k] \in S
    OBVIOUS
  <2>1. k \in 1..Len(file)
    BY <1>1, <1>2
  <2> QED
    BY <2>1, ElementOfSeq
<1>5. /\ Read(file, n) \in Seq(S)
      /\ Len(Read(file, n)) =
            IF pos + 1 <= last THEN last - (pos + 1) + 1 ELSE 0
      /\ \A k \in 1..(last - (pos + 1) + 1) :
            Read(file, n)[k] = file[(pos + 1) + k - 1]
  <2>1. pos + 1 \in Int /\ last \in Int
    BY <1>1, <1>2
  <2> QED
    BY <1>3, <1>4, <2>1, SubSeqProperties
<1>6. Len(Read(file, n)) = last - pos /\ last - (pos + 1) + 1 = last - pos
  BY <1>1, <1>2, <1>5
<1>7. \A k \in 1..(last - pos) : (pos + 1) + k - 1 = pos + k
  BY <1>1, <1>2
<1>8. last - pos = IF pos + n <= Len(file) THEN n ELSE Len(file) - pos
  BY <1>1, <1>2
<1> QED
  BY <1>5, <1>6, <1>7, <1>8

LEMMA SealedUnits ==
    ASSUME NEW text \in Seq(Text), NEW i \in Nat
    PROVE  /\ Seal(i, text) \in Seq(Units)
           /\ Len(Seal(i, text)) = Len(text) + Overhead
           /\ \A k \in 1..(Len(text) + Overhead) :
                 Seal(i, text)[k] = <<"chunk", i, text, k>>
<1>1. Len(text) + Overhead \in Nat
  BY Sizes, LenProperties
<1>2. \A k \in 1..(Len(text) + Overhead) : <<"chunk", i, text, k>> \in Units
  BY <1>1 DEF Units
<1>3. Seal(i, text) \in [1..(Len(text) + Overhead) -> Units]
  BY <1>2 DEF Seal
<1>4. Seal(i, text) \in Seq(Units) /\ Len(Seal(i, text)) = Len(text) + Overhead
  BY <1>1, <1>3
<1> QED
  BY <1>4 DEF Seal

\* A file is the format of a text when it is a beginning of it and as long.
LEMMA FormatIsWhole ==
    ASSUME NEW S, NEW file \in Seq(S), NEW text, FileLength(text) \in Nat
    PROVE  file = Format(text) <=>
              Beginning(file, text) /\ Len(file) = FileLength(text)
<1>0. /\ DOMAIN file = 1..Len(file) /\ Len(file) \in Nat
      /\ file = [n \in 1..Len(file) |-> file[n]]
  BY LenProperties
<1>1. ASSUME file = Format(text)
      PROVE  Beginning(file, text) /\ Len(file) = FileLength(text)
  <2>1. DOMAIN file = 1..FileLength(text)
    BY <1>1 DEF Format
  <2>2. Len(file) = FileLength(text)
    BY <1>0, <2>1
  <2>3. \A n \in 1..Len(file) : file[n] = UnitOf(text, n)
    BY <1>1, <2>2 DEF Format
  <2> QED
    BY <1>0, <2>2, <2>3 DEF Beginning
<1>2. ASSUME Beginning(file, text), Len(file) = FileLength(text)
      PROVE  file = Format(text)
  BY <1>0, <1>2 DEF Beginning, Format
<1> QED
  BY <1>1, <1>2

LEMMA PrefixOf ==
    ASSUME NEW text \in Seq(Text), NEW n \in 0..Len(text)
    PROVE  /\ SubSeq(text, 1, n) \in Seq(Text)
           /\ Len(SubSeq(text, 1, n)) = n
           /\ \A k \in 1..n : SubSeq(text, 1, n)[k] = text[k]
           /\ IsPrefix(SubSeq(text, 1, n), text)
<1>1. Len(text) \in Nat
  BY LenProperties
<1>2. \A k \in 1..n : text[k] \in Text
  <2> SUFFICES ASSUME NEW k \in 1..n
               PROVE  text[k] \in Text
    OBVIOUS
  <2>1. k \in 1..Len(text)
    BY <1>1
  <2> QED
    BY <2>1, ElementOfSeq
<1>3. /\ SubSeq(text, 1, n) \in Seq(Text)
      /\ Len(SubSeq(text, 1, n)) = IF 1 <= n THEN n - 1 + 1 ELSE 0
      /\ \A k \in 1..(n - 1 + 1) : SubSeq(text, 1, n)[k] = text[1 + k - 1]
  <2>1. n \in Int
    BY <1>1
  <2> QED
    BY <1>2, <2>1, SubSeqProperties
<1>4. Len(SubSeq(text, 1, n)) = n /\ n - 1 + 1 = n /\ n <= Len(text)
  BY <1>1, <1>3
<1>5. \A k \in 1..n : 1 + k - 1 = k
  BY <1>1
<1>6. SubSeq(SubSeq(text, 1, n), 1, n) = SubSeq(text, 1, n)
  BY <1>3, <1>4, SubSeqFull
<1> QED
  BY <1>3, <1>4, <1>5, <1>6 DEF IsPrefix

\* Cut between two chunks, the file of a text is the file of a shorter one.
LEMMA CutBetweenChunks ==
    ASSUME NEW text \in Seq(Text), NEW i \in Nat, i * ChunkSize <= Len(text),
           NEW file \in Seq(Units), Beginning(file, text),
           Len(file) = Overhead + i * encChunkSize
    PROVE  file = Format(SubSeq(text, 1, i * ChunkSize))
<1> DEFINE n == i * ChunkSize
           q == SubSeq(text, 1, n)
<1>1. n \in 0..Len(text) /\ Len(text) \in Nat
  BY Sizes, Times, LenProperties
<1>2. q \in Seq(Text) /\ Len(q) = n
  <2> HIDE DEF n
  <2> QED
    BY <1>1, PrefixOf
<1>3. FileLength(q) = Overhead + i * encChunkSize
  <2>1. Len(q) = i * ChunkSize + 0 /\ 0 \in 0..(ChunkSize - 1)
    BY <1>1, <1>2, Sizes
  <2>2. FileLength(q) = Overhead + i * encChunkSize
                          + (IF 0 = 0 THEN 0 ELSE 0 + Overhead)
    <3> HIDE DEF q
    <3> QED
      BY <2>1, FileOfChunks
  <2>3. i * encChunkSize \in Nat
    BY Sizes, Times
  <2> QED
    BY <2>2, <2>3, Sizes
<1>4. ASSUME NEW j \in Nat, j < i
      PROVE  Piece(q, j) = Piece(text, j)
  <2>1. /\ j * ChunkSize \in Nat
        /\ (j + 1) * ChunkSize = j * ChunkSize + ChunkSize
        /\ (j + 1) * ChunkSize <= n
    BY <1>4, Sizes, Times
  <2> DEFINE first == j * ChunkSize + 1
             last == (j + 1) * ChunkSize
  <2>2. first \in 1..n /\ last \in 1..n /\ n \in 1..Len(text)
    BY <1>1, <2>1, Sizes
  <2>3. /\ (IF last < Len(q) THEN last ELSE Len(q)) = last
        /\ (IF last < Len(text) THEN last ELSE Len(text)) = last
    <3> HIDE DEF q, last, n
    <3> QED
      BY <1>1, <1>2, <2>2
  <2>4. /\ Piece(q, j) = SubSeq(q, first, last)
        /\ Piece(text, j) = SubSeq(text, first, last)
    <3> HIDE DEF q
    <3> QED
      BY <2>3 DEF Piece
  <2>5. SubSeq(q, first, last) = SubSeq(text, first, last)
    <3> HIDE DEF first, last, n
    <3>1. /\ 1 \in 1..Len(text) /\ first \in 1..(n - 1 + 1)
          /\ last \in 1..(n - 1 + 1)
          /\ 1 + first - 1 = first /\ 1 + last - 1 = last
      BY <1>1, <2>2
    <3>2. SubSeq(SubSeq(text, 1, n), first, last)
             = SubSeq(text, 1 + first - 1, 1 + last - 1)
      BY <2>2, <3>1, SubSeqOfSubSeq
    <3> QED
      BY <3>1, <3>2
  <2> QED
    BY <2>4, <2>5
<1>5. ASSUME NEW m \in 1..Len(file)
      PROVE  UnitOf(q, m) = UnitOf(text, m)
  <2>1. CASE m <= Overhead
    BY <2>1 DEF UnitOf
  <2>2. CASE ~(m <= Overhead)
    <3>1. m \in Nat /\ m > Overhead /\ m <= Overhead + i * encChunkSize
      BY <1>5, <2>2, Sizes, LenProperties
    <3>2. PICK j \in Nat : \E k \in 1..encChunkSize :
                               m = Overhead + j * encChunkSize + k
      BY <3>1, ChunkOfUnit
    <3>3. PICK k \in 1..encChunkSize : m = Overhead + j * encChunkSize + k
      BY <3>2
    <3>4. j < i
      <4> SUFFICES ASSUME i <= j
                   PROVE  FALSE
        OBVIOUS
      <4>1. i * encChunkSize <= j * encChunkSize
        BY Sizes, Times
      <4>2. i * encChunkSize \in Nat /\ j * encChunkSize \in Nat
        BY Sizes, Times
      <4> QED
        BY <3>1, <3>3, <4>1, <4>2, Sizes
    <3> HIDE DEF q
    <3>5. /\ UnitOf(q, m) = <<"chunk", j, Piece(q, j), k>>
          /\ UnitOf(text, m) = <<"chunk", j, Piece(text, j), k>>
      BY <3>3, UnitInChunk
    <3> QED
      BY <1>4, <3>4, <3>5
  <2> QED
    BY <2>1, <2>2
<1>6. FileLength(q) \in Nat /\ Len(file) = FileLength(q)
  <2>1. i * encChunkSize \in Nat
    BY Sizes, Times
  <2> QED
    BY <1>3, <2>1, Sizes
<1>7. Beginning(file, q)
  BY <1>5, <1>6 DEF Beginning
<1> HIDE DEF q
<1>8. file = Format(q)
  BY <1>6, <1>7, FormatIsWhole
<1> QED
  BY <1>8 DEF q

----------------------------------------------------------------------------
(* The invariant.                                                          *)

StreamTyped ==
    /\ stage \in {"encrypt", "stored", "decrypt", "done", "failed"}
    /\ plain \in Seq(Text) /\ Len(plain) <= MaxLength
    /\ out \in Seq(Text) /\ Len(out) <= MaxLength
    /\ stored \in Seq(Units)
    /\ index \in 0..(MaxLength + 1)
    /\ pos \in 0..Len(IF stage \in {"encrypt", "stored"} THEN plain
                     ELSE stored)

LEMMA StreamInit == Init => StreamTyped /\ StreamInv
<1> SUFFICES ASSUME Init
             PROVE  StreamTyped /\ StreamInv
  OBVIOUS
<1>1. /\ plain \in Seq(Text) /\ Len(plain) <= MaxLength /\ Len(plain) \in Nat
      /\ stage = "encrypt" /\ stored = Nonce /\ index = 0 /\ pos = 0
      /\ out = <<>>
  BY Bounded, Sizes, LenProperties DEF Init
<1>2. Nonce \in Seq(Units) /\ Len(Nonce) = Overhead
  <2>1. Nonce \in [1..Overhead -> Units]
    BY Sizes DEF Nonce, Units
  <2> QED
    BY <2>1, Sizes
<1>3. StreamTyped
  BY <1>1, <1>2, Sizes, EmptySeq DEF StreamTyped
<1>4. Overhead <= FileLength(plain)
  <2>1. 0 * ChunkSize = 0 /\ 0 * encChunkSize = 0 /\ (0 + 1) * ChunkSize = ChunkSize
        /\ (0 + 1) * encChunkSize = encChunkSize
    BY Sizes
  <2>2. /\ ChunkSize <= Len(plain) => Overhead + encChunkSize <= FileLength(plain)
        /\ Len(plain) < ChunkSize =>
              FileLength(plain) = Overhead + 0 + (IF Len(plain) = 0 THEN 0
                                                  ELSE Len(plain) - 0 + Overhead)
        /\ FileLength(plain) \in Nat
    <3>1. 0 \in Nat /\ 0 * ChunkSize <= Len(plain)
      BY <1>1, <2>1
    <3> QED
      BY <1>1, <2>1, <3>1, FileAfterChunks
  <2> QED
    BY <1>1, <2>2, Sizes
<1>5. Beginning(stored, plain)
  <2>1. \A n \in 1..Overhead : Nonce[n] = UnitOf(plain, n)
    BY Sizes DEF Nonce, UnitOf
  <2> QED
    BY <1>1, <1>2, <1>4, <2>1 DEF Beginning
<1>6. StreamInv
  <2>1. pos = index * ChunkSize /\ Len(stored) = Overhead + index * encChunkSize
    BY <1>1, <1>2, Sizes
  <2> QED
    BY <1>1, <1>5, <2>1 DEF StreamInv
<1> QED
  BY <1>3, <1>6

\* EncryptStream writes the format, chunk by chunk.
LEMMA EncryptKeeps ==
    ASSUME StreamTyped, StreamInv, EncryptChunk
    PROVE  StreamTyped' /\ StreamInv'
<1> DEFINE text == Read(plain, ChunkSize)
           sealed == Seal(index, text)
<1>1. /\ stage = "encrypt" /\ UNCHANGED <<plain, out>> /\ out = <<>>
      /\ stored' = IF text = <<>> THEN stored ELSE stored \o sealed
      /\ pos' = pos + Len(text)
      /\ index' = IF text = <<>> THEN index ELSE index + 1
      /\ stage' = IF Len(text) < ChunkSize THEN "stored" ELSE "encrypt"
  BY DEF EncryptChunk, Encrypted, StreamInv
<1>2. /\ plain \in Seq(Text) /\ Len(plain) \in Nat /\ Len(plain) <= MaxLength
      /\ stored \in Seq(Units) /\ Len(stored) \in Nat
      /\ index \in Nat /\ pos \in 0..Len(plain)
      /\ pos = index * ChunkSize
      /\ Len(stored) = Overhead + index * encChunkSize
      /\ Beginning(stored, plain)
  BY <1>1, Sizes, LenProperties DEF StreamTyped, StreamInv
<1>3. /\ index * ChunkSize \in Nat /\ index * encChunkSize \in Nat
      /\ (index + 1) * ChunkSize = index * ChunkSize + ChunkSize
      /\ (index + 1) * encChunkSize = index * encChunkSize + encChunkSize
      /\ index <= index * ChunkSize /\ index + 1 <= (index + 1) * ChunkSize
  BY <1>2, Sizes, Times
<1>4. text = Piece(plain, index)
  BY <1>2, <1>3 DEF Read, Piece
<1>5. /\ text \in Seq(Text)
      /\ Len(text) = IF (index + 1) * ChunkSize <= Len(plain)
                     THEN ChunkSize ELSE Len(plain) - index * ChunkSize
  BY <1>2, <1>4, PieceOfText
<1>6. /\ FileLength(plain) \in Nat
      /\ (index + 1) * ChunkSize <= Len(plain) =>
            Overhead + (index + 1) * encChunkSize <= FileLength(plain)
      /\ Len(plain) < (index + 1) * ChunkSize =>
            FileLength(plain) =
               Overhead + index * encChunkSize
                  + (IF Len(plain) = index * ChunkSize THEN 0
                     ELSE Len(plain) - index * ChunkSize + Overhead)
  BY <1>2, FileAfterChunks
<1>7. /\ sealed \in Seq(Units) /\ Len(sealed) = Len(text) + Overhead
      /\ \A k \in 1..(Len(text) + Overhead) :
            sealed[k] = <<"chunk", index, Piece(plain, index), k>>
  BY <1>2, <1>4, <1>5, SealedUnits
<1>8. /\ Len(text) \in 0..ChunkSize
      /\ text = <<>> <=> Len(text) = 0
      /\ Len(text) = ChunkSize => (index + 1) * ChunkSize <= Len(plain)
      /\ Len(text) < ChunkSize => Len(plain) < (index + 1) * ChunkSize
  <2> HIDE DEF text
  <2>1. text = <<>> <=> Len(text) = 0
    BY <1>5, EmptySeq
  <2> QED
    BY <1>2, <1>3, <1>5, <2>1, Sizes
<1> HIDE DEF text, sealed
<1>9. CASE text = <<>>
  <2>1. /\ stage' = "stored" /\ UNCHANGED <<stored, index, plain, out>>
        /\ pos' = pos
    BY <1>1, <1>2, <1>8, <1>9, Sizes
  <2>2. Len(stored) = FileLength(plain)
    <3>1. Len(text) = 0 /\ Len(plain) < (index + 1) * ChunkSize
      BY <1>8, <1>9, Sizes
    <3>2. Len(plain) = index * ChunkSize
      BY <1>2, <1>3, <1>5, <3>1, Sizes
    <3>3. FileLength(plain) = Overhead + index * encChunkSize + 0
      BY <1>6, <3>1, <3>2
    <3> QED
      BY <1>2, <1>3, <3>3, Sizes
  <2>3. StreamTyped'
    BY <1>1, <1>2, <2>1 DEF StreamTyped
  <2>4. StreamInv'
    BY <1>1, <1>2, <2>1, <2>2 DEF StreamInv, Beginning
  <2> QED
    BY <2>3, <2>4
<1>10. CASE text # <<>>
  <2>1. /\ stored' = stored \o sealed /\ index' = index + 1
        /\ pos' = pos + Len(text) /\ UNCHANGED <<plain, out>>
    BY <1>1, <1>10
  <2>2. /\ stored' \in Seq(Units)
        /\ Len(stored') = Len(stored) + (Len(text) + Overhead)
        /\ \A n \in 1..Len(stored') :
              stored'[n] = IF n <= Len(stored) THEN stored[n]
                           ELSE sealed[n - Len(stored)]
    BY <1>2, <1>7, <2>1, ConcatProperties
  <2>3. ASSUME NEW n \in 1..Len(stored')
        PROVE  stored'[n] = UnitOf(plain, n)
    <3>1. CASE n <= Len(stored)
      BY <1>2, <2>2, <2>3, <3>1 DEF Beginning
    <3>2. CASE ~(n <= Len(stored))
      <4> DEFINE k == n - Len(stored)
      <4>1. /\ k \in 1..(Len(text) + Overhead) /\ k \in 1..encChunkSize
            /\ n = Overhead + index * encChunkSize + k
        <5>1. /\ n \in Nat /\ n > Len(stored)
              /\ n <= Len(stored) + (Len(text) + Overhead)
          BY <1>2, <1>8, <2>2, <2>3, <3>2, Sizes
        <5> QED
          BY <1>2, <1>3, <1>8, <5>1, Sizes
      <4>2. stored'[n] = <<"chunk", index, Piece(plain, index), k>>
        BY <1>7, <2>2, <3>2, <4>1
      <4>3. UnitOf(plain, Overhead + index * encChunkSize + k)
               = <<"chunk", index, Piece(plain, index), k>>
        <5> HIDE DEF k
        <5> QED
          BY <1>2, <4>1, UnitInChunk
      <4> QED
        BY <4>1, <4>2, <4>3
    <3> QED
      BY <3>1, <3>2
  <2>4. CASE Len(text) = ChunkSize
    <3>1. /\ stage' = "encrypt" /\ pos' = (index + 1) * ChunkSize
          /\ Len(stored') = Overhead + (index + 1) * encChunkSize
          /\ Len(stored') <= FileLength(plain)
          /\ pos' \in 0..Len(plain) /\ index' \in 0..(MaxLength + 1)
      BY <1>1, <1>2, <1>3, <1>6, <1>8, <2>1, <2>2, <2>4, Sizes
    <3>2. StreamTyped'
      BY <1>2, <2>1, <2>2, <3>1 DEF StreamTyped
    <3>3. StreamInv'
      BY <1>1, <2>1, <2>3, <3>1 DEF StreamInv, Beginning
    <3> QED
      BY <3>2, <3>3
  <2>5. CASE Len(text) < ChunkSize
    <3>1. /\ stage' = "stored" /\ pos' \in 0..Len(plain)
          /\ Len(stored') = FileLength(plain)
          /\ index' \in 0..(MaxLength + 1)
      <4>1. /\ Len(plain) < (index + 1) * ChunkSize
            /\ Len(text) = Len(plain) - index * ChunkSize /\ Len(text) # 0
        <5>1. Len(plain) < (index + 1) * ChunkSize /\ Len(text) # 0
          BY <1>8, <1>10, <2>5
        <5>2. ~((index + 1) * ChunkSize <= Len(plain))
          BY <1>2, <1>3, <5>1, Sizes
        <5> QED
          BY <1>5, <5>1, <5>2
      <4>2. FileLength(plain) = Overhead + index * encChunkSize
                                  + (Len(plain) - index * ChunkSize + Overhead)
        BY <1>2, <1>3, <1>6, <4>1
      <4>3. Len(stored') = FileLength(plain)
        BY <1>2, <1>3, <2>2, <4>1, <4>2, Sizes
      <4>4. pos' \in 0..Len(plain) /\ index' \in 0..(MaxLength + 1)
        <5>1. pos' = Len(plain)
          BY <1>2, <1>3, <2>1, <4>1
        <5>2. index <= MaxLength
          BY <1>2, <1>3, Sizes
        <5> QED
          BY <1>2, <2>1, <5>1, <5>2, Sizes
      <4> QED
        BY <1>1, <2>5, <4>3, <4>4
    <3>2. StreamTyped'
      BY <1>2, <2>1, <2>2, <3>1 DEF StreamTyped
    <3>3. StreamInv'
      BY <1>1, <1>6, <2>1, <2>3, <3>1 DEF StreamInv, Beginning
    <3> QED
      BY <3>2, <3>3
  <2> QED
    BY <1>8, <2>4, <2>5, Sizes
<1> QED
  BY <1>9, <1>10

LEMMA CutKeeps ==
    ASSUME StreamTyped, StreamInv, CutShort
    PROVE  StreamTyped' /\ StreamInv'
<1>1. PICK n \in 0..(Len(stored) - 1) : stored' = SubSeq(stored, 1, n)
  BY DEF CutShort
<1>2. /\ stage \in {"encrypt", "stored"} /\ stage' = "stored" /\ pos' = 0
      /\ UNCHANGED <<plain, index, out>>
  BY DEF CutShort
<1>3. /\ stored \in Seq(Units) /\ Len(stored) \in Nat
      /\ plain \in Seq(Text) /\ Len(plain) \in Nat
      /\ Beginning(stored, plain)
  BY LenProperties DEF StreamTyped, StreamInv
<1>4. \A k \in 1..n : stored[k] \in Units
  <2> SUFFICES ASSUME NEW k \in 1..n
               PROVE  stored[k] \in Units
    OBVIOUS
  <2>1. k \in 1..Len(stored)
    BY <1>3
  <2> QED
    BY <1>3, <2>1, ElementOfSeq
<1>5. /\ stored' \in Seq(Units) /\ Len(stored') = n
      /\ \A k \in 1..n : stored'[k] = stored[k]
  <2>1. /\ stored' \in Seq(Units)
        /\ Len(stored') = IF 1 <= n THEN n - 1 + 1 ELSE 0
        /\ \A k \in 1..(n - 1 + 1) : stored'[k] = stored[1 + k - 1]
    <3>1. n \in Int
      BY <1>3
    <3> QED
      BY <1>1, <1>4, <3>1, SubSeqProperties
  <2>2. n - 1 + 1 = n /\ \A k \in 1..n : 1 + k - 1 = k
    BY <1>3
  <2> QED
    BY <1>3, <2>1, <2>2
<1>6. Beginning(stored', plain)
  <2>1. FileLength(plain) \in Nat
    <3>1. 0 \in Nat /\ 0 * ChunkSize <= Len(plain)
      BY <1>3, Sizes
    <3> QED
      BY <1>3, <3>1, FileAfterChunks
  <2> QED
    BY <1>3, <1>5, <2>1 DEF Beginning
<1>7. StreamTyped'
  BY <1>2, <1>3, <1>5 DEF StreamTyped
<1>8. StreamInv'
  BY <1>2, <1>6 DEF StreamInv, Beginning
<1> QED
  BY <1>7, <1>8

LEMMA NonceKeeps ==
    ASSUME StreamTyped, StreamInv, ReadNonce
    PROVE  StreamTyped' /\ StreamInv'
<1>1. /\ stage = "stored" /\ UNCHANGED <<plain, stored, out>> /\ index' = 0
      /\ pos' = IF Len(stored) < Overhead THEN 0 ELSE Overhead
      /\ stage' = IF stored = <<>> THEN "done"
                  ELSE IF Len(stored) < Overhead THEN "failed" ELSE "decrypt"
  BY DEF ReadNonce
<1>2. /\ stored \in Seq(Units) /\ Len(stored) \in Nat
      /\ plain \in Seq(Text) /\ Len(plain) \in Nat
      /\ Beginning(stored, plain) /\ out = <<>>
  BY <1>1, LenProperties DEF StreamTyped, StreamInv
<1>3. 0 * ChunkSize = 0 /\ 0 * encChunkSize = 0
  BY Sizes
<1>4. SubSeq(plain, 1, 0) = <<>> /\ IsPrefix(<<>>, plain)
  <2>1. SubSeq(plain, 1, 0) = <<>>
    BY SubSeqEmpty
  <2>2. IsPrefix(SubSeq(plain, 1, 0), plain)
    <3>1. 0 \in 0..Len(plain)
      BY <1>2
    <3> QED
      BY <1>2, <3>1, PrefixOf
  <2> QED
    BY <2>1, <2>2
<1>5. FileLength(plain) \in Nat /\ Overhead <= FileLength(plain)
  <2>1. /\ 0 \in Nat /\ 0 * ChunkSize <= Len(plain)
        /\ (0 + 1) * ChunkSize = ChunkSize /\ (0 + 1) * encChunkSize = encChunkSize
    BY <1>2, Sizes
  <2>2. /\ FileLength(plain) \in Nat
        /\ ChunkSize <= Len(plain) => Overhead + encChunkSize <= FileLength(plain)
        /\ Len(plain) < ChunkSize =>
              FileLength(plain) = Overhead + 0 + (IF Len(plain) = 0 THEN 0
                                                  ELSE Len(plain) - 0 + Overhead)
    BY <1>2, <1>3, <2>1, FileAfterChunks
  <2> QED
    BY <1>2, <2>2, Sizes
<1>6. StreamTyped'
  <2>1. /\ pos' \in 0..Len(stored') /\ index' \in 0..(MaxLength + 1)
        /\ stage' \in {"done", "failed", "decrypt"}
    BY <1>1, <1>2, Sizes
  <2> QED
    BY <1>1, <2>1 DEF StreamTyped
<1>7. Beginning(stored', plain')
  BY <1>1, <1>2
<1>8. CASE stored = <<>>
  <2>1. stage' = "done" /\ stored' = <<>> /\ out' = <<>> /\ IsPrefix(out', plain')
    BY <1>1, <1>2, <1>4, <1>8
  <2> QED
    BY <1>6, <1>7, <2>1 DEF StreamInv
<1>9. CASE stored # <<>> /\ Len(stored) < Overhead
  <2>1. stored # Format(plain)
    <3>1. Len(stored) # FileLength(plain)
      BY <1>2, <1>5, <1>9, Sizes
    <3> QED
      BY <1>2, <1>5, <3>1, FormatIsWhole
  <2>2. /\ stage' = "failed" /\ stored' # Format(plain')
        /\ IsPrefix(out', plain')
    BY <1>1, <1>2, <1>4, <1>9, <2>1
  <2> QED
    BY <1>6, <1>7, <2>2 DEF StreamInv
<1>10. CASE stored # <<>> /\ ~(Len(stored) < Overhead)
  <2>1. stage' = "decrypt" /\ pos' = Overhead /\ index' = 0 /\ out' = <<>>
    BY <1>1, <1>2, <1>10
  <2>2. /\ pos' = Overhead + index' * encChunkSize
        /\ index' * ChunkSize <= Len(plain')
        /\ out' = SubSeq(plain', 1, index' * ChunkSize)
    BY <1>1, <1>2, <1>3, <1>4, <2>1, Sizes
  <2> QED
    BY <1>6, <1>7, <2>1, <2>2 DEF StreamInv
<1> QED
  BY <1>8, <1>9, <1>10

\* DecryptStream hands on the text of whole chunks, in their order.
LEMMA DecryptKeeps ==
    ASSUME StreamTyped, StreamInv, DecryptChunk
    PROVE  StreamTyped' /\ StreamInv'
<1> DEFINE units == Read(stored, encChunkSize)
           text == Piece(plain, index)
<1>1. /\ stage = "decrypt" /\ UNCHANGED <<plain, stored>>
      /\ \/ Decrypted(units)
         \/ /\ ~Opens(index, units) /\ UNCHANGED <<index, pos, out>>
            /\ stage' = IF units = <<>> THEN "done" ELSE "failed"
  BY DEF DecryptChunk
<1>2. /\ stored \in Seq(Units) /\ Len(stored) \in Nat
      /\ plain \in Seq(Text) /\ Len(plain) \in Nat /\ Len(plain) <= MaxLength
      /\ index \in Nat /\ pos \in 0..Len(stored)
      /\ pos = Overhead + index * encChunkSize
      /\ index * ChunkSize <= Len(plain)
      /\ out = SubSeq(plain, 1, index * ChunkSize)
      /\ Beginning(stored, plain)
  BY <1>1, Sizes, LenProperties DEF StreamTyped, StreamInv
<1>3. /\ index * ChunkSize \in Nat /\ index * encChunkSize \in Nat
      /\ (index + 1) * ChunkSize = index * ChunkSize + ChunkSize
      /\ (index + 1) * encChunkSize = index * encChunkSize + encChunkSize
      /\ index <= index * ChunkSize
  BY <1>2, Sizes, Times
<1>4. /\ text \in Seq(Text)
      /\ Len(text) = IF (index + 1) * ChunkSize <= Len(plain)
                     THEN ChunkSize ELSE Len(plain) - index * ChunkSize
      /\ SubSeq(plain, 1, index * ChunkSize) \o text
            = SubSeq(plain, 1, index * ChunkSize + Len(text))
  BY <1>2, PieceOfText
<1>5. /\ FileLength(plain) \in Nat
      /\ (index + 1) * ChunkSize <= Len(plain) =>
            Overhead + (index + 1) * encChunkSize <= FileLength(plain)
      /\ Len(plain) < (index + 1) * ChunkSize =>
            FileLength(plain) =
               Overhead + index * encChunkSize
                  + (IF Len(plain) = index * ChunkSize THEN 0
                     ELSE Len(plain) - index * ChunkSize + Overhead)
  BY <1>2, FileAfterChunks
<1>6. /\ units \in Seq(Units)
      /\ Len(units) = IF pos + encChunkSize <= Len(stored)
                      THEN encChunkSize ELSE Len(stored) - pos
      /\ \A k \in 1..Len(units) : units[k] = stored[pos + k]
  BY <1>2, Sizes, ReadUnits
<1>7. /\ Seal(index, text) \in Seq(Units)
      /\ Len(Seal(index, text)) = Len(text) + Overhead
      /\ \A k \in 1..(Len(text) + Overhead) :
            Seal(index, text)[k] = <<"chunk", index, text, k>>
  BY <1>2, <1>4, SealedUnits
<1>8. /\ Len(units) \in 0..encChunkSize /\ Len(units) <= Len(stored) - pos
      /\ Len(units) < encChunkSize => Len(units) = Len(stored) - pos
      /\ units = <<>> <=> Len(units) = 0
      /\ Len(text) \in 0..ChunkSize
      /\ index * ChunkSize + Len(text) <= Len(plain)
  <2> HIDE DEF units, text
  <2>1. units = <<>> <=> Len(units) = 0
    BY <1>6, EmptySeq
  <2>2. /\ Len(units) \in 0..encChunkSize /\ Len(units) <= Len(stored) - pos
        /\ Len(units) < encChunkSize => Len(units) = Len(stored) - pos
    <3>1. pos \in Nat /\ Len(stored) \in Nat /\ pos <= Len(stored)
      BY <1>2
    <3>2. Len(units) = IF pos + encChunkSize <= Len(stored)
                       THEN encChunkSize ELSE Len(stored) - pos
      BY <1>6
    <3> QED
      BY <3>1, <3>2, Sizes
  <2>3. /\ Len(text) \in 0..ChunkSize
        /\ index * ChunkSize + Len(text) <= Len(plain)
    <3>1. Len(text) = IF (index + 1) * ChunkSize <= Len(plain)
                      THEN ChunkSize ELSE Len(plain) - index * ChunkSize
      BY <1>4
    <3>2. index * ChunkSize <= Len(plain) /\ Len(plain) \in Nat
      BY <1>2
    <3> QED
      BY <1>3, <3>1, <3>2, Sizes
  <2> QED
    BY <2>1, <2>2, <2>3
\* The units of this chunk know its text.
<1>9. ASSUME NEW k \in 1..Len(units)
      PROVE  units[k] = <<"chunk", index, text, k>>
  <2> HIDE DEF units
  <2>1. k \in 1..encChunkSize /\ pos + k \in 1..Len(stored)
    BY <1>2, <1>3, <1>8, <1>9, Sizes
  <2>2. units[k] = stored[pos + k] /\ stored[pos + k] = UnitOf(plain, pos + k)
    BY <1>2, <1>6, <2>1 DEF Beginning
  <2>3. UnitOf(plain, Overhead + index * encChunkSize + k)
           = <<"chunk", index, text, k>>
    BY <1>2, <2>1, UnitInChunk
  <2> QED
    BY <1>2, <2>2, <2>3
<1>10. ASSUME units # <<>>
       PROVE  TextOf(units) = text
  <2> HIDE DEF units, text
  <2>1. 1 \in 1..Len(units)
    BY <1>8, <1>10
  <2> QED
    BY <1>9, <2>1 DEF TextOf
<1> HIDE DEF units, text
<1>11. CASE Decrypted(units)
  <2>1. /\ units # <<>> /\ units = Seal(index, text)
        /\ out' = out \o text /\ index' = index + 1 /\ pos' = pos + Len(units)
        /\ stage' = IF Len(units) < encChunkSize THEN "done" ELSE "decrypt"
    BY <1>10, <1>11 DEF Decrypted, Opens, TextOf
  <2>2. Len(units) = Len(text) + Overhead
    BY <1>7, <2>1
  <2>3. out' = SubSeq(plain, 1, index * ChunkSize + Len(text))
    BY <1>2, <1>4, <2>1
  <2>4. /\ out' \in Seq(Text) /\ Len(out') = index * ChunkSize + Len(text)
        /\ IsPrefix(out', plain)
    <3>1. index * ChunkSize + Len(text) \in 0..Len(plain)
      BY <1>2, <1>3, <1>8, Sizes
    <3> QED
      BY <1>2, <2>3, <3>1, PrefixOf
  <2>5. StreamTyped'
    <3>1. stage' \in {"done", "decrypt"}
      BY <2>1
    <3>2. pos' \in 0..Len(stored)
      BY <1>2, <1>8, <2>1
    <3>3. index <= MaxLength /\ index' \in 0..(MaxLength + 1)
      BY <1>2, <1>3, <2>1, Sizes
    <3>4. Len(out') <= MaxLength
      BY <1>2, <1>3, <1>8, <2>4, Sizes
    <3> QED
      BY <1>1, <1>2, <2>4, <3>1, <3>2, <3>3, <3>4 DEF StreamTyped
  <2>6. CASE Len(units) = encChunkSize
    <3>1. Len(text) = ChunkSize
      BY <1>8, <2>2, <2>6, Sizes
    <3>2. (index + 1) * ChunkSize <= Len(plain)
      BY <1>2, <1>3, <1>8, <3>1, Sizes
    <3>3. /\ stage' = "decrypt" /\ pos' = Overhead + index' * encChunkSize
          /\ index' * ChunkSize <= Len(plain)
          /\ out' = SubSeq(plain, 1, index' * ChunkSize)
      <4>1. stage' = "decrypt" /\ index' = index + 1
            /\ pos' = Overhead + index * encChunkSize + encChunkSize
        BY <1>2, <2>1, <2>6, Sizes
      <4>2. index * ChunkSize + Len(text) = (index + 1) * ChunkSize
        BY <1>3, <3>1
      <4>3. pos' = Overhead + (index + 1) * encChunkSize
        BY <1>3, <4>1, Sizes
      <4> QED
        BY <2>3, <3>2, <4>1, <4>2, <4>3
    <3>4. StreamInv'
      BY <1>1, <1>2, <3>3 DEF StreamInv, Beginning
    <3> QED
      BY <2>5, <3>4
  <2>7. CASE Len(units) < encChunkSize
    <3>1. /\ Len(text) < ChunkSize /\ Len(plain) < (index + 1) * ChunkSize
          /\ Len(text) = Len(plain) - index * ChunkSize
          /\ Len(stored) = pos + (Len(text) + Overhead)
      <4>1. Len(text) < ChunkSize
        BY <1>8, <2>2, <2>7, Sizes
      <4>2. ~((index + 1) * ChunkSize <= Len(plain))
        BY <1>4, <4>1, Sizes
      <4>3. Len(text) = Len(plain) - index * ChunkSize
        BY <1>4, <4>2
      <4>4. Len(plain) < (index + 1) * ChunkSize
        BY <1>2, <1>3, <4>2, Sizes
      <4>5. Len(stored) = pos + (Len(text) + Overhead)
        BY <1>2, <1>8, <2>2, <2>7
      <4> QED
        BY <4>1, <4>3, <4>4, <4>5
    <3>2. Len(text) # 0
      <4> SUFFICES ASSUME Len(text) = 0
                   PROVE  FALSE
        OBVIOUS
      <4>1. Len(plain) = index * ChunkSize
        <5>1. Len(plain) - index * ChunkSize = 0
          BY <3>1
        <5>2. index * ChunkSize \in Nat /\ Len(plain) \in Nat
          BY <1>2, <1>3
        <5> QED
          BY <5>1, <5>2
      <4>2. FileLength(plain) = Overhead + index * encChunkSize + 0
        BY <1>5, <3>1, <4>1
      <4>3. Len(stored) <= FileLength(plain)
        BY <1>2 DEF Beginning
      <4> QED
        BY <1>2, <1>3, <3>1, <4>2, <4>3, Sizes
    <3>3. Len(stored) = FileLength(plain)
      <4>1. FileLength(plain) = Overhead + index * encChunkSize
                                  + (Len(plain) - index * ChunkSize + Overhead)
        BY <1>2, <1>3, <1>5, <3>1, <3>2
      <4> QED
        BY <1>2, <1>3, <3>1, <4>1, Sizes
    <3>4. out' = plain
      <4>1. index * ChunkSize + Len(text) = Len(plain)
        BY <1>2, <1>3, <3>1
      <4> QED
        BY <1>2, <2>3, <4>1, SubSeqFull
    <3>5. stored = Format(plain)
      BY <1>2, <1>5, <3>3, FormatIsWhole
    <3>6. stage' = "done" /\ stored' = Format(out')
      BY <1>1, <2>1, <2>7, <3>4, <3>5
    <3>7. StreamInv'
      BY <1>1, <1>2, <2>4, <3>6 DEF StreamInv, Beginning
    <3> QED
      BY <2>5, <3>7
  <2> QED
    BY <1>8, <2>6, <2>7, Sizes
<1>12. CASE /\ ~Opens(index, units) /\ UNCHANGED <<index, pos, out>>
            /\ stage' = IF units = <<>> THEN "done" ELSE "failed"
  <2>1. StreamTyped'
    BY <1>1, <1>2, <1>12 DEF StreamTyped
  <2>2. IsPrefix(out, plain)
    <3>1. index * ChunkSize \in 0..Len(plain)
      BY <1>2, <1>3
    <3> QED
      BY <1>2, <3>1, PrefixOf
  <2>3. CASE units = <<>>
    <3>1. Len(stored) = Overhead + index * encChunkSize
      BY <1>2, <1>3, <1>8, <2>3, Sizes
    <3>2. stored = Format(out)
      BY <1>2, <3>1, CutBetweenChunks
    <3>3. StreamInv'
      BY <1>1, <1>2, <1>12, <2>2, <2>3, <3>2 DEF StreamInv, Beginning
    <3> QED
      BY <2>1, <3>3
  <2>4. CASE units # <<>>
    <3>1. stored # Format(plain)
      <4> SUFFICES ASSUME stored = Format(plain)
                   PROVE  FALSE
        OBVIOUS
      <4>1. Len(stored) = FileLength(plain)
        BY <1>2, <1>5, FormatIsWhole
      <4>2. pos < Len(stored)
        BY <1>2, <1>8, <2>4
      <4>3. Len(units) = Len(text) + Overhead
        <5>1. CASE (index + 1) * ChunkSize <= Len(plain)
          <6>1. pos + encChunkSize <= Len(stored) /\ Len(text) = ChunkSize
            BY <1>2, <1>3, <1>4, <1>5, <4>1, <5>1, Sizes
          <6> QED
            BY <1>6, <6>1, Sizes
        <5>2. CASE Len(plain) < (index + 1) * ChunkSize
          <6>1. Len(plain) # index * ChunkSize
            <7> SUFFICES ASSUME Len(plain) = index * ChunkSize
                         PROVE  FALSE
              OBVIOUS
            <7>1. FileLength(plain) = Overhead + index * encChunkSize + 0
              BY <1>5, <5>2
            <7> QED
              BY <1>2, <1>3, <4>1, <4>2, <7>1, Sizes
          <6>2. FileLength(plain) = Overhead + index * encChunkSize
                                      + (Len(plain) - index * ChunkSize + Overhead)
            BY <1>5, <5>2, <6>1
          <6>3. Len(stored) - pos = Len(plain) - index * ChunkSize + Overhead
            BY <1>2, <1>3, <4>1, <6>2, Sizes
          <6>4. /\ Len(text) = Len(plain) - index * ChunkSize
                /\ Len(stored) - pos < encChunkSize
            <7>1. ~((index + 1) * ChunkSize <= Len(plain))
              BY <1>2, <1>3, <5>2, Sizes
            <7>2. Len(text) = Len(plain) - index * ChunkSize
              BY <1>4, <7>1
            <7>3. Len(plain) - index * ChunkSize < ChunkSize
              BY <1>2, <1>3, <5>2, Sizes
            <7> QED
              BY <1>2, <1>3, <6>3, <7>2, <7>3, Sizes
          <6>5. ~(pos + encChunkSize <= Len(stored))
            BY <1>2, <6>4, Sizes
          <6> QED
            BY <1>6, <6>3, <6>4, <6>5
        <5> QED
          BY <1>2, <1>3, <5>1, <5>2, Sizes
      <4>4. units = Seal(index, text)
        BY <1>6, <1>7, <1>9, <4>3, SeqEqual
      <4> QED
        BY <1>10, <1>12, <2>4, <4>4 DEF Opens, TextOf
    <3>2. stage' = "failed" /\ stored' # Format(plain')
      BY <1>1, <1>12, <2>4, <3>1
    <3>3. StreamInv'
      BY <1>1, <1>2, <1>12, <2>2, <3>2 DEF StreamInv, Beginning
    <3> QED
      BY <2>1, <3>3
  <2> QED
    BY <2>3, <2>4
<1> QED
  BY <1>1, <1>11, <1>12

LEMMA StreamInductive ==
    StreamTyped /\ StreamInv /\ [Next]_vars => StreamTyped' /\ StreamInv'
<1> SUFFICES ASSUME StreamTyped, StreamInv, [Next]_vars
             PROVE  StreamTyped' /\ StreamInv'
  OBVIOUS
<1>1. CASE UNCHANGED vars
  BY <1>1 DEF vars, StreamTyped, StreamInv, Beginning
<1> QED
  BY <1>1, EncryptKeeps, CutKeeps, NonceKeeps, DecryptKeeps DEF Next

LEMMA StreamAlways == Spec => [](StreamTyped /\ StreamInv)
BY StreamInit, StreamInductive, PTL DEF Spec

----------------------------------------------------------------------------
(* What follows.                                                           *)

\* The files of two texts of which one begins the other differ in length.
LEMMA LongerTextLongerFile ==
    ASSUME NEW s \in Seq(Text), NEW t \in Seq(Text), Len(s) < Len(t)
    PROVE  FileLength(s) < FileLength(t)
<1> DEFINE i == Len(s) \div ChunkSize
           r == Len(s) % ChunkSize
<1>0. Len(s) \in Nat /\ Len(t) \in Nat
  BY LenProperties
<1>1. i \in Nat /\ r \in 0..(ChunkSize - 1) /\ Len(s) = i * ChunkSize + r
  BY <1>0, Sizes, Division
<1> HIDE DEF i, r
<1>2. /\ i * ChunkSize \in Nat /\ i * encChunkSize \in Nat
      /\ (i + 1) * ChunkSize = i * ChunkSize + ChunkSize
      /\ (i + 1) * encChunkSize = i * encChunkSize + encChunkSize
  BY <1>1, Sizes, Times
<1>3. FileLength(s) = Overhead + i * encChunkSize
                        + (IF r = 0 THEN 0 ELSE r + Overhead)
  BY <1>1, FileOfChunks
<1>4. i * ChunkSize <= Len(t)
  BY <1>0, <1>1, <1>2
<1>5. /\ FileLength(t) \in Nat
      /\ (i + 1) * ChunkSize <= Len(t) =>
            Overhead + (i + 1) * encChunkSize <= FileLength(t)
      /\ Len(t) < (i + 1) * ChunkSize =>
            FileLength(t) = Overhead + i * encChunkSize
                              + (IF Len(t) = i * ChunkSize THEN 0
                                 ELSE Len(t) - i * ChunkSize + Overhead)
  BY <1>1, <1>4, FileAfterChunks
<1>6. FileLength(s) < Overhead + (i + 1) * encChunkSize
  BY <1>1, <1>2, <1>3, Sizes
<1>7. CASE (i + 1) * ChunkSize <= Len(t)
  <2>1. FileLength(s) \in Int
    BY <1>1, <1>2, <1>3, Sizes
  <2> QED
    BY <1>2, <1>5, <1>6, <1>7, <2>1, Sizes
<1>8. CASE Len(t) < (i + 1) * ChunkSize
  <2>1. Len(t) # i * ChunkSize
    BY <1>0, <1>1, <1>2
  <2>2. FileLength(t) = Overhead + i * encChunkSize
                          + (Len(t) - i * ChunkSize + Overhead)
    BY <1>5, <1>8, <2>1
  <2> QED
    BY <1>0, <1>1, <1>2, <1>3, <2>2, Sizes
<1> QED
  BY <1>0, <1>2, <1>7, <1>8, Sizes

\* The loops stay within the text and the file, and number no more chunks
\* than the text has units.
THEOREM StreamTyping == Spec => []CryptoTypeOK
<1>1. StreamTyped => CryptoTypeOK
  BY Bounded, Sizes DEF StreamTyped, CryptoTypeOK
<1> QED
  BY <1>1, StreamAlways, PTL

\* Whatever became of the file, what was sent is a beginning of the text.
THEOREM OnlyPrefixesAreSent == Spec => []SendsPrefix
<1>1. StreamTyped /\ StreamInv => SendsPrefix
  <2> SUFFICES ASSUME StreamTyped, StreamInv
               PROVE  IsPrefix(out, plain)
    BY DEF SendsPrefix
  <2>1. plain \in Seq(Text) /\ Len(plain) \in Nat
    BY LenProperties DEF StreamTyped
  <2>2. CASE stage \in {"encrypt", "stored"}
    <3>1. SubSeq(plain, 1, 0) = <<>> /\ IsPrefix(SubSeq(plain, 1, 0), plain)
      BY <2>1, SubSeqEmpty, PrefixOf
    <3> QED
      BY <2>2, <3>1 DEF StreamInv
  <2>3. CASE stage = "decrypt"
    <3>1. index * ChunkSize \in 0..Len(plain)
      BY <2>1, <2>3, Sizes, Times DEF StreamTyped, StreamInv
    <3> QED
      BY <2>1, <2>3, <3>1, PrefixOf DEF StreamInv
  <2>4. CASE stage \in {"done", "failed"}
    BY <2>4 DEF StreamInv
  <2> QED
    BY <2>2, <2>3, <2>4 DEF StreamTyped
<1> QED
  BY <1>1, StreamAlways, PTL

\* A decryption that ends well has sent the text of exactly the file it read.
THEOREM CutsAreNoticed == Spec => []CutIsNoticed
<1>1. StreamInv => CutIsNoticed
  BY DEF StreamInv, CutIsNoticed
<1> QED
  BY <1>1, StreamAlways, PTL

\* A complete file decrypts, and to the very text it was made of.
THEOREM TextsComeBack == Spec => []RoundTrip
<1>1. StreamTyped /\ StreamInv => RoundTrip
  <2> SUFFICES ASSUME StreamTyped, StreamInv
               PROVE  RoundTrip
    OBVIOUS
  <2>1. /\ plain \in Seq(Text) /\ Len(plain) \in Nat /\ stored \in Seq(Units)
        /\ out \in Seq(Text) /\ Len(out) \in Nat /\ Beginning(stored, plain)
    BY LenProperties DEF StreamTyped, StreamInv
  <2>2. FileLength(plain) \in Nat /\ FileLength(out) \in Nat
    <3>1. 0 \in Nat /\ 0 * ChunkSize = 0
      BY Sizes
    <3> QED
      BY <2>1, <3>1, FileAfterChunks
  <2>3. ASSUME stage = "stored", pos > 0
        PROVE  stored = Format(plain)
    BY <2>1, <2>2, <2>3, FormatIsWhole DEF StreamInv
  <2>4. ASSUME stage = "done", stored = Format(plain)
        PROVE  out = plain
    <3>1. Len(stored) = FileLength(plain)
      BY <2>1, <2>2, <2>4, FormatIsWhole
    <3>2. stored # <<>>
      <4>1. Len(plain) >= 0 /\ FileLength(plain) > 0
        <5>1. CASE Len(plain) = 0
          <6>1. Len(plain) = 0 * ChunkSize + 0 /\ 0 \in 0..(ChunkSize - 1)
            BY <5>1, Sizes
          <6>2. FileLength(plain) = Overhead + 0 * encChunkSize
                                      + (IF 0 = 0 THEN 0 ELSE 0 + Overhead)
            BY <6>1, FileOfChunks
          <6> QED
            BY <2>1, <6>2, Sizes
        <5>2. CASE Len(plain) # 0
          <6>1. <<>> \in Seq(Text) /\ Len(<<>>) < Len(plain)
            BY <2>1, <5>2, EmptySeq
          <6>2. FileLength(<<>>) < FileLength(plain) /\ FileLength(<<>>) \in Nat
            <7>1. 0 \in Nat /\ 0 * ChunkSize <= Len(<<>>)
              BY <6>1, Sizes, EmptySeq
            <7> QED
              BY <2>1, <6>1, <7>1, LongerTextLongerFile, FileAfterChunks
          <6> QED
            BY <2>1, <2>2, <6>2
        <5> QED
          BY <5>1, <5>2
      <4> QED
        BY <3>1, <4>1, EmptySeq
    <3>3. stored = Format(out) /\ IsPrefix(out, plain)
      BY <2>4, <3>2 DEF StreamInv
    <3>4. Len(stored) = FileLength(out)
      BY <2>1, <2>2, <3>3, FormatIsWhole
    <3>5. Len(out) = Len(plain)
      <4>1. Len(out) <= Len(plain)
        BY <2>1, <3>3 DEF IsPrefix
      <4>2. ~(Len(out) < Len(plain))
        <5>1. Len(out) < Len(plain) => FileLength(out) < FileLength(plain)
          BY <2>1, LongerTextLongerFile
        <5>2. FileLength(out) = FileLength(plain)
          BY <3>1, <3>4
        <5> QED
          BY <2>2, <5>1, <5>2
      <4> QED
        BY <2>1, <4>1, <4>2
    <3> QED
      BY <2>1, <3>3, <3>5, SubSeqFull DEF IsPrefix
  <2>5. stage = "failed" => stored # Format(plain)
    BY DEF StreamInv
  <2> QED
    BY <2>3, <2>4, <2>5 DEF RoundTrip
<1> QED
  BY <1>1, StreamAlways, PTL

=============================================================================
