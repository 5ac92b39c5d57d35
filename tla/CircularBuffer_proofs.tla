------------------------ MODULE CircularBuffer_proofs ------------------------
(***************************************************************************)
(* Theorems about CircularBuffer, for any size, any word, and any payloads *)
(* and requests.                                                           *)
(***************************************************************************)
EXTENDS CircularBuffer, SequenceTheorems, WellFoundedInduction, TLAPS

-----------------------------------------------------------------------------
(* Arithmetic: counters that wrap, and indices into the ring. *)

Half == Word \div 2

LEMMA WordFacts ==
    /\ Word \in Nat /\ Half \in Nat /\ Half > 1 /\ Word = 2 * Half
    /\ Word \div 4 \in Nat /\ 4 * (Word \div 4) = Word
  BY WordAssumption DEF Half

(* Division with remainder determines both. *)
LEMMA Remainder ==
    ASSUME NEW d \in Nat, d > 0, NEW q \in Int, NEW r \in 0..(d - 1),
           NEW x \in Int, x = q * d + r
    PROVE  x % d = r
  OBVIOUS

LEMMA Quotient ==
    ASSUME NEW d \in Nat, d > 0, NEW x \in Int
    PROVE  \E q \in Int : x = q * d + (x % d) /\ x % d \in 0..(d - 1)
  OBVIOUS

(* Adding to x moves its index on, around the end of the ring once. *)
LEMMA ModStep ==
    ASSUME NEW d \in Nat, d > 0, NEW x \in Int, NEW j \in 0..d
    PROVE  (x + j) % d = IF (x % d) + j < d THEN (x % d) + j ELSE (x % d) + j - d
  <1>1. PICK q \in Int : x = q * d + (x % d) /\ x % d \in 0..(d - 1)
    BY Quotient
  <1>2. CASE (x % d) + j < d
    <2>1. (x % d) + j \in 0..(d - 1) /\ x + j \in Int /\ x + j = q * d + ((x % d) + j)
      BY <1>1, <1>2
    <2>2. (x + j) % d = (x % d) + j
      BY <2>1, Remainder
    <2> QED
      BY <1>2, <2>2
  <1>3. CASE (x % d) + j >= d
    <2>1. PICK p \in Int, y \in Int : p = q + 1 /\ y = x + j
      OBVIOUS
    <2>2. PICK r \in 0..(d - 1) : r = (x % d) + j - d
      BY <1>1, <1>3
    <2>3. y = p * d + r
      BY <1>1, <2>1, <2>2
    <2>4. y % d = r
      BY <2>3, Remainder
    <2> QED
      BY <1>1, <1>3, <2>1, <2>2, <2>4
  <1>4. x % d \in Int
    BY <1>1
  <1> QED
    BY <1>2, <1>3, <1>4

(* A ring whose size divides the word does not see a counter wrap. *)
LEMMA ModShift ==
    ASSUME NEW d \in Nat, d > 0, Word % d = 0, NEW x \in Int
    PROVE  (x + Word) % d = x % d /\ (x - Word) % d = x % d
  <1>1. PICK p \in Int : Word = p * d
    BY Quotient, WordFacts
  <1>2. PICK q \in Int : x = q * d + (x % d) /\ x % d \in 0..(d - 1)
    BY Quotient
  <1>3. PICK r \in 0..(d - 1) : r = x % d
    BY <1>2
  <1>4. PICK a \in Int, y \in Int : a = q + p /\ y = x + Word
    BY WordFacts
  <1>5. PICK b \in Int, z \in Int : b = q - p /\ z = x - Word
    BY WordFacts
  <1>6. y = a * d + r /\ z = b * d + r
    BY <1>1, <1>2, <1>3, <1>4, <1>5
  <1>7. y % d = r /\ z % d = r
    BY <1>6, Remainder
  <1> QED
    BY <1>3, <1>4, <1>5, <1>7

(* Wrap of a value that is at most one turn off. *)
LEMMA WrapNear ==
    ASSUME NEW x \in Int, -(3 * Half) <= x, x < 3 * Half
    PROVE  /\ x < -Half => Wrap(x) = x + Word
           /\ -Half <= x /\ x < Half => Wrap(x) = x
           /\ x >= Half => Wrap(x) = x - Word
  <1> USE WordFacts
  <1>1. CASE x < -Half
    <2>1. x + Half = (-1) * Word + (x + Half + Word) /\ x + Half + Word \in 0..(Word - 1)
      BY <1>1
    <2>2. (x + Half) % Word = x + Half + Word
      BY <2>1, Remainder
    <2> QED
      BY <1>1, <2>2 DEF Wrap, Half
  <1>2. CASE -Half <= x /\ x < Half
    <2>1. x + Half = 0 * Word + (x + Half) /\ x + Half \in 0..(Word - 1)
      BY <1>2
    <2>2. (x + Half) % Word = x + Half
      BY <2>1, Remainder
    <2> QED
      BY <1>2, <2>2 DEF Wrap, Half
  <1>3. CASE x >= Half
    <2>1. x + Half = 1 * Word + (x + Half - Word) /\ x + Half - Word \in 0..(Word - 1)
      BY <1>3
    <2>2. (x + Half) % Word = x + Half - Word
      BY <2>1, Remainder
    <2> QED
      BY <1>3, <2>2 DEF Wrap, Half
  <1> QED
    BY <1>1, <1>2, <1>3

(* ... and what it leaves alone. *)
LEMMA WrapFacts ==
    ASSUME NEW x \in Int, -(3 * Half) <= x, x < 3 * Half
    PROVE  Wrap(x) \in Counters /\ Wrap(x) \in {x - Word, x, x + Word}
  BY WrapNear, WordFacts DEF Counters, Half

LEMMA WrapKeepsIndex ==
    ASSUME NEW x \in Int, -(3 * Half) <= x, x < 3 * Half,
           NEW d \in Nat, NEW j \in Int, d > 0, Word % d = 0
    PROVE  (Wrap(x) + j) % d = (x + j) % d
  <1>1. x + j \in Int /\ Word \in Int
    BY WordFacts
  <1>2. Wrap(x) + j \in {(x + j) - Word, x + j, (x + j) + Word}
    BY <1>1, WrapFacts
  <1> QED
    BY <1>1, <1>2, ModShift

(***************************************************************************)
(* The distance of two counters, as each side computes it.  Both advance   *)
(* it as if they did not wrap.                                             *)
(***************************************************************************)
LEMMA Distance ==
    ASSUME NEW w \in Counters, NEW r \in Counters, Wrap(w - r) \in 0..(Word \div 4)
    PROVE  w \in {r + Wrap(w - r), r + Wrap(w - r) - Word}
  <1> USE WordFacts
  <1>1. w - r \in Int /\ -(3 * Half) <= w - r /\ w - r < 3 * Half
    BY DEF Counters, Half
  <1>2. w \in Int /\ r \in Int
    BY DEF Counters, Half
  <1>3. CASE w - r < -Half
    <2>1. Wrap(w - r) = w - r + Word
      BY <1>1, <1>3, WrapNear
    <2> QED
      BY <1>2, <2>1
  <1>4. CASE -Half <= w - r /\ w - r < Half
    <2>1. Wrap(w - r) = w - r
      BY <1>1, <1>4, WrapNear
    <2> QED
      BY <1>2, <2>1
  <1>5. CASE w - r >= Half
    <2>1. Wrap(w - r) = w - r - Word
      BY <1>1, <1>5, WrapNear
    <2> QED
      BY <1>2, <2>1 DEF Counters, Half
  <1> QED
    BY <1>1, <1>3, <1>4, <1>5

LEMMA AdvanceWriter ==
    ASSUME NEW w \in Counters, NEW r \in Counters, NEW n \in Nat,
           Wrap(w - r) >= 0, Wrap(w - r) + n <= Word \div 4
    PROVE  /\ Wrap(w + n) \in Counters
           /\ Wrap(Wrap(w + n) - r) = Wrap(w - r) + n
  <1> DEFINE D == Wrap(w - r)
             v == Wrap(w + n)
  <1>0. w \in Int /\ r \in Int /\ -Half <= w /\ w < Half /\ -Half <= r /\ r < Half
    BY WordFacts DEF Counters, Half
  <1>1. w - r \in Int /\ -(3 * Half) <= w - r /\ w - r < 3 * Half
    BY <1>0, WordFacts
  <1>2. D \in Int /\ D \in 0..(Word \div 4) /\ n <= Word \div 4
    BY <1>1, WrapFacts, WordFacts DEF Counters, Half
  <1>3. w \in {r + D, r + D - Word}
    BY <1>2, Distance
  <1>4. w + n \in Int /\ -(3 * Half) <= w + n /\ w + n < 3 * Half
    BY <1>0, <1>2, WordFacts
  <1>5. v \in Counters /\ v \in {w + n - Word, w + n, w + n + Word}
    <2>1. PICK y \in Int : y = w + n /\ -(3 * Half) <= y /\ y < 3 * Half
      BY <1>4
    <2>2. Wrap(y) \in Counters /\ Wrap(y) \in {y - Word, y, y + Word}
      BY <2>1, WrapFacts
    <2> QED
      BY <1>0, <2>1, <2>2, WordFacts
  <1>6. v \in Int /\ -Half <= v /\ v < Half
    BY <1>5, WordFacts DEF Counters, Half
  <1> HIDE DEF D, v
  <1>7. v - r \in Int /\ -(3 * Half) <= v - r /\ v - r < 3 * Half
    BY <1>0, <1>6, WordFacts
  <1>8. Wrap(v - r) = D + n
    <2>1. D + n \in 0..(Word \div 4)
      BY <1>2 DEF D
    <2>2. v - r \in {D + n, D + n - Word}
      BY <1>0, <1>2, <1>3, <1>5, <1>6, <2>1, WordFacts
    <2>3. CASE v - r = D + n
      BY <1>7, <2>1, <2>3, WrapNear, WordFacts
    <2>4. CASE v - r = D + n - Word
      <3>1. D + n - Word < -Half
        BY <1>2, <2>1, WordFacts
      <3>2. Wrap(D + n - Word) = D + n - Word + Word
        BY <1>7, <2>4, <3>1, WrapNear
      <3> QED
        BY <1>2, <2>1, <2>4, <3>2, WordFacts
    <2> QED
      BY <2>2, <2>3, <2>4
  <1> QED
    BY <1>5, <1>8 DEF D, v

LEMMA AdvanceReader ==
    ASSUME NEW w \in Counters, NEW r \in Counters, NEW n \in Nat,
           Wrap(w - r) \in 0..(Word \div 4), n <= Wrap(w - r)
    PROVE  /\ Wrap(r + n) \in Counters
           /\ Wrap(w - Wrap(r + n)) = Wrap(w - r) - n
  <1> DEFINE D == Wrap(w - r)
             v == Wrap(r + n)
  <1>0. w \in Int /\ r \in Int /\ -Half <= w /\ w < Half /\ -Half <= r /\ r < Half
    BY WordFacts DEF Counters, Half
  <1>2. D \in 0..(Word \div 4) /\ n <= Word \div 4 /\ n <= D
    BY WordFacts
  <1>3. w \in {r + D, r + D - Word}
    BY <1>2, Distance
  <1>4. r + n \in Int /\ -(3 * Half) <= r + n /\ r + n < 3 * Half
    BY <1>0, <1>2, WordFacts
  <1>5. v \in Counters /\ v \in {r + n - Word, r + n, r + n + Word}
    <2>1. PICK y \in Int : y = r + n /\ -(3 * Half) <= y /\ y < 3 * Half
      BY <1>4
    <2>2. Wrap(y) \in Counters /\ Wrap(y) \in {y - Word, y, y + Word}
      BY <2>1, WrapFacts
    <2> QED
      BY <1>0, <2>1, <2>2, WordFacts
  <1>6. v \in Int /\ -Half <= v /\ v < Half
    BY <1>5, WordFacts DEF Counters, Half
  <1> HIDE DEF D, v
  <1>7. w - v \in Int /\ -(3 * Half) <= w - v /\ w - v < 3 * Half
    BY <1>0, <1>6, WordFacts
  <1>8. Wrap(w - v) = D - n
    <2>1. D - n \in 0..(Word \div 4)
      BY <1>2, WordFacts
    <2>2. w - v \in {D - n, D - n - Word}
      BY <1>0, <1>2, <1>3, <1>5, <1>6, <2>1, WordFacts
    <2>3. CASE w - v = D - n
      BY <1>7, <2>1, <2>3, WrapNear, WordFacts
    <2>4. CASE w - v = D - n - Word
      <3>1. D - n - Word < -Half
        BY <2>1, WordFacts
      <3>2. Wrap(D - n - Word) = D - n - Word + Word
        BY <1>7, <2>4, <3>1, WrapNear
      <3> QED
        BY <1>2, <2>1, <2>4, <3>2, WordFacts
    <2> QED
      BY <2>2, <2>3, <2>4
  <1> QED
    BY <1>5, <1>8 DEF D, v

-----------------------------------------------------------------------------
(* The ring's positions, from where the reader is. *)

Basics == TypeOK /\ SizeAsked /\ DataFits

LEMMA RingFacts ==
    ASSUME Basics, Created
    PROVE  /\ size \in Nat /\ size <= Word \div 4 /\ size = requested
           /\ size > 0 => Word % size = 0
           /\ DataSize \in 0..size /\ DataSize \in Nat
           /\ wcount \in Counters /\ rcount \in Counters /\ wcount \in Int /\ rcount \in Int
           /\ buff \in [0..(size - 1) -> Bytes]
  <1>1. requested \in Requested /\ wcount \in Counters /\ rcount \in Counters
        /\ buff \in [0..(size - 1) -> Bytes]
    BY DEF Basics, TypeOK
  <1>2. size = requested /\ (size > 0 => Word % size = 0) /\ DataSize \in 0..size
    BY DEF Basics, SizeAsked, DataFits
  <1>3. size \in Nat /\ size <= Word \div 4
    BY <1>1, <1>2, RequestedAssumption, WordFacts
  <1>4. wcount \in Int /\ rcount \in Int
    BY <1>1, WordFacts DEF Counters, Half
  <1> QED
    BY <1>1, <1>2, <1>3, <1>4

(* Where the i-th byte after a counter is: the ring is left at its end once. *)
Around(p) == IF p < size THEN p ELSE p - size

LEMMA IndexSteps ==
    ASSUME size \in Nat, size > 0, NEW c \in Int
    PROVE  /\ Index(c) \in 0..(size - 1)
           /\ \A i \in 1..(size + 1) : Index(c + i - 1) = Around(Index(c) + i - 1)
  <1>1. Index(c) = c % size /\ c % size \in 0..(size - 1)
    BY DEF Index
  <1>2. ASSUME NEW i \in 1..(size + 1)
        PROVE  Index(c + i - 1) = Around(Index(c) + i - 1)
    <2>1. PICK j \in 0..size : j = i - 1
      OBVIOUS
    <2>2. (c + j) % size = IF (c % size) + j < size THEN (c % size) + j ELSE (c % size) + j - size
      BY ModStep
    <2>3. c + i - 1 = c + j /\ Index(c) + i - 1 = (c % size) + j
      BY <1>1, <2>1
    <2> QED
      BY <2>2, <2>3 DEF Index, Around
  <1> QED
    BY <1>1, <1>2

LEMMA Positions ==
    ASSUME Basics, Created, size > 0
    PROVE  /\ Index(rcount) \in 0..(size - 1) /\ Index(wcount) \in 0..(size - 1)
           /\ \A i \in 1..(size + 1) : Index(rcount + i - 1) = Around(Index(rcount) + i - 1)
           /\ \A i \in 1..(size + 1) : Index(wcount + i - 1) = Around(Index(wcount) + i - 1)
           /\ Index(wcount) = Around(Index(rcount) + DataSize)
  <1>1. /\ size \in Nat /\ Word % size = 0 /\ DataSize \in 0..size /\ size <= Word \div 4
        /\ wcount \in Counters /\ rcount \in Counters /\ wcount \in Int /\ rcount \in Int
    BY RingFacts
  <1>2. wcount \in {rcount + DataSize, rcount + DataSize - Word}
    BY <1>1, Distance, WordFacts DEF DataSize
  <1>3. PICK y \in Int : y = rcount + DataSize
    BY <1>1
  <1>4. (y - Word) % size = y % size
    BY <1>1, ModShift
  <1>5. wcount % size = y % size
    <2>1. wcount = y \/ wcount = y - Word
      BY <1>1, <1>2, <1>3, WordFacts
    <2> QED
      BY <1>4, <2>1
  <1>6. PICK i \in 1..(size + 1) : i = DataSize + 1
    BY <1>1
  <1>7. Index(rcount + i - 1) = Around(Index(rcount) + i - 1)
    BY <1>1, IndexSteps
  <1>8. rcount + i - 1 = y /\ Index(rcount) + i - 1 = Index(rcount) + DataSize
    <2>1. Index(rcount) \in Int
      BY <1>1, IndexSteps
    <2> QED
      BY <1>1, <1>3, <1>6, <2>1
  <1>9. Index(wcount) = Around(Index(rcount) + DataSize)
    BY <1>1, <1>5, <1>7, <1>8 DEF Index
  <1> QED
    BY <1>1, <1>9, IndexSteps

-----------------------------------------------------------------------------
(* memcpy into the ring and out of it. *)

LEMMA CopyInFacts ==
    ASSUME Basics, Created, NEW off \in Nat, NEW data \in Seq(Bytes)
    PROVE  /\ CopyIn(off, data) \in [0..(size - 1) -> Bytes]
           /\ \A p \in 0..(size - 1) : CopyIn(off, data)[p] =
                 IF off <= p /\ p < off + Len(data) THEN data[p - off + 1] ELSE buff[p]
  <1>1. size \in Nat /\ buff \in [0..(size - 1) -> Bytes] /\ DOMAIN buff = 0..(size - 1)
    BY RingFacts
  <1>2. Len(data) \in Nat
    OBVIOUS
  <1>3. ASSUME NEW p \in 0..(size - 1)
        PROVE  /\ p \in off .. off + Len(data) - 1 <=> off <= p /\ p < off + Len(data)
               /\ off <= p /\ p < off + Len(data) => data[p - off + 1] \in Bytes
    <2>1. p \in off .. off + Len(data) - 1 <=> off <= p /\ p < off + Len(data)
      BY <1>1, <1>2
    <2>2. ASSUME off <= p, p < off + Len(data) PROVE data[p - off + 1] \in Bytes
      <3>1. p - off + 1 \in 1..Len(data)
        BY <1>1, <1>2, <2>2
      <3> QED
        BY <3>1
    <2> QED
      BY <2>1, <2>2
  <1>4. \A p \in 0..(size - 1) : CopyIn(off, data)[p] =
                 IF off <= p /\ p < off + Len(data) THEN data[p - off + 1] ELSE buff[p]
    BY <1>1, <1>3 DEF CopyIn
  <1>5. CopyIn(off, data) \in [0..(size - 1) -> Bytes]
    BY <1>1, <1>3 DEF CopyIn
  <1> QED
    BY <1>4, <1>5

(* UntilEnd stops at the end of the ring, and never asks for more than n. *)
LEMMA UntilEndFacts ==
    ASSUME size \in Nat, NEW n \in Nat, NEW c \in Int
    PROVE  /\ UntilEnd(n, c) \in 0..n
           /\ Index(c) + UntilEnd(n, c) <= size
           /\ UntilEnd(n, c) < n => UntilEnd(n, c) = size - Index(c)
  <1>1. Index(c) \in 0..size
    <2>1. CASE size = 0
      BY <2>1 DEF Index
    <2>2. CASE size > 0
      BY <2>2, IndexSteps
    <2> QED
      BY <2>1, <2>2
  <1> QED
    BY <1>1 DEF UntilEnd, Least

(***************************************************************************)
(* The data is left alone by a copy of n bytes into the free room, either  *)
(* before the end of the ring or from its start.                           *)
(***************************************************************************)
DataKept == \A i \in 1..DataSize : buff'[Index(rcount + i - 1)] = buff[Index(rcount + i - 1)]

LEMMA HeadKeepsData ==
    ASSUME Basics, Created, NEW data \in Seq(Bytes), Len(data) + DataSize <= size,
           Index(wcount) + Len(data) <= size, buff' = CopyIn(Index(wcount), data)
    PROVE  /\ DataKept
           /\ \A i \in 1..Len(data) : buff'[Index(wcount) + i - 1] = data[i]
           /\ buff' \in [0..(size - 1) -> Bytes]
  <1>1. size \in Nat /\ DataSize \in 0..size /\ Len(data) \in Nat
    BY RingFacts
  <1>2. CASE size = 0
    <2>1. Index(wcount) = 0
      BY <1>2 DEF Index
    <2>2. DataSize = 0 /\ Len(data) = 0
      BY <1>1, <1>2
    <2>3. CopyIn(0, data) \in [0..(size - 1) -> Bytes]
      BY CopyInFacts
    <2>4. 1..DataSize = {} /\ 1..Len(data) = {}
      BY <2>2
    <2> QED
      BY <2>1, <2>3, <2>4 DEF DataKept
  <1>3. CASE size > 0
    <2>1. Index(wcount) \in Nat /\ Index(wcount) \in 0..(size - 1)
      BY <1>1, <1>3, Positions
    <2>2. /\ buff' \in [0..(size - 1) -> Bytes]
          /\ \A p \in 0..(size - 1) : buff'[p] =
                IF Index(wcount) <= p /\ p < Index(wcount) + Len(data)
                THEN data[p - Index(wcount) + 1] ELSE buff[p]
      BY <2>1, CopyInFacts
    <2>3. ASSUME NEW i \in 1..DataSize
          PROVE  buff'[Index(rcount + i - 1)] = buff[Index(rcount + i - 1)]
      <3>1. /\ Index(rcount) \in 0..(size - 1)
            /\ Index(wcount) = Around(Index(rcount) + DataSize)
            /\ Index(rcount + i - 1) = Around(Index(rcount) + i - 1)
        BY <1>1, <1>3, Positions
      <3>2. /\ Index(rcount + i - 1) \in 0..(size - 1)
            /\ ~(Index(wcount) <= Index(rcount + i - 1)
                  /\ Index(rcount + i - 1) < Index(wcount) + Len(data))
        BY <1>1, <1>3, <3>1 DEF Around
      <3> QED
        BY <2>2, <3>2
    <2>4. ASSUME NEW i \in 1..Len(data)
          PROVE  buff'[Index(wcount) + i - 1] = data[i]
      <3>1. PICK p \in 0..(size - 1) : p = Index(wcount) + i - 1
        BY <1>1, <2>1
      <3>2. Index(wcount) <= p /\ p < Index(wcount) + Len(data) /\ p - Index(wcount) + 1 = i
        BY <1>1, <2>1, <3>1
      <3> QED
        BY <2>2, <3>1, <3>2
    <2> QED
      BY <2>2, <2>3, <2>4 DEF DataKept
  <1> QED
    BY <1>1, <1>2, <1>3

LEMMA TailKeepsData ==
    ASSUME Basics, Created, NEW data \in Seq(Bytes), NEW done \in 0..Len(data),
           Len(data) + DataSize <= size,
           Index(wcount) + done <= size,
           done < Len(data) => done = size - Index(wcount),
           \A i \in 1..done : buff[Index(wcount) + i - 1] = data[i],
           buff' = CopyIn(0, SubSeq(data, done + 1, Len(data)))
    PROVE  /\ DataKept
           /\ \A i \in 1..Len(data) : buff'[Index(wcount + i - 1)] = data[i]
           /\ buff' \in [0..(size - 1) -> Bytes]
  <1>1. size \in Nat /\ DataSize \in 0..size /\ Len(data) \in Nat /\ done \in Nat
    BY RingFacts
  <1>2. PICK rest \in Seq(Bytes) :
            /\ Len(rest) = Len(data) - done
            /\ \A j \in 1..(Len(data) - done) : rest[j] = data[done + j]
            /\ buff' = CopyIn(0, rest)
    <2>1. /\ SubSeq(data, done + 1, Len(data)) \in Seq(Bytes)
          /\ Len(SubSeq(data, done + 1, Len(data))) = Len(data) - done
      BY <1>1
    <2>2. ASSUME NEW j \in 1..(Len(data) - done)
          PROVE  SubSeq(data, done + 1, Len(data))[j] = data[done + j]
      BY <1>1
    <2> QED
      BY <2>1, <2>2
  <1>3. /\ buff' \in [0..(size - 1) -> Bytes]
        /\ \A p \in 0..(size - 1) :
              buff'[p] = IF p < Len(data) - done THEN rest[p + 1] ELSE buff[p]
    <2>1. /\ CopyIn(0, rest) \in [0..(size - 1) -> Bytes]
          /\ \A p \in 0..(size - 1) : CopyIn(0, rest)[p] =
                IF 0 <= p /\ p < 0 + Len(rest) THEN rest[p - 0 + 1] ELSE buff[p]
      BY CopyInFacts
    <2> QED
      BY <1>1, <1>2, <2>1
  <1>4. CASE size = 0
    <2>1. DataSize = 0 /\ Len(data) = 0
      BY <1>1, <1>4
    <2>2. 1..DataSize = {} /\ 1..Len(data) = {}
      BY <2>1
    <2> QED
      BY <1>3, <2>2 DEF DataKept
  <1>5. CASE size > 0
    <2>1. /\ Index(rcount) \in 0..(size - 1) /\ Index(wcount) \in 0..(size - 1)
          /\ Index(wcount) = Around(Index(rcount) + DataSize)
          /\ \A i \in 1..(size + 1) : Index(rcount + i - 1) = Around(Index(rcount) + i - 1)
          /\ \A i \in 1..(size + 1) : Index(wcount + i - 1) = Around(Index(wcount) + i - 1)
      BY <1>1, <1>5, Positions
    <2>2. /\ \A i \in 1..DataSize : /\ Around(Index(rcount) + i - 1) \in 0..(size - 1)
                                    /\ ~(Around(Index(rcount) + i - 1) < Len(data) - done)
          /\ \A i \in 1..done : /\ Index(wcount) + i - 1 \in 0..(size - 1)
                                /\ ~(Index(wcount) + i - 1 < Len(data) - done)
          /\ \A i \in (done + 1)..Len(data) :
                /\ Around(Index(wcount) + i - 1) = i - done - 1
                /\ i - done - 1 \in 0..(size - 1) /\ i - done - 1 < Len(data) - done
      <3>1. PICK r \in 0..(size - 1), w \in 0..(size - 1), n \in Nat, d \in 0..size :
                r = Index(rcount) /\ w = Index(wcount) /\ n = Len(data) /\ d = DataSize
        BY <1>1, <2>1
      <3>2. /\ n + d <= size /\ done \in 0..n /\ (done < n => done = size - w)
            /\ w + done <= size /\ w = Around(r + d)
        BY <1>1, <2>1, <3>1
      <3>3. /\ \A i \in 1..d : /\ Around(r + i - 1) \in 0..(size - 1)
                               /\ ~(Around(r + i - 1) < n - done)
            /\ \A i \in 1..done : w + i - 1 \in 0..(size - 1) /\ ~(w + i - 1 < n - done)
            /\ \A i \in (done + 1)..n :
                  /\ Around(w + i - 1) = i - done - 1
                  /\ i - done - 1 \in 0..(size - 1) /\ i - done - 1 < n - done
        <4>1. CASE done = n
          BY <1>1, <3>2, <4>1 DEF Around
        <4>2. CASE done < n /\ done = size - w
          BY <1>1, <3>2, <4>2 DEF Around
        <4> QED
          BY <1>1, <3>2, <4>1, <4>2
      <3> QED
        BY <3>1, <3>3
    <2>3. ASSUME NEW i \in 1..DataSize
          PROVE  buff'[Index(rcount + i - 1)] = buff[Index(rcount + i - 1)]
      <3>1. Index(rcount + i - 1) = Around(Index(rcount) + i - 1)
        BY <1>1, <2>1
      <3> QED
        BY <1>3, <2>2, <3>1
    <2>4. ASSUME NEW i \in 1..Len(data)
          PROVE  buff'[Index(wcount + i - 1)] = data[i]
      <3>1. Index(wcount + i - 1) = Around(Index(wcount) + i - 1)
        BY <1>1, <2>1
      <3>2. CASE i <= done
        <4>1. i \in 1..done
          BY <1>1, <3>2
        <4>2. PICK p \in 0..(size - 1) : p = Index(wcount) + i - 1 /\ ~(p < Len(data) - done)
          BY <2>2, <4>1
        <4>3. Index(wcount + i - 1) = p
          BY <1>1, <3>1, <4>2 DEF Around
        <4>4. buff[p] = data[i]
          BY <4>1, <4>2
        <4> QED
          BY <1>3, <4>2, <4>3, <4>4
      <3>3. CASE i > done
        <4>1. i \in (done + 1)..Len(data)
          BY <1>1, <3>3
        <4>2. PICK p \in 0..(size - 1) : p = i - done - 1 /\ p < Len(data) - done
          BY <2>2, <4>1
        <4>3. Index(wcount + i - 1) = p
          BY <2>2, <3>1, <4>1, <4>2
        <4>4. p + 1 \in 1..(Len(data) - done) /\ done + (p + 1) = i
          BY <1>1, <4>1, <4>2
        <4>5. rest[p + 1] = data[i]
          BY <1>2, <4>4
        <4> QED
          BY <1>3, <4>2, <4>3, <4>5
      <3> QED
        BY <1>1, <3>2, <3>3
    <2> QED
      BY <1>3, <2>3, <2>4 DEF DataKept
  <1>6. size = 0 \/ size > 0
    BY <1>1
  <1> QED
    BY <1>4, <1>5, <1>6

-----------------------------------------------------------------------------
(* The constructor. *)

(* A bounded set of numbers has a greatest one. *)
LEMMA GreatestNumber ==
    ASSUME NEW b \in Nat, NEW S \in SUBSET Int, S # {}, \A x \in S : x <= b
    PROVE  \E m \in S : \A x \in S : m >= x
  <1> DEFINE R == {p \in Nat \X Nat : p[1] < p[2]}
             T == {b - x : x \in S}
  <1>1. IsWellFoundedOn(R, Nat)
    BY NatLessThanWellFounded DEF OpToRel
  <1>2. T \in SUBSET Nat /\ T # {}
    <2>1. \A x \in S : b - x \in Nat
      OBVIOUS
    <2>2. PICK x \in S : TRUE
      OBVIOUS
    <2> QED
      BY <2>1, <2>2
  <1>3. PICK t \in T : \A k \in T : ~(<<k, t>> \in R)
    <2> HIDE DEF R, T
    <2> QED
      BY <1>1, <1>2, WFMin
  <1>4. PICK m \in S : t = b - m
    OBVIOUS
  <1>5. ASSUME NEW x \in S PROVE m >= x
    <2>1. b - x \in T /\ <<b - x, t>> \in Nat \X Nat
      BY <1>2
    <2>2. ~(b - x < t)
      BY <1>3, <2>1
    <2> QED
      BY <1>4, <2>2
  <1> QED
    BY <1>5

LEMMA RoundsBelowZero ==
    ASSUME NEW n \in Nat, n # 0
    PROVE  RoundupPowerOf2(n) \in Int /\ RoundupPowerOf2(n) < 0
  <1> DEFINE S == {2^k : k \in {j \in 0..15 : 2^j <= n}}
  <1>1. \A k \in 0..15 : 2^k \in Int
    OBVIOUS
  <1>2. 2^0 = 1
    OBVIOUS
  <1>3. 1 \in S
    <2>1. 0 \in {j \in 0..15 : 2^j <= n}
      BY <1>2
    <2> QED
      BY <1>2, <2>1
  <1>4. S \in SUBSET Int /\ \A x \in S : x <= n
    BY <1>1
  <1> HIDE DEF S
  <1>5. \E m \in S : \A x \in S : m >= x
    BY <1>3, <1>4, GreatestNumber
  <1>6. Max(S) \in S /\ Max(S) >= 1
    BY <1>3, <1>5 DEF Max
  <1>7. RoundupPowerOf2(n) = -2 * Max(S)
    BY DEF RoundupPowerOf2, S
  <1>8. PICK m \in Int : m = Max(S) /\ m >= 1
    BY <1>4, <1>6
  <1>9. RoundupPowerOf2(n) = -2 * m
    BY <1>7, <1>8
  <1> QED
    BY <1>8, <1>9

LEMMA SizeForFacts ==
    ASSUME NEW n \in Requested
    PROVE  /\ SizeFor(n) \in Int
           /\ SizeFor(n) >= 0 => SizeFor(n) = n /\ (n > 0 => Word % n = 0)
  <1>1. n \in Nat /\ n <= Word \div 4
    BY RequestedAssumption, WordFacts
  <1>2. CASE n = 0
    BY <1>2 DEF SizeFor
  <1>3. CASE \E k \in 0..30 : n = 2^k
    <2>1. PICK k \in 0..30 : n = 2^k
      BY <1>3
    <2>2. Word % (2^k) = 0
      BY <1>1, <2>1, WordAssumption
    <2>3. SizeFor(n) = n
      BY <1>3 DEF SizeFor
    <2> QED
      BY <1>1, <2>1, <2>2, <2>3
  <1>4. CASE n # 0 /\ ~\E k \in 0..30 : n = 2^k
    <2>1. SizeFor(n) = RoundupPowerOf2(n)
      BY <1>4 DEF SizeFor
    <2> QED
      BY <1>1, <1>4, <2>1, RoundsBelowZero
  <1> QED
    BY <1>2, <1>3, <1>4

LEMMA InitRing == Init => RingInv
  <1> SUFFICES ASSUME Init PROVE RingInv
    OBVIOUS
  <1>1. requested \in Requested /\ size \in Int
        /\ (size >= 0 => size = requested /\ (size > 0 => Word % size = 0))
    BY SizeForFacts DEF Init
  <1>2. wcount = 0 /\ rcount = 0 /\ 0 \in Counters
    BY WordFacts DEF Init, Counters, Half
  <1>3. DataSize = 0
    <2>1. 0 \in Int /\ -(3 * Half) <= 0 /\ 0 < 3 * Half /\ -Half <= 0 /\ 0 < Half
      BY WordFacts
    <2>2. Wrap(0) = 0
      BY <2>1, WrapNear
    <2>3. wcount - rcount = 0
      BY <1>2
    <2> QED
      BY <2>2, <2>3 DEF DataSize
  <1>4. prod = ProdIdle /\ cons = ConsIdle /\ raced = FALSE /\ buff \in [0..(size - 1) -> Bytes]
    BY DEF Init
  <1>5. TypeOK
    <2>1. prod \in [pc : ProdPoints, room : (0..size) \cup {0}, data : Seq(Bytes)]
      BY <1>4 DEF ProdIdle, ProdPoints
    <2>2. cons \in [pc : ConsPoints, call : ConsCalls, len : Nat, out : Seq(Bytes)]
      BY <1>4 DEF ConsIdle, ConsPoints, ConsCalls
    <2>3. Len(cons.out) <= cons.len
      BY <1>4 DEF ConsIdle
    <2> QED
      BY <1>1, <1>2, <1>4, <2>1, <2>2, <2>3 DEF TypeOK
  <1>6. SizeAsked /\ DataFits
    BY <1>1, <1>2, <1>3, <1>4 DEF SizeAsked, DataFits, Created
  <1>7. RoomStays /\ WrittenSoFar
    BY <1>4 DEF RoomStays, WrittenSoFar, ProdIdle
  <1>8. DataStays /\ ViewInRing
    BY <1>3, <1>4 DEF DataStays, ViewInRing, Overlong, ConsIdle
  <1>9. CopiedSoFar
    <2>1. cons.out = <<>> /\ 1..Len(cons.out) = {} /\ cons.pc = "idle"
      BY <1>4 DEF ConsIdle
    <2> QED
      BY <2>1 DEF CopiedSoFar
  <1> QED
    BY <1>5, <1>6, <1>7, <1>8, <1>9 DEF RingInv

-----------------------------------------------------------------------------
(* Steps.  Nothing happens to a buffer that was not built. *)

LEMMA OnlyCreated ==
    ASSUME RingInv, Next
    PROVE  Created
  <1> SUFFICES ASSUME ~Created PROVE FALSE
    OBVIOUS
  <1>1. prod.pc = "idle" /\ cons.pc = "idle"
    BY DEF RingInv, SizeAsked, ProdIdle, ConsIdle
  <1>2. ~ProducerNext
    BY <1>1 DEF ProducerNext, Write, Fill, WriteHead, WriteTail, WriteCommit,
                GetCanWriteBuff, MeasureRoom
  <1>3. ~ConsumerNext
    BY <1>1 DEF ConsumerNext, Read, TryReadBuff, ReadSize, CopyHead, CopyTail, ReadCommit,
                GetCanReadBuff, CompareTry, CompareView, MeasureView
  <1> QED
    BY <1>2, <1>3 DEF Next

LEMMA InvFacts ==
    ASSUME RingInv, Created
    PROVE  /\ Basics
           /\ prod \in [pc : ProdPoints, room : (0..size) \cup {0}, data : Seq(Bytes)]
           /\ prod.data \in Seq(Bytes) /\ Len(prod.data) \in Nat
           /\ prod.room \in Nat
           /\ cons \in [pc : ConsPoints, call : ConsCalls, len : Nat, out : Seq(Bytes)]
           /\ cons.out \in Seq(Bytes) /\ Len(cons.out) \in Nat /\ cons.len \in Nat
           /\ Len(cons.out) <= cons.len /\ cons.len <= DataSize /\ raced \in BOOLEAN
  <1>1. TypeOK /\ Basics /\ DataStays
    BY DEF RingInv, Basics
  <1>2. size \in Nat
    BY <1>1, RingFacts
  <1>3. /\ prod \in [pc : ProdPoints, room : (0..size) \cup {0}, data : Seq(Bytes)]
        /\ cons \in [pc : ConsPoints, call : ConsCalls, len : Nat, out : Seq(Bytes)]
        /\ Len(cons.out) <= cons.len /\ raced \in BOOLEAN
    BY <1>1 DEF TypeOK
  <1>4. cons.len <= DataSize
    BY <1>1 DEF DataStays
  <1>5. prod.data \in Seq(Bytes) /\ prod.room \in (0..size) \cup {0}
        /\ cons.out \in Seq(Bytes) /\ cons.len \in Nat
    BY <1>3
  <1> QED
    BY <1>1, <1>2, <1>3, <1>4, <1>5

(* What a step of the producer before its commit has to show. *)
LEMMA ProducerStep ==
    ASSUME RingInv, Created, UNCHANGED <<ring, wcount, rcount, cons, raced>>,
           buff' \in [0..(size - 1) -> Bytes], DataKept,
           prod' \in [pc : ProdPoints, room : (0..size) \cup {0}, data : Seq(Bytes)],
           RoomStays', WrittenSoFar'
    PROVE  RingInv'
  <1>1. requested' = requested /\ size' = size /\ wcount' = wcount /\ rcount' = rcount
        /\ cons' = cons /\ raced' = raced
    BY DEF ring
  <1>2. DataSize' = DataSize /\ Created
    BY <1>1 DEF DataSize
  <1>3. Basics /\ Len(cons.out) <= cons.len /\ cons.len <= DataSize
        /\ Len(cons.out) \in Nat /\ cons.len \in Nat
    BY InvFacts
  <1>4. DataSize \in Nat /\ size \in Nat
    BY <1>3, RingFacts
  <1>5. TypeOK'
    BY <1>1, <1>3 DEF TypeOK, Basics, Created
  <1>6. SizeAsked' /\ DataFits'
    BY <1>1, <1>2, <1>3 DEF SizeAsked, DataFits, Basics, Created
  <1>7. DataStays' /\ ViewInRing'
    BY <1>1, <1>2 DEF RingInv, DataStays, ViewInRing, Overlong, Index
  <1>8. CopiedSoFar'
    <2>1. ASSUME NEW i \in 1..Len(cons.out)
          PROVE  cons.out[i] = buff'[Index(rcount + i - 1)]
      <3>1. i \in 1..DataSize
        BY <1>3, <1>4
      <3> QED
        BY <3>1 DEF RingInv, CopiedSoFar, DataKept
    <2>2. cons.pc = "tail" => Len(cons.out) = UntilEnd(cons.len, rcount)
      BY DEF RingInv, CopiedSoFar
    <2>3. /\ cons.pc = "compare" => cons.out = <<>>
          /\ cons.pc \in {"commit", "copied"} => Len(cons.out) = cons.len
      BY DEF RingInv, CopiedSoFar
    <2> QED
      BY <1>1, <2>1, <2>2, <2>3 DEF CopiedSoFar, Index, UntilEnd
  <1> QED
    BY <1>5, <1>6, <1>7, <1>8 DEF RingInv

(* What a step of the consumer that leaves _rcount alone has to show. *)
LEMMA ConsumerStep ==
    ASSUME RingInv, Created, UNCHANGED <<ring, buff, wcount, rcount, prod>>,
           raced' \in BOOLEAN,
           cons' \in [pc : ConsPoints, call : ConsCalls, len : Nat, out : Seq(Bytes)],
           Len(cons'.out) <= cons'.len,
           DataStays', CopiedSoFar', ViewInRing'
    PROVE  RingInv'
  <1>1. requested' = requested /\ size' = size /\ wcount' = wcount /\ rcount' = rcount
        /\ prod' = prod /\ buff' = buff
    BY DEF ring
  <1>2. DataSize' = DataSize
    BY <1>1 DEF DataSize
  <1>3. TypeOK'
    BY <1>1 DEF TypeOK, Created, RingInv
  <1>4. SizeAsked' /\ DataFits'
    BY <1>1, <1>2 DEF SizeAsked, DataFits, RingInv, Created
  <1>5. RoomStays' /\ WrittenSoFar'
    BY <1>1, <1>2 DEF RoomStays, WrittenSoFar, RingInv, Index, UntilEnd
  <1> QED
    BY <1>3, <1>4, <1>5 DEF RingInv

LEMMA UnUsedIs ==
    ASSUME Basics, Created
    PROVE  GetUnUsed = size - DataSize
  <1>1. size \in Nat /\ size <= Word \div 4 /\ DataSize \in 0..size
    BY RingFacts
  <1>2. PICK x \in Int : x = size - DataSize /\ -(3 * Half) <= x /\ x < 3 * Half
                          /\ -Half <= x /\ x < Half
    BY <1>1, WordFacts
  <1>3. Wrap(x) = x
    BY <1>2, WrapNear
  <1> QED
    BY <1>2, <1>3 DEF GetUnUsed

LEMMA BuffStays ==
    ASSUME RingInv, Created, buff' = buff
    PROVE  buff' \in [0..(size - 1) -> Bytes] /\ DataKept
  BY InvFacts, RingFacts DEF DataKept

LEMMA WriteKeeps ==
    ASSUME RingInv, NEW data \in Payloads, Write(data)
    PROVE  RingInv'
  <1>1. Created /\ size' = size /\ wcount' = wcount /\ rcount' = rcount
    BY DEF Write, ring
  <1>2. DataSize' = DataSize
    BY <1>1 DEF DataSize
  <1>3. Basics /\ size \in Nat /\ DataSize \in 0..size /\ GetUnUsed = size - DataSize
    BY <1>1, InvFacts, RingFacts, UnUsedIs
  <1>4. data \in Seq(Bytes) /\ Len(data) \in Nat
    BY PayloadsAssumption
  <1>5. PICK n \in 0..Len(data) : n = Least(Len(data), GetUnUsed) /\ n + DataSize <= size
    <2>1. PICK g \in Nat : g = GetUnUsed /\ g = size - DataSize
      BY <1>3
    <2>2. PICK l \in Nat : l = Len(data)
      BY <1>4
    <2>3. Least(l, g) \in 0..l /\ Least(l, g) + DataSize <= size
      BY <1>3, <2>1, <2>2 DEF Least
    <2> QED
      BY <2>1, <2>2, <2>3
  <1>6. SubSeq(data, 1, n) \in Seq(Bytes) /\ Len(SubSeq(data, 1, n)) = n
    BY <1>4
  <1>7. prod' = [prod EXCEPT !.pc = "head", !.data = SubSeq(data, 1, n)]
    BY <1>5 DEF Write
  <1>8. /\ prod' \in [pc : ProdPoints, room : (0..size) \cup {0}, data : Seq(Bytes)]
        /\ prod'.pc = "head" /\ prod'.data = SubSeq(data, 1, n)
    BY <1>1, <1>6, <1>7, InvFacts DEF ProdPoints
  <1>9. RoomStays' /\ WrittenSoFar'
    BY <1>1, <1>2, <1>5, <1>6, <1>8 DEF RoomStays, WrittenSoFar
  <1>10. UNCHANGED <<ring, wcount, rcount, cons, raced>> /\ buff' = buff
    BY DEF Write
  <1> QED
    BY <1>1, <1>8, <1>9, <1>10, BuffStays, ProducerStep

LEMMA WriteHeadKeeps ==
    ASSUME RingInv, Created, WriteHead
    PROVE  RingInv' /\ DataKept
  <1>1. prod.pc = "head" /\ size' = size /\ wcount' = wcount /\ rcount' = rcount
    BY DEF WriteHead, ring
  <1>2. DataSize' = DataSize
    BY <1>1 DEF DataSize
  <1>3. /\ Basics /\ size \in Nat /\ wcount \in Int
        /\ prod.data \in Seq(Bytes) /\ Len(prod.data) \in Nat
    BY InvFacts, RingFacts
  <1>4. Len(prod.data) + DataSize <= size /\ DataSize \in 0..size
    BY <1>1, <1>3, RingFacts DEF RingInv, RoomStays
  <1>5. PICK u \in 0..Len(prod.data) :
            u = UntilEnd(Len(prod.data), wcount) /\ Index(wcount) + u <= size
    BY <1>3, UntilEndFacts
  <1>6. PICK head \in Seq(Bytes) :
            /\ head = SubSeq(prod.data, 1, u) /\ Len(head) = u
            /\ \A i \in 1..u : head[i] = prod.data[i]
    <2>1. PICK d \in Seq(Bytes) : d = prod.data
      BY <1>3
    <2>2. /\ SubSeq(d, 1, u) \in Seq(Bytes) /\ Len(SubSeq(d, 1, u)) = u
          /\ \A i \in 1..u : SubSeq(d, 1, u)[i] = d[i]
      BY <1>3, <1>5, <2>1
    <2> QED
      BY <2>1, <2>2
  <1>7. buff' = CopyIn(Index(wcount), head)
    BY <1>5, <1>6 DEF WriteHead
  <1>8. Len(head) + DataSize <= size /\ Index(wcount) + Len(head) <= size
    BY <1>3, <1>4, <1>5, <1>6
  <1>9. /\ DataKept /\ buff' \in [0..(size - 1) -> Bytes]
        /\ \A i \in 1..u : buff'[Index(wcount) + i - 1] = prod.data[i]
    BY <1>3, <1>6, <1>7, <1>8, HeadKeepsData
  <1>10. /\ prod' \in [pc : ProdPoints, room : (0..size) \cup {0}, data : Seq(Bytes)]
         /\ prod'.pc = "tail" /\ prod'.data = prod.data
    BY <1>1, InvFacts DEF WriteHead, ProdPoints
  <1>11. RoomStays'
    BY <1>1, <1>2, <1>4, <1>10 DEF RoomStays
  <1>12. WrittenSoFar'
    BY <1>1, <1>5, <1>9, <1>10 DEF WrittenSoFar, Index, UntilEnd
  <1>13. UNCHANGED <<ring, wcount, rcount, cons, raced>>
    BY DEF WriteHead
  <1> QED
    BY <1>9, <1>10, <1>11, <1>12, <1>13, ProducerStep

LEMMA WriteTailKeeps ==
    ASSUME RingInv, Created, WriteTail
    PROVE  RingInv' /\ DataKept
  <1>1. prod.pc = "tail" /\ size' = size /\ wcount' = wcount /\ rcount' = rcount
    BY DEF WriteTail, ring
  <1>2. DataSize' = DataSize
    BY <1>1 DEF DataSize
  <1>3. /\ Basics /\ size \in Nat /\ wcount \in Int
        /\ prod.data \in Seq(Bytes) /\ Len(prod.data) \in Nat
    BY InvFacts, RingFacts
  <1>4. Len(prod.data) + DataSize <= size /\ DataSize \in 0..size
    BY <1>1, <1>3, RingFacts DEF RingInv, RoomStays
  <1>5. PICK u \in 0..Len(prod.data) :
            /\ u = UntilEnd(Len(prod.data), wcount) /\ Index(wcount) + u <= size
            /\ u < Len(prod.data) => u = size - Index(wcount)
    BY <1>3, UntilEndFacts
  <1>6. \A i \in 1..u : buff[Index(wcount) + i - 1] = prod.data[i]
    BY <1>1, <1>5 DEF RingInv, WrittenSoFar
  <1>7. buff' = CopyIn(0, SubSeq(prod.data, u + 1, Len(prod.data)))
    BY <1>5 DEF WriteTail
  <1>8. /\ DataKept /\ buff' \in [0..(size - 1) -> Bytes]
        /\ \A i \in 1..Len(prod.data) : buff'[Index(wcount + i - 1)] = prod.data[i]
    BY <1>3, <1>4, <1>5, <1>6, <1>7, TailKeepsData
  <1>9. /\ prod' \in [pc : ProdPoints, room : (0..size) \cup {0}, data : Seq(Bytes)]
        /\ prod'.pc = "commit" /\ prod'.data = prod.data
    BY <1>1, InvFacts DEF WriteTail, ProdPoints
  <1>10. RoomStays'
    BY <1>1, <1>2, <1>4, <1>9 DEF RoomStays
  <1>11. WrittenSoFar'
    BY <1>1, <1>8, <1>9 DEF WrittenSoFar, Index
  <1>12. UNCHANGED <<ring, wcount, rcount, cons, raced>>
    BY DEF WriteTail
  <1> QED
    BY <1>8, <1>9, <1>10, <1>11, <1>12, ProducerStep

LEMMA GetCanWriteBuffKeeps ==
    ASSUME RingInv, GetCanWriteBuff
    PROVE  RingInv'
  <1>1. Created /\ size' = size /\ wcount' = wcount /\ rcount' = rcount
    BY DEF GetCanWriteBuff, ring
  <1>2. DataSize' = DataSize
    BY <1>1 DEF DataSize
  <1>3. Basics /\ size \in Nat /\ DataSize \in 0..size /\ GetUnUsed = size - DataSize
    BY <1>1, InvFacts, RingFacts, UnUsedIs
  <1>4. DataSize < size
    BY <1>3 DEF GetCanWriteBuff
  <1>5. /\ prod' \in [pc : ProdPoints, room : (0..size) \cup {0}, data : Seq(Bytes)]
        /\ prod'.pc = "room"
    BY <1>1, InvFacts DEF GetCanWriteBuff, ProdPoints
  <1>6. RoomStays' /\ WrittenSoFar'
    BY <1>1, <1>2, <1>4, <1>5 DEF RoomStays, WrittenSoFar
  <1>7. UNCHANGED <<ring, wcount, rcount, cons, raced>> /\ buff' = buff
    BY DEF GetCanWriteBuff
  <1> QED
    BY <1>1, <1>5, <1>6, <1>7, BuffStays, ProducerStep

LEMMA ContiguousRoomFacts ==
    ASSUME Basics, Created, DataSize < size
    PROVE  /\ ContiguousRoom \in 0..size
           /\ ContiguousRoom + DataSize <= size
           /\ Index(wcount) + ContiguousRoom <= size
  <1>1. size \in Nat /\ DataSize \in Nat /\ size > 0
    BY RingFacts
  <1>2. /\ Index(rcount) \in 0..(size - 1) /\ Index(wcount) \in 0..(size - 1)
        /\ Index(wcount) = Around(Index(rcount) + DataSize)
    BY <1>1, Positions
  <1>3. PICK r \in 0..(size - 1), w \in 0..(size - 1) : r = Index(rcount) /\ w = Index(wcount)
    BY <1>2
  <1>4. ContiguousRoom = IF w >= r THEN size - w ELSE r - w
    BY <1>3 DEF ContiguousRoom
  <1>5. w = IF r + DataSize < size THEN r + DataSize ELSE r + DataSize - size
    <2>1. w = Around(r + DataSize)
      BY <1>2, <1>3
    <2> QED
      BY <1>1, <2>1 DEF Around
  <1>6. /\ ContiguousRoom \in 0..size /\ ContiguousRoom + DataSize <= size
        /\ w + ContiguousRoom <= size
    BY <1>1, <1>4, <1>5
  <1> QED
    BY <1>3, <1>6

LEMMA MeasureRoomKeeps ==
    ASSUME RingInv, Created, MeasureRoom
    PROVE  RingInv'
  <1>1. prod.pc = "room" /\ size' = size /\ wcount' = wcount /\ rcount' = rcount
    BY DEF MeasureRoom, ring
  <1>2. DataSize' = DataSize /\ Index(wcount)' = Index(wcount)
    BY <1>1 DEF DataSize, Index
  <1>3. Basics /\ DataSize < size
    BY <1>1, InvFacts DEF RingInv, RoomStays
  <1>4. PICK n \in 0..size : /\ n = ContiguousRoom
                             /\ n + DataSize <= size /\ Index(wcount) + n <= size
    BY <1>3, ContiguousRoomFacts
  <1>5. /\ prod' \in [pc : ProdPoints, room : (0..size) \cup {0}, data : Seq(Bytes)]
        /\ prod'.pc = "fill" /\ prod'.room = n
    BY <1>1, <1>4, InvFacts DEF MeasureRoom, ProdPoints
  <1>6. RoomStays'
    BY <1>1, <1>2, <1>4, <1>5 DEF RoomStays
  <1>7. WrittenSoFar'
    BY <1>5 DEF WrittenSoFar
  <1>8. UNCHANGED <<ring, wcount, rcount, cons, raced>> /\ buff' = buff
    BY DEF MeasureRoom
  <1> QED
    BY <1>1, <1>5, <1>6, <1>7, <1>8, BuffStays, ProducerStep

LEMMA FillKeeps ==
    ASSUME RingInv, Created, NEW data \in Payloads, Fill(data)
    PROVE  RingInv' /\ DataKept
  <1>1. prod.pc = "fill" /\ size' = size /\ wcount' = wcount /\ rcount' = rcount
    BY DEF Fill, ring
  <1>2. DataSize' = DataSize
    BY <1>1 DEF DataSize
  <1>3. /\ Basics /\ size \in Nat /\ wcount \in Int /\ prod.room \in Nat /\ DataSize \in 0..size
        /\ data \in Seq(Bytes) /\ Len(data) \in Nat
    BY InvFacts, RingFacts, PayloadsAssumption
  <1>4. /\ Len(data) <= prod.room /\ prod.room + DataSize <= size
        /\ Index(wcount) + prod.room <= size
    BY <1>1 DEF RingInv, RoomStays, Fill
  <1>5. size > 0 => Index(wcount) \in 0..(size - 1)
    BY <1>3, IndexSteps
  <1>6. Index(wcount) \in Nat
    BY <1>3, <1>5 DEF Index
  <1>7. Len(data) + DataSize <= size /\ Index(wcount) + Len(data) <= size
    BY <1>3, <1>4, <1>6
  <1>8. buff' = CopyIn(Index(wcount), data)
    BY DEF Fill
  <1>9. /\ DataKept /\ buff' \in [0..(size - 1) -> Bytes]
        /\ \A i \in 1..Len(data) : buff'[Index(wcount) + i - 1] = data[i]
    BY <1>3, <1>7, <1>8, HeadKeepsData
  <1>10. /\ prod' \in [pc : ProdPoints, room : (0..size) \cup {0}, data : Seq(Bytes)]
         /\ prod'.pc = "commit" /\ prod'.data = data
    BY <1>1, <1>3, InvFacts DEF Fill, ProdPoints
  <1>11. RoomStays'
    BY <1>1, <1>2, <1>7, <1>10 DEF RoomStays
  <1>12. ASSUME NEW i \in 1..Len(data)
         PROVE  Index(wcount + i - 1) = Index(wcount) + i - 1
    <2>1. size > 0 /\ i \in 1..(size + 1)
      BY <1>3, <1>7
    <2>2. Index(wcount + i - 1) = Around(Index(wcount) + i - 1)
      BY <1>3, <2>1, IndexSteps
    <2>3. Index(wcount) + i - 1 < size
      BY <1>3, <1>6, <1>7
    <2> QED
      BY <2>2, <2>3 DEF Around
  <1>13. \A i \in 1..Len(data) : buff'[Index(wcount + i - 1)] = data[i]
    BY <1>9, <1>12
  <1>14. WrittenSoFar'
    BY <1>1, <1>10, <1>13 DEF WrittenSoFar, Index
  <1>15. UNCHANGED <<ring, wcount, rcount, cons, raced>>
    BY DEF Fill
  <1> QED
    BY <1>9, <1>10, <1>11, <1>14, <1>15, ProducerStep

(* The commit: the new bytes count as data. *)
LEMMA WriteCommitKeeps ==
    ASSUME RingInv, Created, WriteCommit
    PROVE  RingInv' /\ DataSize' = DataSize + Len(prod.data)
  <1>1. /\ prod.pc = "commit" /\ size' = size /\ requested' = requested /\ rcount' = rcount
        /\ buff' = buff /\ cons' = cons /\ prod' = ProdIdle
        /\ wcount' = Wrap(wcount + Len(prod.data))
        /\ raced' = (raced \/ (cons.pc = "measure" /\ prod.data # <<>>))
    BY DEF WriteCommit, ring
  <1>2. /\ Basics /\ size \in Nat /\ wcount \in Counters /\ rcount \in Counters
        /\ DataSize \in Nat /\ prod.data \in Seq(Bytes) /\ size <= Word \div 4
        /\ Len(cons.out) <= cons.len /\ cons.len <= DataSize /\ cons.len \in Nat
    BY InvFacts, RingFacts
  <1>3. PICK n \in Nat : n = Len(prod.data) /\ n + DataSize <= size
    BY <1>1, <1>2 DEF RingInv, RoomStays
  <1>4. wcount' \in Counters /\ DataSize' = DataSize + n
    <2>1. Wrap(wcount - rcount) >= 0 /\ Wrap(wcount - rcount) + n <= Word \div 4
      BY <1>2, <1>3, WordFacts DEF DataSize
    <2>2. Wrap(wcount + n) \in Counters /\ Wrap(Wrap(wcount + n) - rcount) = Wrap(wcount - rcount) + n
      BY <1>2, <2>1, AdvanceWriter
    <2> QED
      BY <1>1, <1>3, <2>2 DEF DataSize
  <1>5. TypeOK'
    <2>1. prod' \in [pc : ProdPoints, room : (0..size) \cup {0}, data : Seq(Bytes)]
      BY <1>1 DEF ProdIdle, ProdPoints
    <2> QED
      BY <1>1, <1>4, <2>1 DEF RingInv, TypeOK, Created
  <1>6. SizeAsked' /\ DataFits'
    BY <1>1, <1>2, <1>3, <1>4 DEF RingInv, SizeAsked, DataFits, Created
  <1>7. RoomStays' /\ WrittenSoFar'
    BY <1>1 DEF RoomStays, WrittenSoFar, ProdIdle
  <1>8. DataStays'
    <2>1. ASSUME cons.pc = "measure", ~raced'
          PROVE  Index(rcount) + DataSize' <= size /\ cons.call = "GetCanReadBuff"
      <3>1. ~raced /\ prod.data = <<>>
        BY <1>1, <2>1
      <3>2. n = 0
        BY <1>3, <3>1
      <3> QED
        BY <1>2, <1>4, <2>1, <3>1, <3>2 DEF RingInv, DataStays
    <2>2. cons.pc = "measure" => cons.call = "GetCanReadBuff"
      BY DEF RingInv, DataStays
    <2>3. cons.pc = "compare" /\ cons.call = "GetCanReadBuff" => DataSize > 0
      BY DEF RingInv, DataStays
    <2>4. Index(rcount)' = Index(rcount)
      BY <1>1 DEF Index
    <2> QED
      BY <1>1, <1>2, <1>4, <2>1, <2>2, <2>3, <2>4 DEF DataStays
  <1>9. ViewInRing' /\ CopiedSoFar'
    BY <1>1 DEF RingInv, ViewInRing, Overlong, CopiedSoFar, Index, UntilEnd
  <1> QED
    BY <1>3, <1>4, <1>5, <1>6, <1>7, <1>8, <1>9 DEF RingInv

(* The consumer.  The bytes it copies are the first ones of the data. *)

LEMMA ReadKeeps ==
    ASSUME RingInv, NEW len \in Lengths, Read(len)
    PROVE  RingInv'
  <1>1. Created /\ size' = size /\ wcount' = wcount /\ rcount' = rcount
    BY DEF Read, ring
  <1>2. DataSize' = DataSize
    BY <1>1 DEF DataSize
  <1>3. DataSize \in Nat /\ len \in Nat
    BY <1>1, InvFacts, RingFacts, LengthsAssumption
  <1>4. PICK n \in Nat : n = Least(len, DataSize) /\ n <= DataSize
    BY <1>3 DEF Least
  <1>5. cons' = [pc |-> "head", call |-> "Read", len |-> n, out |-> <<>>]
    BY <1>4 DEF Read
  <1>6. /\ cons' \in [pc : ConsPoints, call : ConsCalls, len : Nat, out : Seq(Bytes)]
        /\ Len(cons'.out) <= cons'.len /\ 1..Len(cons'.out) = {}
    BY <1>5 DEF ConsPoints, ConsCalls
  <1>7. DataStays' /\ CopiedSoFar' /\ ViewInRing'
    BY <1>2, <1>4, <1>5, <1>6 DEF DataStays, CopiedSoFar, ViewInRing, Overlong
  <1>8. UNCHANGED <<ring, buff, wcount, rcount, prod>> /\ raced' \in BOOLEAN
    BY <1>1, InvFacts DEF Read
  <1> QED
    BY <1>1, <1>6, <1>7, <1>8, ConsumerStep

LEMMA TryReadBuffKeeps ==
    ASSUME RingInv, NEW len \in Lengths, TryReadBuff(len)
    PROVE  RingInv'
  <1>1. Created /\ size' = size /\ wcount' = wcount /\ rcount' = rcount
    BY DEF TryReadBuff, ring
  <1>2. DataSize' = DataSize
    BY <1>1 DEF DataSize
  <1>3. DataSize \in Nat /\ len \in Nat /\ len <= DataSize
    BY <1>1, InvFacts, RingFacts, LengthsAssumption DEF TryReadBuff
  <1>4. cons' = [pc |-> "compare", call |-> "TryReadBuff", len |-> len, out |-> <<>>]
    BY DEF TryReadBuff
  <1>5. /\ cons' \in [pc : ConsPoints, call : ConsCalls, len : Nat, out : Seq(Bytes)]
        /\ Len(cons'.out) <= cons'.len /\ 1..Len(cons'.out) = {}
    BY <1>3, <1>4 DEF ConsPoints, ConsCalls
  <1>6. DataStays' /\ CopiedSoFar' /\ ViewInRing'
    BY <1>2, <1>3, <1>4, <1>5 DEF DataStays, CopiedSoFar, ViewInRing, Overlong
  <1>7. UNCHANGED <<ring, buff, wcount, rcount, prod>> /\ raced' \in BOOLEAN
    BY <1>1, InvFacts DEF TryReadBuff
  <1> QED
    BY <1>1, <1>5, <1>6, <1>7, ConsumerStep

(* Counters that differ have data between them. *)
LEMMA DifferMeansData ==
    ASSUME Basics, Created, rcount # wcount
    PROVE  DataSize > 0
  <1>1. /\ DataSize \in 0..size /\ size \in Nat /\ size <= Word \div 4
        /\ wcount \in Counters /\ rcount \in Counters
    BY RingFacts
  <1>2. wcount \in {rcount + DataSize, rcount + DataSize - Word}
    BY <1>1, Distance, WordFacts DEF DataSize
  <1>3. wcount - rcount \in Int /\ wcount - rcount > -Word /\ wcount \in Int /\ rcount \in Int
    BY <1>1, WordFacts DEF Counters, Half
  <1> QED
    BY <1>1, <1>2, <1>3, WordFacts

LEMMA GetCanReadBuffKeeps ==
    ASSUME RingInv, GetCanReadBuff
    PROVE  RingInv'
  <1>1. Created /\ size' = size /\ wcount' = wcount /\ rcount' = rcount /\ rcount # wcount
    BY DEF GetCanReadBuff, ring
  <1>2. DataSize' = DataSize
    BY <1>1 DEF DataSize
  <1>3. DataSize > 0 /\ DataSize \in Nat
    BY <1>1, InvFacts, RingFacts, DifferMeansData
  <1>4. cons' = [pc |-> "compare", call |-> "GetCanReadBuff", len |-> 0, out |-> <<>>]
    BY DEF GetCanReadBuff
  <1>5. /\ cons' \in [pc : ConsPoints, call : ConsCalls, len : Nat, out : Seq(Bytes)]
        /\ Len(cons'.out) <= cons'.len /\ 1..Len(cons'.out) = {}
    BY <1>4 DEF ConsPoints, ConsCalls
  <1>6. DataStays' /\ CopiedSoFar' /\ ViewInRing'
    BY <1>2, <1>3, <1>4, <1>5 DEF DataStays, CopiedSoFar, ViewInRing, Overlong
  <1>7. UNCHANGED <<ring, buff, wcount, rcount, prod>> /\ raced' \in BOOLEAN
    BY DEF GetCanReadBuff
  <1> QED
    BY <1>1, <1>5, <1>6, <1>7, ConsumerStep

(* memcpy out of the ring, before its end. *)
LEMMA CopyOutFacts ==
    ASSUME Basics, Created, NEW off \in Nat, NEW n \in Nat, off + n <= size
    PROVE  /\ CopyOut(off, n) \in Seq(Bytes) /\ Len(CopyOut(off, n)) = n
           /\ \A i \in 1..n : CopyOut(off, n)[i] = buff[off + i - 1]
  <1>1. size \in Nat /\ buff \in [0..(size - 1) -> Bytes]
    BY RingFacts
  <1>2. \A i \in 1..n : buff[off + i - 1] \in Bytes
    BY <1>1
  <1>3. CopyOut(off, n) \in [1..n -> Bytes]
    BY <1>2 DEF CopyOut
  <1>4. \A i \in 1..n : CopyOut(off, n)[i] = buff[off + i - 1]
    BY DEF CopyOut
  <1>5. CopyOut(off, n) \in Seq(Bytes) /\ DOMAIN CopyOut(off, n) = 1..n
    BY <1>3, SeqDef
  <1>6. Len(CopyOut(off, n)) = n
    BY <1>5, LenProperties
  <1> QED
    BY <1>4, <1>5, <1>6

(* Up to the end of the ring the bytes after _rcount lie side by side. *)
LEMMA BeforeEnd ==
    ASSUME Basics, Created, NEW n \in Nat, Index(rcount) + n <= size
    PROVE  \A i \in 1..n : Index(rcount + i - 1) = Index(rcount) + i - 1
  <1> SUFFICES ASSUME NEW i \in 1..n PROVE Index(rcount + i - 1) = Index(rcount) + i - 1
    OBVIOUS
  <1>1. size \in Nat /\ rcount \in Int
    BY RingFacts
  <1>2. size > 0
    <2>1. size = 0 => Index(rcount) = 0
      BY DEF Index
    <2> QED
      BY <1>1, <2>1
  <1>3. Index(rcount) \in 0..(size - 1) /\ i \in 1..(size + 1)
    <2>1. Index(rcount) \in 0..(size - 1)
      BY <1>1, <1>2, IndexSteps
    <2> QED
      BY <1>1, <2>1
  <1>4. Index(rcount + i - 1) = Around(Index(rcount) + i - 1)
    BY <1>1, <1>2, <1>3, IndexSteps
  <1>5. Index(rcount) + i - 1 < size
    BY <1>1, <1>3
  <1> QED
    BY <1>4, <1>5 DEF Around

LEMMA CopyHeadKeeps ==
    ASSUME RingInv, Created, CopyHead
    PROVE  RingInv'
  <1>1. cons.pc = "head" /\ size' = size /\ wcount' = wcount /\ rcount' = rcount /\ buff' = buff
    BY DEF CopyHead, ring
  <1>2. DataSize' = DataSize
    BY <1>1 DEF DataSize
  <1>3. Basics /\ size \in Nat /\ rcount \in Int /\ cons.len \in Nat /\ cons.len <= DataSize
    BY InvFacts, RingFacts
  <1>4. Index(rcount) \in Nat
    BY <1>3, IndexSteps DEF Index
  <1>5. PICK u \in 0..cons.len : u = UntilEnd(cons.len, rcount) /\ Index(rcount) + u <= size
    BY <1>3, UntilEndFacts
  <1>6. PICK out \in Seq(Bytes) :
            /\ out = CopyOut(Index(rcount), u) /\ Len(out) = u
            /\ \A i \in 1..u : out[i] = buff[Index(rcount) + i - 1]
    <2>1. u \in Nat
      BY <1>3, <1>5
    <2>2. /\ CopyOut(Index(rcount), u) \in Seq(Bytes) /\ Len(CopyOut(Index(rcount), u)) = u
          /\ \A i \in 1..u : CopyOut(Index(rcount), u)[i] = buff[Index(rcount) + i - 1]
      BY <1>3, <1>4, <1>5, <2>1, CopyOutFacts
    <2> QED
      BY <2>2
  <1>7. \A i \in 1..u : out[i] = buff[Index(rcount + i - 1)]
    BY <1>3, <1>5, <1>6, BeforeEnd
  <1>8. cons' = [cons EXCEPT !.pc = "tail", !.out = out]
    BY <1>5, <1>6 DEF CopyHead
  <1>9. /\ cons' \in [pc : ConsPoints, call : ConsCalls, len : Nat, out : Seq(Bytes)]
        /\ cons'.pc = "tail" /\ cons'.out = out /\ cons'.len = cons.len
    BY <1>6, <1>8, InvFacts DEF ConsPoints
  <1>10. Len(cons'.out) <= cons'.len
    BY <1>3, <1>5, <1>6, <1>9
  <1>11. CopiedSoFar'
    BY <1>1, <1>5, <1>6, <1>7, <1>9 DEF CopiedSoFar, Index, UntilEnd
  <1>12. DataStays' /\ ViewInRing'
    BY <1>2, <1>3, <1>9 DEF DataStays, ViewInRing, Overlong
  <1>13. UNCHANGED <<ring, buff, wcount, rcount, prod>> /\ raced' \in BOOLEAN
    BY InvFacts DEF CopyHead
  <1> QED
    BY <1>9, <1>10, <1>11, <1>12, <1>13, ConsumerStep

LEMMA CopyTailKeeps ==
    ASSUME RingInv, Created, CopyTail
    PROVE  RingInv'
  <1>1. cons.pc = "tail" /\ size' = size /\ wcount' = wcount /\ rcount' = rcount /\ buff' = buff
    BY DEF CopyTail, ring
  <1>2. DataSize' = DataSize
    BY <1>1 DEF DataSize
  <1>3. /\ Basics /\ size \in Nat /\ rcount \in Int /\ cons.len \in Nat /\ cons.len <= DataSize
        /\ DataSize \in 0..size /\ cons.out \in Seq(Bytes)
    BY InvFacts, RingFacts
  <1>4. PICK u \in 0..cons.len :
            /\ u = Len(cons.out) /\ Index(rcount) + u <= size
            /\ u < cons.len => u = size - Index(rcount)
    <2>1. Len(cons.out) = UntilEnd(cons.len, rcount)
      BY <1>1 DEF RingInv, CopiedSoFar
    <2> QED
      BY <1>3, <2>1, UntilEndFacts
  <1>5. PICK m \in Nat : m = cons.len - u /\ m <= size
    BY <1>3, <1>4
  <1>6. PICK rest \in Seq(Bytes) :
            /\ rest = CopyOut(0, m) /\ Len(rest) = m
            /\ \A i \in 1..m : rest[i] = buff[i - 1]
    <2>1. /\ CopyOut(0, m) \in Seq(Bytes) /\ Len(CopyOut(0, m)) = m
          /\ \A i \in 1..m : CopyOut(0, m)[i] = buff[0 + i - 1]
      <3>1. 0 \in Nat /\ 0 + m <= size
        BY <1>5
      <3> QED
        BY <1>3, <3>1, CopyOutFacts
    <2> QED
      BY <2>1
  <1>7. PICK out \in Seq(Bytes) :
            /\ out = cons.out \o rest /\ Len(out) = cons.len
            /\ \A i \in 1..cons.len : out[i] = IF i <= u THEN cons.out[i] ELSE rest[i - u]
    <2>1. /\ cons.out \o rest \in Seq(Bytes)
          /\ Len(cons.out \o rest) = Len(cons.out) + Len(rest)
          /\ \A i \in 1..(Len(cons.out) + Len(rest)) : (cons.out \o rest)[i] =
                IF i <= Len(cons.out) THEN cons.out[i] ELSE rest[i - Len(cons.out)]
      BY <1>3, ConcatProperties
    <2>2. Len(cons.out) + Len(rest) = cons.len /\ Len(cons.out) = u
      <3>1. u + m = cons.len
        BY <1>3, <1>4, <1>5
      <3> QED
        BY <1>4, <1>6, <3>1
    <2> QED
      BY <2>1, <2>2
  <1>8. ASSUME NEW i \in 1..cons.len
        PROVE  out[i] = buff[Index(rcount + i - 1)]
    <2>1. CASE i <= u
      <3>1. i \in 1..Len(cons.out)
        BY <1>3, <1>4, <2>1
      <3>2. cons.out[i] = buff[Index(rcount + i - 1)]
        BY <3>1 DEF RingInv, CopiedSoFar
      <3> QED
        BY <1>7, <2>1, <3>2
    <2>2. CASE i > u
      <3>1. u = size - Index(rcount) /\ size > 0
        BY <1>3, <1>4, <2>2
      <3>2. Index(rcount) \in 0..(size - 1) /\ i \in 1..(size + 1)
        <4>1. Index(rcount) \in 0..(size - 1)
          BY <1>3, <3>1, IndexSteps
        <4>2. i \in 1..(size + 1)
          BY <1>3
        <4> QED
          BY <4>1, <4>2
      <3>3. Index(rcount + i - 1) = Around(Index(rcount) + i - 1)
        BY <1>3, <3>1, <3>2, IndexSteps
      <3>4. PICK r \in 0..(size - 1) : r = Index(rcount)
        BY <3>2
      <3>5. u = size - r
        BY <3>1, <3>4
      <3>6. Around(r + i - 1) = i - u - 1
        BY <1>3, <1>4, <2>2, <3>5 DEF Around
      <3>7. Index(rcount + i - 1) = i - u - 1
        BY <3>3, <3>4, <3>6
      <3>8. i - u \in 1..m /\ ~(i <= u)
        BY <1>3, <1>4, <1>5, <2>2, SMTT(30)
      <3>9. rest[i - u] = buff[i - u - 1]
        BY <1>6, <3>8
      <3> QED
        BY <1>7, <3>7, <3>8, <3>9
    <2> QED
      BY <1>3, <1>4, <2>1, <2>2
  <1>9. /\ cons' \in [pc : ConsPoints, call : ConsCalls, len : Nat, out : Seq(Bytes)]
        /\ cons'.pc \in {"commit", "copied"} /\ cons'.out = out /\ cons'.len = cons.len
    BY <1>4, <1>5, <1>6, <1>7, InvFacts DEF CopyTail, ConsPoints
  <1>10. Len(cons'.out) <= cons'.len
    BY <1>3, <1>7, <1>9
  <1>11. CopiedSoFar'
    BY <1>1, <1>7, <1>8, <1>9 DEF CopiedSoFar, Index
  <1>12. DataStays' /\ ViewInRing'
    BY <1>2, <1>3, <1>9 DEF DataStays, ViewInRing, Overlong
  <1>13. UNCHANGED <<ring, buff, wcount, rcount, prod>> /\ raced' \in BOOLEAN
    BY InvFacts DEF CopyTail
  <1> QED
    BY <1>9, <1>10, <1>11, <1>12, <1>13, ConsumerStep

(* What the comparison of the two indices says of where the data is. *)
LEMMA OnePieceFacts ==
    ASSUME Basics, Created
    PROVE  /\ InOnePiece => Index(rcount) + DataSize <= size
           /\ ~InOnePiece /\ DataSize > 0 => size - Index(rcount) \in 0..DataSize
           /\ Index(rcount) \in 0..size
  <1>1. size \in Nat /\ DataSize \in 0..size
    BY RingFacts
  <1>2. CASE size = 0
    BY <1>1, <1>2 DEF InOnePiece, Index
  <1>3. CASE size > 0
    <2>1. /\ Index(rcount) \in 0..(size - 1) /\ Index(wcount) \in 0..(size - 1)
          /\ Index(wcount) = Around(Index(rcount) + DataSize)
      BY <1>3, Positions
    <2>2. PICK r \in 0..(size - 1), w \in 0..(size - 1), d \in 0..size :
              r = Index(rcount) /\ w = Index(wcount) /\ d = DataSize
      BY <1>1, <2>1
    <2>3. w = Around(r + d)
      BY <2>1, <2>2
    <2>4. /\ w > r => r + d <= size
          /\ ~(w > r) /\ d > 0 => size - r \in 0..d
      BY <1>1, <2>3 DEF Around
    <2> QED
      BY <1>1, <2>2, <2>4 DEF InOnePiece
  <1> QED
    BY <1>1, <1>2, <1>3

(* An action that only moves the consumer on, or gives it another length. *)
LEMMA LengthStep ==
    ASSUME RingInv, Created, UNCHANGED <<ring, buff, wcount, rcount, prod>>,
           raced' \in BOOLEAN,
           NEW p \in ConsPoints \ {"tail", "compare", "commit", "copied"}, NEW n \in Nat,
           cons' = [cons EXCEPT !.pc = p, !.len = n], Len(cons.out) <= n,
           DataStays', ViewInRing'
    PROVE  RingInv'
  <1>1. size' = size /\ rcount' = rcount /\ buff' = buff
    BY DEF ring
  <1>2. /\ cons' \in [pc : ConsPoints, call : ConsCalls, len : Nat, out : Seq(Bytes)]
        /\ cons'.out = cons.out /\ cons'.len = n /\ cons'.pc = p
    BY InvFacts
  <1>3. CopiedSoFar'
    <2>1. \A i \in 1..Len(cons.out) : cons.out[i] = buff[Index(rcount + i - 1)]
      BY DEF RingInv, CopiedSoFar
    <2> QED
      BY <1>1, <1>2, <2>1 DEF CopiedSoFar, Index
  <1> QED
    BY <1>2, <1>3, ConsumerStep

LEMMA CompareTryKeeps ==
    ASSUME RingInv, Created, CompareTry
    PROVE  RingInv'
  <1>1. /\ cons.pc = "compare" /\ cons.call = "TryReadBuff"
        /\ size' = size /\ wcount' = wcount /\ rcount' = rcount
    BY DEF CompareTry, ring
  <1>2. DataSize' = DataSize /\ Index(rcount)' = Index(rcount)
    BY <1>1 DEF DataSize, Index
  <1>3. /\ Basics /\ size \in Nat /\ DataSize \in Nat
        /\ cons.len \in Nat /\ cons.len <= DataSize /\ Len(cons.out) <= cons.len
    BY InvFacts, RingFacts
  <1>4. PICK p \in {"view", "head"} : p = IF InOnePiece THEN "view" ELSE "head"
    OBVIOUS
  <1>5. cons' = [cons EXCEPT !.pc = p, !.len = cons.len]
    <2>1. cons' = [cons EXCEPT !.pc = p]
      BY <1>4 DEF CompareTry
    <2> QED
      BY <2>1, InvFacts
  <1>6. cons'.pc = p /\ cons'.len = cons.len /\ cons'.call = cons.call
    BY <1>5, InvFacts
  <1>7. DataStays'
    BY <1>2, <1>3, <1>4, <1>6 DEF DataStays
  <1>8. ViewInRing'
    <2>1. p = "view" => Index(rcount) + cons.len <= size
      <3>1. p = "view" => Index(rcount) + DataSize <= size
        BY <1>3, <1>4, OnePieceFacts
      <3>2. Index(rcount) \in 0..size
        BY <1>3, OnePieceFacts
      <3> QED
        BY <1>3, <3>1, <3>2
    <2>2. Index(rcount) \in 0..size
      BY <1>3, OnePieceFacts
    <2> QED
      BY <1>1, <1>2, <1>3, <1>6, <2>1, <2>2 DEF ViewInRing, Overlong
  <1>9. UNCHANGED <<ring, buff, wcount, rcount, prod>> /\ raced' \in BOOLEAN
    BY InvFacts DEF CompareTry
  <1>10. p \in ConsPoints \ {"tail", "compare", "commit", "copied"}
    BY <1>4 DEF ConsPoints
  <1> QED
    BY <1>3, <1>5, <1>7, <1>8, <1>9, <1>10, LengthStep

LEMMA CompareViewKeeps ==
    ASSUME RingInv, Created, CompareView
    PROVE  RingInv'
  <1>1. /\ cons.pc = "compare" /\ cons.call = "GetCanReadBuff"
        /\ size' = size /\ wcount' = wcount /\ rcount' = rcount
    BY DEF CompareView, ring
  <1>2. DataSize' = DataSize /\ Index(rcount)' = Index(rcount)
    BY <1>1 DEF DataSize, Index
  <1>3. /\ Basics /\ size \in Nat /\ DataSize \in Nat
        /\ cons.len \in Nat /\ cons.len <= DataSize /\ Len(cons.out) <= cons.len
    BY InvFacts, RingFacts
  <1>4. DataSize > 0 /\ Len(cons.out) = 0
    BY <1>1 DEF RingInv, DataStays, CopiedSoFar
  <1>5. Index(rcount) \in 0..size
    BY <1>3, OnePieceFacts
  <1>6. UNCHANGED <<ring, buff, wcount, rcount, prod>> /\ raced' \in BOOLEAN
    BY InvFacts DEF CompareView
  <1>7. CASE InOnePiece
    <2>1. cons' = [cons EXCEPT !.pc = "measure", !.len = cons.len]
      <3>1. cons' = [cons EXCEPT !.pc = "measure"]
        BY <1>7 DEF CompareView
      <3> QED
        BY <3>1, InvFacts
    <2>2. cons'.pc = "measure" /\ cons'.len = cons.len /\ cons'.call = "GetCanReadBuff"
      BY <1>1, <2>1, InvFacts
    <2>3. Index(rcount) + DataSize <= size
      BY <1>3, <1>7, OnePieceFacts
    <2>4. DataStays' /\ ViewInRing'
      BY <1>1, <1>2, <1>3, <2>2, <2>3 DEF DataStays, ViewInRing, Overlong
    <2>5. "measure" \in ConsPoints \ {"tail", "compare", "commit", "copied"}
      BY DEF ConsPoints
    <2> QED
      BY <1>3, <1>6, <2>1, <2>4, <2>5, LengthStep
  <1>8. CASE ~InOnePiece
    <2>1. PICK n \in Nat : n = size - Index(rcount) /\ n <= DataSize
      BY <1>3, <1>4, <1>8, OnePieceFacts
    <2>2. cons' = [cons EXCEPT !.pc = "view", !.len = n]
      BY <1>8, <2>1 DEF CompareView
    <2>3. cons'.pc = "view" /\ cons'.len = n /\ cons'.call = "GetCanReadBuff"
      BY <1>1, <2>2, InvFacts
    <2>4. Index(rcount) + n <= size /\ ~(Index(rcount) + n > size)
      BY <1>3, <1>5, <2>1
    <2>5. DataStays' /\ ViewInRing'
      BY <1>1, <1>2, <2>1, <2>3, <2>4 DEF DataStays, ViewInRing, Overlong
    <2>6. "view" \in ConsPoints \ {"tail", "compare", "commit", "copied"} /\ Len(cons.out) <= n
      BY <1>4, <2>1 DEF ConsPoints
    <2> QED
      BY <1>6, <2>2, <2>5, <2>6, LengthStep
  <1> QED
    BY <1>7, <1>8

LEMMA MeasureViewKeeps ==
    ASSUME RingInv, Created, MeasureView
    PROVE  RingInv'
  <1>1. /\ cons.pc = "measure" /\ size' = size /\ wcount' = wcount /\ rcount' = rcount
        /\ raced' = raced
    BY DEF MeasureView, ring
  <1>2. DataSize' = DataSize /\ Index(rcount)' = Index(rcount)
    BY <1>1 DEF DataSize, Index
  <1>3. /\ Basics /\ size \in Nat /\ DataSize \in Nat /\ Len(cons.out) \in Nat
        /\ cons.len \in Nat /\ cons.len <= DataSize /\ Len(cons.out) <= cons.len
    BY InvFacts, RingFacts
  <1>4. cons' = [cons EXCEPT !.pc = "view", !.len = DataSize]
    BY DEF MeasureView, ViewLength
  <1>5. cons'.pc = "view" /\ cons'.len = DataSize /\ cons'.call = cons.call
    BY <1>4, InvFacts
  <1>6. Index(rcount) \in 0..size
    BY <1>3, OnePieceFacts
  <1>7. cons.call = "GetCanReadBuff" /\ (~raced => Index(rcount) + DataSize <= size)
    BY <1>1 DEF RingInv, DataStays
  <1>8. ViewInRing'
    <2>1. Index(rcount) + DataSize > size => raced
      BY <1>3, <1>6, <1>7, InvFacts
    <2> QED
      BY <1>1, <1>2, <1>5, <1>7, <2>1 DEF ViewInRing, Overlong
  <1>9. DataStays'
    BY <1>1, <1>2, <1>3, <1>5 DEF DataStays
  <1>10. "view" \in ConsPoints \ {"tail", "compare", "commit", "copied"} /\ Len(cons.out) <= DataSize
    BY <1>3 DEF ConsPoints
  <1>11. UNCHANGED <<ring, buff, wcount, rcount, prod>> /\ raced' \in BOOLEAN
    BY InvFacts DEF MeasureView
  <1> QED
    BY <1>3, <1>4, <1>8, <1>9, <1>10, <1>11, LengthStep

(* Read(len)'s commit, and Read(size) after a view: room for the producer. *)
LEMMA ReaderAdvances ==
    ASSUME RingInv, Created, NEW n \in Nat, n <= DataSize,
           rcount' = Wrap(rcount + n), cons' = ConsIdle,
           UNCHANGED <<ring, buff, wcount, prod, raced>>
    PROVE  RingInv' /\ DataSize' = DataSize - n
  <1>1. /\ requested' = requested /\ size' = size /\ wcount' = wcount /\ buff' = buff
        /\ prod' = prod /\ raced' = raced
    BY DEF ring
  <1>2. /\ Basics /\ size \in Nat /\ wcount \in Counters /\ rcount \in Counters
        /\ DataSize \in Nat /\ DataSize \in 0..size /\ size <= Word \div 4
        /\ Len(prod.data) \in Nat /\ prod.room \in Nat
    BY InvFacts, RingFacts
  <1>3. rcount' \in Counters /\ DataSize' = DataSize - n
    <2>1. Wrap(wcount - rcount) \in 0..(Word \div 4) /\ n <= Wrap(wcount - rcount)
      BY <1>2, WordFacts DEF DataSize
    <2>2. Wrap(rcount + n) \in Counters /\ Wrap(wcount - Wrap(rcount + n)) = Wrap(wcount - rcount) - n
      BY <1>2, <2>1, AdvanceReader
    <2> QED
      BY <1>1, <2>2 DEF DataSize
  <1>4. PICK d \in Nat : d = DataSize' /\ d <= DataSize
    BY <1>2, <1>3
  <1>5. TypeOK'
    <2>1. /\ cons' \in [pc : ConsPoints, call : ConsCalls, len : Nat, out : Seq(Bytes)]
          /\ Len(cons'.out) <= cons'.len
      BY DEF ConsIdle, ConsPoints, ConsCalls
    <2> QED
      BY <1>1, <1>3, <2>1 DEF RingInv, TypeOK, Created
  <1>6. SizeAsked' /\ DataFits'
    BY <1>1, <1>2, <1>4 DEF RingInv, SizeAsked, DataFits, Created
  <1>7. RoomStays'
    <2>1. prod.pc \in {"head", "tail", "commit"} => Len(prod.data) + d <= size
      BY <1>2, <1>4 DEF RingInv, RoomStays
    <2>2. prod.pc = "room" => d < size
      BY <1>2, <1>4 DEF RingInv, RoomStays
    <2>3. prod.pc = "fill" => prod.room + d <= size /\ Index(wcount) + prod.room <= size
      BY <1>2, <1>4 DEF RingInv, RoomStays
    <2>4. Index(wcount)' = Index(wcount)
      BY <1>1 DEF Index
    <2> QED
      BY <1>1, <1>4, <2>1, <2>2, <2>3, <2>4 DEF RoomStays
  <1>8. WrittenSoFar'
    BY <1>1 DEF RingInv, WrittenSoFar, Index, UntilEnd
  <1>9. DataStays' /\ ViewInRing'
    BY <1>4 DEF DataStays, ViewInRing, Overlong, ConsIdle
  <1>10. CopiedSoFar'
    <2>1. cons'.out = <<>> /\ 1..Len(cons'.out) = {} /\ cons'.pc = "idle"
      BY DEF ConsIdle
    <2> QED
      BY <2>1 DEF CopiedSoFar
  <1> QED
    BY <1>3, <1>5, <1>6, <1>7, <1>8, <1>9, <1>10 DEF RingInv

LEMMA ReadCommitKeeps ==
    ASSUME RingInv, Created, ReadCommit
    PROVE  RingInv' /\ DataSize' = DataSize - cons.len
  BY InvFacts, ReaderAdvances DEF ReadCommit

LEMMA ReadSizeKeeps ==
    ASSUME RingInv, Created, NEW n \in Lengths, ReadSize(n)
    PROVE  RingInv' /\ DataSize' = DataSize - n
  <1>1. n \in Nat /\ n <= cons.len /\ cons.len \in Nat /\ cons.len <= DataSize /\ DataSize \in Nat
    BY InvFacts, RingFacts, LengthsAssumption DEF ReadSize
  <1>2. n <= DataSize
    BY <1>1
  <1> QED
    BY <1>1, <1>2, ReaderAdvances DEF ReadSize

-----------------------------------------------------------------------------
(* Put together: every step keeps the invariant. *)

LEMMA RingStutter ==
    ASSUME RingInv, UNCHANGED vars
    PROVE  RingInv'
  <1>1. /\ requested' = requested /\ size' = size /\ buff' = buff /\ wcount' = wcount
        /\ rcount' = rcount /\ prod' = prod /\ cons' = cons /\ raced' = raced
    BY DEF vars, ring
  <1>2. TypeOK' /\ SizeAsked' /\ DataFits'
    BY <1>1 DEF RingInv, TypeOK, SizeAsked, DataFits, DataSize, Created
  <1>3. RoomStays' /\ WrittenSoFar'
    BY <1>1 DEF RingInv, RoomStays, WrittenSoFar, DataSize, Index, UntilEnd
  <1>4. DataStays' /\ CopiedSoFar' /\ ViewInRing'
    BY <1>1 DEF RingInv, DataStays, CopiedSoFar, ViewInRing, Overlong, DataSize, Index, UntilEnd
  <1> QED
    BY <1>2, <1>3, <1>4 DEF RingInv

LEMMA RingStep == RingInv /\ [Next]_vars => RingInv'
  <1> SUFFICES ASSUME RingInv, [Next]_vars PROVE RingInv'
    OBVIOUS
  <1>1. CASE UNCHANGED vars
    BY <1>1, RingStutter
  <1>2. CASE ProducerNext
    <2>1. Created
      BY <1>2, OnlyCreated DEF Next
    <2> QED
      BY <1>2, <2>1, WriteKeeps, FillKeeps, WriteHeadKeeps, WriteTailKeeps, WriteCommitKeeps,
         GetCanWriteBuffKeeps, MeasureRoomKeeps DEF ProducerNext
  <1>3. CASE ConsumerNext
    <2>1. Created
      BY <1>3, OnlyCreated DEF Next
    <2> QED
      BY <1>3, <2>1, ReadKeeps, TryReadBuffKeeps, ReadSizeKeeps, CopyHeadKeeps, CopyTailKeeps,
         ReadCommitKeeps, GetCanReadBuffKeeps, CompareTryKeeps, CompareViewKeeps,
         MeasureViewKeeps DEF ConsumerNext
  <1> QED
    BY <1>1, <1>2, <1>3 DEF Next

LEMMA RingInvariant == Spec => []RingInv
  BY InitRing, RingStep, PTL DEF Spec

(* The ring's variables keep their types, on either side of the wrap of the counters. *)
THEOREM BufferTypeCorrect == Spec => []TypeOK
  BY RingInvariant, PTL DEF RingInv

(***************************************************************************)
(* What GetCanReadBuff and TryReadBuff lend lies in the ring, unless the   *)
(* producer committed between GetCanReadBuff's last two reads of _wcount.  *)
(***************************************************************************)
THEOREM LentInRing == Spec => []ViewInRing
  BY RingInvariant, PTL DEF RingInv

-----------------------------------------------------------------------------
(***************************************************************************)
(* The ring as the queue of BoundedQueue.  Held and Given are the values   *)
(* the refinement mapping gives to queue and given.                        *)
(***************************************************************************)
Held == [i \in 1..DataSize |-> buff[Index(rcount + i - 1)]]
Given == IF prod.pc = "commit" THEN prod.data ELSE <<>>

HeldOf(b, s, r, d) == [i \in 1..d |-> b[IF s = 0 THEN 0 ELSE (r + i - 1) % s]]

LEMMA HeldIs ==
    Held = HeldOf(buff, size, rcount, DataSize)
    /\ Held' = HeldOf(buff', size', rcount', DataSize')
  BY DEF Held, HeldOf, Index

LEMMA HeldOfFacts ==
    ASSUME NEW s \in Nat, NEW b \in [0..(s - 1) -> Bytes], NEW r \in Int, NEW d \in 0..s
    PROVE  /\ HeldOf(b, s, r, d) \in Seq(Bytes) /\ Len(HeldOf(b, s, r, d)) = d
           /\ \A i \in 1..d : HeldOf(b, s, r, d)[i] = b[(r + i - 1) % s] /\ s # 0
  <1>1. \A i \in 1..d : s # 0
    OBVIOUS
  <1>2. \A i \in 1..d : (r + i - 1) % s \in 0..(s - 1)
    OBVIOUS
  <1>3. \A i \in 1..d : HeldOf(b, s, r, d)[i] = b[(r + i - 1) % s]
    BY <1>1 DEF HeldOf
  <1>4. HeldOf(b, s, r, d) \in [1..d -> Bytes]
    BY <1>1, <1>2 DEF HeldOf
  <1>5. HeldOf(b, s, r, d) \in Seq(Bytes) /\ DOMAIN HeldOf(b, s, r, d) = 1..d
    BY <1>4, SeqDef
  <1>6. Len(HeldOf(b, s, r, d)) = d
    BY <1>5, LenProperties
  <1> QED
    BY <1>1, <1>3, <1>5, <1>6

(* What the consumer sees is the first part of the data. *)
ViewIsPrefix ==
    /\ View \in Seq(Bytes) /\ Len(View) <= DataSize
    /\ \A i \in 1..Len(View) : View[i] = buff[Index(rcount + i - 1)]

LEMMA ViewPrefix == RingInv /\ Created => ViewIsPrefix
  <1> SUFFICES ASSUME RingInv, Created PROVE ViewIsPrefix
    OBVIOUS
  <1>1. /\ Basics /\ size \in Nat /\ rcount \in Int /\ DataSize \in Nat /\ cons.len \in Nat
        /\ cons.len <= DataSize /\ cons.out \in Seq(Bytes) /\ Len(cons.out) <= cons.len
        /\ Len(cons.out) \in Nat
    BY InvFacts, RingFacts
  <1>2. CASE cons.pc = "view"
    <2>1. PICK u \in 0..cons.len : u = UntilEnd(cons.len, rcount) /\ Index(rcount) + u <= size
      BY <1>1, UntilEndFacts
    <2>2. u \in Nat /\ u <= DataSize /\ Index(rcount) \in Nat
      <3>1. Index(rcount) \in 0..size
        BY <1>1, OnePieceFacts
      <3> QED
        BY <1>1, <2>1, <3>1
    <2>3. /\ CopyOut(Index(rcount), u) \in Seq(Bytes) /\ Len(CopyOut(Index(rcount), u)) = u
          /\ \A i \in 1..u : CopyOut(Index(rcount), u)[i] = buff[Index(rcount) + i - 1]
      BY <1>1, <2>1, <2>2, CopyOutFacts
    <2>4. \A i \in 1..u : Index(rcount + i - 1) = Index(rcount) + i - 1
      BY <1>1, <2>1, <2>2, BeforeEnd
    <2>5. View = CopyOut(Index(rcount), u)
      BY <1>2, <2>1 DEF View
    <2> QED
      BY <2>2, <2>3, <2>4, <2>5 DEF ViewIsPrefix
  <1>3. CASE cons.pc # "view"
    <2>1. View = cons.out
      BY <1>3 DEF View
    <2>2. \A i \in 1..Len(cons.out) : cons.out[i] = buff[Index(rcount + i - 1)]
      BY DEF RingInv, CopiedSoFar
    <2>3. Len(cons.out) <= DataSize
      BY <1>1
    <2> QED
      BY <1>1, <2>1, <2>2, <2>3 DEF ViewIsPrefix
  <1> QED
    BY <1>2, <1>3

(* Nothing is left out of a slice that lies in the ring, or of a copy that is complete. *)
LEMMA ViewIsWhole ==
    ASSUME RingInv, Created, ~Overlong, cons.pc \in {"view", "commit", "copied"}
    PROVE  Len(View) = cons.len
  <1>1. CASE cons.pc = "view"
    <2>1. Basics /\ size \in Nat /\ cons.len \in Nat /\ rcount \in Int
      BY InvFacts, RingFacts
    <2>2. Index(rcount) \in 0..size
      BY <2>1, OnePieceFacts
    <2>3. Index(rcount) + cons.len <= size
      BY <1>1, <2>1, <2>2 DEF Overlong
    <2>4. UntilEnd(cons.len, rcount) = cons.len
      BY <2>1, <2>2, <2>3 DEF UntilEnd, Least
    <2>5. Index(rcount) \in Nat /\ Len(CopyOut(Index(rcount), cons.len)) = cons.len
      BY <2>1, <2>2, <2>3, CopyOutFacts
    <2> QED
      BY <1>1, <2>4, <2>5 DEF View
  <1>2. CASE cons.pc \in {"commit", "copied"}
    BY <1>2 DEF RingInv, CopiedSoFar, View
  <1> QED
    BY <1>1, <1>2

LEMMA ViewPrefixNext == (RingInv /\ Created => ViewIsPrefix)'
  BY ViewPrefix, PTL

LEMMA HeldFacts ==
    ASSUME RingInv, Created
    PROVE  /\ Held \in Seq(Bytes) /\ Len(Held) = DataSize
           /\ \A i \in 1..DataSize : Held[i] = buff[Index(rcount + i - 1)]
  <1>1. /\ size \in Nat /\ buff \in [0..(size - 1) -> Bytes] /\ rcount \in Int
        /\ DataSize \in 0..size
    BY InvFacts, RingFacts
  <1>2. Held \in Seq(Bytes) /\ Len(Held) = DataSize
    BY <1>1, HeldIs, HeldOfFacts
  <1> QED
    BY <1>2 DEF Held

(* Steps of the consumer that leave the data alone show it a prefix of it. *)
LEMMA ShowStep ==
    ASSUME RingInv, Created, RingInv', UNCHANGED <<ring, buff, wcount, rcount, prod>>
    PROVE  Queue!Show
  <1>1. /\ requested' = requested /\ size' = size /\ buff' = buff /\ wcount' = wcount
        /\ rcount' = rcount /\ prod' = prod
    BY DEF ring
  <1>2. DataSize' = DataSize /\ Created'
    BY <1>1 DEF DataSize, Created
  <1>3. Held' = Held /\ Given' = Given
    BY <1>1, <1>2, HeldIs DEF Given
  <1>4. ViewIsPrefix'
    BY <1>2, ViewPrefixNext
  <1>5. PICK v \in Seq(Bytes) : v = View'
    BY <1>4 DEF ViewIsPrefix
  <1>6. /\ Len(v) <= DataSize
        /\ \A i \in 1..Len(v) : v[i] = buff[Index(rcount + i - 1)]
    BY <1>1, <1>2, <1>4, <1>5 DEF ViewIsPrefix, Index
  <1>7. DataSize \in Nat
    BY InvFacts, RingFacts
  <1>8. /\ SubSeq(Held, 1, Len(v)) \in Seq(Bytes) /\ Len(SubSeq(Held, 1, Len(v))) = Len(v)
        /\ \A i \in 1..Len(v) : SubSeq(Held, 1, Len(v))[i] = Held[i]
    <2>1. PICK h \in Seq(Bytes) : h = Held /\ Len(h) = DataSize
      BY HeldFacts
    <2>2. Len(v) \in 0..Len(h)
      BY <1>6, <1>7, <2>1
    <2>3. /\ SubSeq(h, 1, Len(v)) \in Seq(Bytes) /\ Len(SubSeq(h, 1, Len(v))) = Len(v)
          /\ \A i \in 1..Len(v) : SubSeq(h, 1, Len(v))[i] = h[i]
      BY <2>2
    <2> QED
      BY <2>1, <2>3
  <1>9. \A i \in 1..Len(v) : Held[i] = buff[Index(rcount + i - 1)]
    BY <1>6, <1>7, HeldFacts
  <1>10. v = SubSeq(Held, 1, Len(v))
    BY <1>6, <1>8, <1>9, SeqEqual
  <1>11. Len(View') <= Len(Held) /\ View' = SubSeq(Held, 1, Len(View'))
    BY <1>5, <1>6, <1>10, HeldFacts
  <1>12. Overlong' \in BOOLEAN
    BY DEF Overlong
  <1> QED
    BY <1>1, <1>3, <1>11, <1>12 DEF Queue!Show, Held, Given

(* Steps of the producer before its commit leave the data and the view alone. *)
LEMMA DataKeptMaps ==
    ASSUME RingInv, Created, RingInv', DataKept, UNCHANGED <<ring, wcount, rcount, cons>>
    PROVE  Held' = Held /\ View' = View /\ Overlong' = Overlong
  <1>1. /\ requested' = requested /\ size' = size /\ wcount' = wcount
        /\ rcount' = rcount /\ cons' = cons
    BY DEF ring
  <1>2. DataSize' = DataSize /\ Created' /\ DataSize \in Nat
    BY <1>1, InvFacts, RingFacts DEF DataSize, Created
  <1>3. \A i \in 1..DataSize : buff'[Index(rcount + i - 1)] = buff[Index(rcount + i - 1)]
    BY DEF DataKept
  <1>4. Held' = Held
    BY <1>1, <1>2, <1>3 DEF Held, Index
  <1>5. ViewIsPrefix /\ ViewIsPrefix'
    BY <1>2, ViewPrefix, ViewPrefixNext
  <1>6. Len(View') = Len(View)
    <2>1. CASE cons.pc = "view"
      <3>1. PICK n \in Nat : n = UntilEnd(cons.len, rcount)
        <4>1. size \in Nat /\ cons.len \in Nat /\ rcount \in Int
          BY InvFacts, RingFacts
        <4>2. UntilEnd(cons.len, rcount) \in 0..cons.len
          BY <4>1, UntilEndFacts
        <4> QED
          BY <4>1, <4>2
      <3>2. UntilEnd(cons.len, rcount)' = n
        BY <1>1, <3>1 DEF UntilEnd, Index
      <3>3. DOMAIN View = 1..n /\ DOMAIN View' = 1..n
        BY <1>1, <2>1, <3>1, <3>2 DEF View, CopyOut
      <3> QED
        BY <1>5, <3>1, <3>3, LenProperties DEF ViewIsPrefix
    <2>2. CASE cons.pc # "view"
      BY <1>1, <2>2 DEF View
    <2> QED
      BY <2>1, <2>2
  <1>7. \A i \in 1..Len(View) : View'[i] = View[i]
    <2>1. ASSUME NEW i \in 1..Len(View)
          PROVE  View'[i] = View[i]
      <3>1. i \in 1..DataSize /\ i \in 1..Len(View')
        BY <1>2, <1>5, <1>6 DEF ViewIsPrefix
      <3>2. View'[i] = buff'[Index(rcount + i - 1)]
        BY <1>1, <1>5, <3>1 DEF ViewIsPrefix, Index
      <3>3. View[i] = buff[Index(rcount + i - 1)]
        BY <1>5 DEF ViewIsPrefix
      <3> QED
        BY <1>3, <3>1, <3>2, <3>3
    <2> QED
      BY <2>1
  <1>8. View' = View
    BY <1>5, <1>6, <1>7, SeqEqual DEF ViewIsPrefix
  <1>9. Overlong' = Overlong
    BY <1>1 DEF Overlong, Index
  <1> QED
    BY <1>4, <1>8, <1>9

(* The producer's steps: all but the last are invisible until the bytes are there. *)
LEMMA QuietStep ==
    ASSUME RingInv, Created, RingInv', DataKept, UNCHANGED <<ring, wcount, rcount, cons>>,
           Given' = Given
    PROVE  UNCHANGED Queue!vars
  <1>1. Held' = Held /\ View' = View /\ Overlong' = Overlong /\ requested' = requested
    BY DataKeptMaps DEF ring
  <1> QED
    BY <1>1 DEF Queue!vars, Held, Given

LEMMA GiveStep ==
    ASSUME RingInv, Created, RingInv', DataKept, UNCHANGED <<ring, wcount, rcount, cons>>,
           prod'.pc = "commit"
    PROVE  Queue!Give
  <1>1. Held' = Held /\ View' = View /\ Overlong' = Overlong /\ requested' = requested
        /\ size' = size /\ wcount' = wcount /\ rcount' = rcount
    BY DataKeptMaps DEF ring
  <1>2. DataSize' = DataSize /\ DataSize \in Nat /\ size = requested /\ Len(Held) = DataSize
    BY <1>1, InvFacts, RingFacts, HeldFacts DEF DataSize
  <1>3. prod' \in [pc : ProdPoints, room : (0..size) \cup {0}, data : Seq(Bytes)]
    BY <1>1 DEF RingInv, TypeOK
  <1>4. Given' = prod'.data /\ prod'.data \in Seq(Bytes) /\ Len(prod'.data) \in Nat
    BY <1>3 DEF Given
  <1>5. Len(prod'.data) + DataSize <= size
    BY <1>1, <1>2 DEF RingInv, RoomStays
  <1>6. Given' \in Seq(Bytes) /\ Len(Held) + Len(Given') <= requested
    BY <1>2, <1>4, <1>5
  <1> QED
    BY <1>1, <1>6 DEF Queue!Give, Held, Given

(* The commit appends what was written, and nothing else changes. *)
LEMMA PutStep ==
    ASSUME RingInv, Created, WriteCommit
    PROVE  Queue!Put
  <1>1. /\ prod.pc = "commit" /\ size' = size /\ requested' = requested /\ rcount' = rcount
        /\ buff' = buff /\ cons' = cons /\ prod' = ProdIdle
    BY DEF WriteCommit, ring
  <1>2. /\ Basics /\ size \in Nat /\ buff \in [0..(size - 1) -> Bytes] /\ DataSize \in 0..size
        /\ wcount \in Counters /\ rcount \in Counters /\ wcount \in Int /\ rcount \in Int
        /\ size <= Word \div 4 /\ prod.data \in Seq(Bytes) /\ (size > 0 => Word % size = 0)
    BY InvFacts, RingFacts
  <1>3. PICK n \in Nat, d \in Nat : n = Len(prod.data) /\ d = DataSize /\ d + n <= size
    BY <1>1, <1>2 DEF RingInv, RoomStays
  <1>4. DataSize' = d + n
    BY <1>3, WriteCommitKeeps
  <1>5. wcount \in {rcount + d, rcount + d - Word}
    BY <1>2, <1>3, Distance, WordFacts DEF DataSize
  <1>6. PICK h \in Seq(Bytes) :
            /\ h = Held' /\ Len(h) = d + n
            /\ \A i \in 1..(d + n) : h[i] = buff[(rcount + i - 1) % size]
    <2>1. Held' = HeldOf(buff, size, rcount, d + n) /\ d + n \in 0..size
      BY <1>1, <1>3, <1>4, HeldIs
    <2> QED
      BY <1>2, <2>1, HeldOfFacts, SMTT(30)
  <1>7. PICK q \in Seq(Bytes) :
            /\ q = Held /\ Len(q) = d
            /\ \A i \in 1..d : q[i] = buff[(rcount + i - 1) % size]
    <2>1. Held = HeldOf(buff, size, rcount, d) /\ d \in 0..size
      BY <1>2, <1>3, HeldIs
    <2> QED
      BY <1>2, <2>1, HeldOfFacts, SMTT(30)
  <1>8. /\ q \o prod.data \in Seq(Bytes) /\ Len(q \o prod.data) = d + n
        /\ \A i \in 1..(d + n) : (q \o prod.data)[i] = IF i <= d THEN q[i] ELSE prod.data[i - d]
    <2>1. PICK g \in Seq(Bytes) : g = prod.data
      BY <1>2
    <2>2. /\ q \o g \in Seq(Bytes) /\ Len(q \o g) = Len(q) + Len(g)
          /\ \A i \in 1..(Len(q) + Len(g)) : (q \o g)[i] =
                IF i <= Len(q) THEN q[i] ELSE g[i - Len(q)]
      BY ConcatProperties
    <2>3. Len(q) = d /\ Len(g) = n
      BY <1>3, <1>7, <2>1
    <2> QED
      BY <2>1, <2>2, <2>3
  <1>9. ASSUME NEW i \in 1..(d + n)
        PROVE  h[i] = (q \o prod.data)[i]
    <2>1. CASE i <= d
      <3>1. i \in 1..d
        BY <2>1
      <3>2. q[i] = h[i]
        BY <1>6, <1>7, <3>1
      <3> QED
        BY <1>8, <2>1, <3>2
    <2>2. CASE i > d
      <3>1. PICK j \in 1..n : j = i - d
        BY <2>2
      <3>2. size > 0 /\ Word % size = 0
        BY <1>2, <1>3, <3>1
      <3>3. PICK x \in Int : x = rcount + i - 1
        BY <1>2
      <3>4. wcount + j - 1 \in {x, x - Word}
        BY <1>2, <1>5, <3>1, <3>3, WordFacts
      <3>5. (wcount + j - 1) % size = x % size
        BY <1>2, <3>2, <3>4, ModShift
      <3>6. buff[Index(wcount + j - 1)] = prod.data[j]
        BY <1>1, <1>3, <3>1 DEF RingInv, WrittenSoFar
      <3>7. buff[(wcount + j - 1) % size] = prod.data[j]
        BY <3>2, <3>6 DEF Index
      <3>8. h[i] = prod.data[j]
        BY <1>6, <3>3, <3>5, <3>7
      <3> QED
        BY <1>8, <2>2, <3>1, <3>8
    <2>3. i <= d \/ i > d
      OBVIOUS
    <2> QED
      BY <2>1, <2>2, <2>3
  <1>10. h = q \o prod.data
    BY <1>6, <1>8, <1>9, SeqEqual
  <1>11. Held' = Held \o Given
    BY <1>1, <1>6, <1>7, <1>10 DEF Given
  <1>12. Given' = <<>>
    BY <1>1 DEF Given, ProdIdle
  <1>13. View' = View /\ Overlong' = Overlong
    BY <1>1 DEF View, CopyOut, UntilEnd, Index, Overlong
  <1> QED
    BY <1>1, <1>11, <1>12, <1>13 DEF Queue!Put, Held, Given

(* The consumer's commit drops the first n bytes of the data. *)
LEMMA TakeStep ==
    ASSUME RingInv, Created, NEW n \in Nat, n <= DataSize, Overlong \/ n <= Len(View),
           rcount' = Wrap(rcount + n), cons' = ConsIdle,
           UNCHANGED <<ring, buff, wcount, prod, raced>>
    PROVE  Queue!Take
  <1>1. /\ requested' = requested /\ size' = size /\ wcount' = wcount /\ buff' = buff
        /\ prod' = prod
    BY DEF ring
  <1>2. /\ Basics /\ size \in Nat /\ buff \in [0..(size - 1) -> Bytes] /\ DataSize \in 0..size
        /\ rcount \in Counters /\ rcount \in Int /\ size <= Word \div 4
        /\ (size > 0 => Word % size = 0)
    BY InvFacts, RingFacts
  <1>3. PICK d \in Nat, e \in Nat : d = DataSize /\ e = DataSize' /\ e = d - n /\ d <= size
    BY <1>2, ReaderAdvances
  <1>4. rcount' \in Int
    BY ReaderAdvances, WordFacts DEF RingInv, TypeOK, Counters, Half
  <1>5. PICK h \in Seq(Bytes) :
            /\ h = Held' /\ Len(h) = e
            /\ \A i \in 1..e : h[i] = buff[(rcount' + i - 1) % size]
    <2>1. e \in 0..size
      BY <1>2, <1>3
    <2>2. Held' = HeldOf(buff, size, rcount', e)
      BY <1>1, <1>3, HeldIs
    <2>3. PICK r \in Int : r = rcount'
      BY <1>4
    <2>4. /\ HeldOf(buff, size, r, e) \in Seq(Bytes) /\ Len(HeldOf(buff, size, r, e)) = e
          /\ \A i \in 1..e : HeldOf(buff, size, r, e)[i] = buff[(r + i - 1) % size] /\ size # 0
      BY <1>2, <2>1, HeldOfFacts, Zenon
    <2> QED
      BY <2>2, <2>3, <2>4
  <1>6. PICK q \in Seq(Bytes) :
            /\ q = Held /\ Len(q) = d
            /\ \A i \in 1..d : q[i] = buff[(rcount + i - 1) % size]
    <2>1. Held = HeldOf(buff, size, rcount, d) /\ d \in 0..size
      BY <1>2, <1>3, HeldIs
    <2>2. /\ HeldOf(buff, size, rcount, d) \in Seq(Bytes) /\ Len(HeldOf(buff, size, rcount, d)) = d
          /\ \A i \in 1..d : HeldOf(buff, size, rcount, d)[i] = buff[(rcount + i - 1) % size] /\ size # 0
      BY <1>2, <2>1, HeldOfFacts, Zenon
    <2> QED
      BY <2>1, <2>2
  <1>7. /\ SubSeq(q, n + 1, d) \in Seq(Bytes) /\ Len(SubSeq(q, n + 1, d)) = e
        /\ \A i \in 1..e : SubSeq(q, n + 1, d)[i] = q[n + i]
    <2>1. n + 1 \in 1..(d + 1) /\ Len(q) = d /\ e = d - n
      BY <1>3, <1>6
    <2>2. \A i \in (n + 1)..d : q[i] \in Bytes
      BY <2>1
    <2>3. /\ SubSeq(q, n + 1, d) \in Seq(Bytes)
          /\ Len(SubSeq(q, n + 1, d)) = IF n + 1 <= d THEN d - (n + 1) + 1 ELSE 0
          /\ \A i \in 1..(d - (n + 1) + 1) : SubSeq(q, n + 1, d)[i] = q[(n + 1) + i - 1]
      BY <2>2, SubSeqProperties
    <2>4. Len(SubSeq(q, n + 1, d)) = e
      BY <2>1, <2>3
    <2>5. \A i \in 1..e : i \in 1..(d - (n + 1) + 1) /\ (n + 1) + i - 1 = n + i
      BY <2>1
    <2> QED
      BY <2>3, <2>4, <2>5
  <1>8. ASSUME NEW i \in 1..e
        PROVE  h[i] = SubSeq(q, n + 1, d)[i]
    <2>1. size > 0 /\ Word % size = 0 /\ n + i \in 1..d
      BY <1>2, <1>3
    <2>2. PICK x \in Int : x = rcount + n /\ -(3 * Half) <= x /\ x < 3 * Half
      BY <1>2, <1>3, WordFacts DEF Counters, Half
    <2>3. (Wrap(x) + (i - 1)) % size = (x + (i - 1)) % size
      BY <1>2, <2>1, <2>2, WrapKeepsIndex
    <2>4. rcount' + i - 1 = Wrap(x) + (i - 1) /\ rcount + (n + i) - 1 = x + (i - 1)
      BY <1>2, <1>4, <2>2
    <2>5. h[i] = buff[(x + (i - 1)) % size]
      BY <1>5, <2>3, <2>4
    <2>6. q[n + i] = buff[(x + (i - 1)) % size]
      BY <1>6, <2>1, <2>4
    <2> QED
      BY <1>7, <2>5, <2>6
  <1>9. h = SubSeq(q, n + 1, d)
    BY <1>5, <1>7, <1>8, SeqEqual
  <1>10. Len(q) - Len(h) + 1 = n + 1 /\ Len(h) <= Len(q)
    BY <1>3, <1>5, <1>6
  <1>11. Len(Held') <= Len(Held) /\ Held' = SubSeq(Held, Len(Held) - Len(Held') + 1, Len(Held))
    BY <1>5, <1>6, <1>9, <1>10
  <1>12. View' = <<>> /\ Given' = Given /\ Overlong' = FALSE
    BY <1>1 DEF View, ConsIdle, Given, Overlong
  <1>13. Len(Held) - Len(Held') = n
    BY <1>3, <1>5, <1>6
  <1>14. Overlong \/ Len(Held) - Len(Held') <= Len(View)
    BY <1>13
  <1> QED
    BY <1>1, <1>11, <1>12, <1>14 DEF Queue!Take, Held, Given

LEMMA QueueStep == RingInv /\ [Next]_vars => [Queue!Next]_(Queue!vars)
  <1> SUFFICES ASSUME RingInv, [Next]_vars PROVE [Queue!Next]_(Queue!vars)
    OBVIOUS
  <1>i. RingInv'
    BY RingStep
  <1>1. CASE UNCHANGED vars
    BY <1>1 DEF vars, ring, Queue!vars, DataSize, Index, View, CopyOut, UntilEnd, Overlong
  <1>2. CASE ProducerNext
    <2>c. Created
      BY <1>2, OnlyCreated DEF Next
    <2>q. ASSUME DataKept, UNCHANGED <<ring, wcount, rcount, cons>>,
                 prod.pc # "commit", prod'.pc # "commit"
          PROVE  [Queue!Next]_(Queue!vars)
      BY <1>i, <2>c, <2>q, QuietStep DEF Given
    <2>g. ASSUME DataKept, UNCHANGED <<ring, wcount, rcount, cons>>, prod'.pc = "commit"
          PROVE  [Queue!Next]_(Queue!vars)
      BY <1>i, <2>c, <2>g, GiveStep DEF Queue!Next
    <2>t. prod \in [pc : ProdPoints, room : (0..size) \cup {0}, data : Seq(Bytes)]
      BY <2>c, InvFacts
    <2>1. CASE \E data \in Payloads : Write(data)
      BY <2>c, <2>t, <2>1, <2>q, BuffStays DEF Write
    <2>2. CASE \E data \in Payloads : Fill(data)
      <3>1. PICK data \in Payloads : Fill(data)
        BY <2>2
      <3>2. DataKept
        BY <2>c, <3>1, FillKeeps
      <3> QED
        BY <2>t, <3>1, <3>2, <2>g DEF Fill
    <2>3. CASE WriteHead
      BY <2>c, <2>t, <2>3, <2>q, WriteHeadKeeps DEF WriteHead
    <2>4. CASE WriteTail
      BY <2>c, <2>t, <2>4, <2>g, WriteTailKeeps DEF WriteTail
    <2>5. CASE WriteCommit
      BY <2>c, <2>5, PutStep DEF Queue!Next
    <2>6. CASE GetCanWriteBuff
      BY <2>c, <2>t, <2>6, <2>q, BuffStays DEF GetCanWriteBuff
    <2>7. CASE MeasureRoom
      BY <2>c, <2>t, <2>7, <2>q, BuffStays DEF MeasureRoom
    <2> QED
      BY <1>2, <2>1, <2>2, <2>3, <2>4, <2>5, <2>6, <2>7 DEF ProducerNext
  <1>3. CASE ConsumerNext
    <2>c. Created
      BY <1>3, OnlyCreated DEF Next
    <2>s. ASSUME UNCHANGED <<ring, buff, wcount, rcount, prod>>
          PROVE  [Queue!Next]_(Queue!vars)
      BY <1>i, <2>c, <2>s, ShowStep DEF Queue!Next
    <2>1. CASE ReadCommit
      <3>1. ~Overlong /\ Len(View) = cons.len /\ cons.len \in Nat /\ cons.len <= DataSize
        BY <2>c, <2>1, InvFacts, ViewIsWhole DEF ReadCommit, Overlong
      <3>2. Queue!Take
        BY <2>c, <2>1, <3>1, TakeStep DEF ReadCommit
      <3> QED
        BY <3>2 DEF Queue!Next
    <2>2. CASE \E n \in Lengths : ReadSize(n)
      <3>1. PICK n \in Lengths : ReadSize(n)
        BY <2>2
      <3>2. n \in Nat /\ n <= cons.len /\ cons.len \in Nat /\ cons.len <= DataSize /\ DataSize \in Nat
        BY <2>c, <3>1, InvFacts, RingFacts, LengthsAssumption DEF ReadSize
      <3>3. n <= DataSize
        BY <3>2
      <3>4. Overlong \/ n <= Len(View)
        BY <2>c, <3>1, <3>2, ViewIsWhole DEF ReadSize
      <3>5. Queue!Take
        BY <2>c, <3>1, <3>2, <3>3, <3>4, TakeStep DEF ReadSize
      <3> QED
        BY <3>5 DEF Queue!Next
    <2>3. CASE \E len \in Lengths : Read(len) \/ TryReadBuff(len)
      BY <2>3, <2>s DEF Read, TryReadBuff
    <2>4. CASE CopyHead \/ CopyTail \/ GetCanReadBuff \/ CompareTry \/ CompareView \/ MeasureView
      BY <2>4, <2>s DEF CopyHead, CopyTail, GetCanReadBuff, CompareTry, CompareView, MeasureView
    <2> QED
      BY <1>3, <2>1, <2>2, <2>3, <2>4 DEF ConsumerNext
  <1> QED
    BY <1>1, <1>2, <1>3 DEF Next

(***************************************************************************)
(* The lock-free ring is a FIFO queue of the capacity asked for, for every *)
(* size, every word the size divides, every payload and every request: no  *)
(* byte is lost, doubled, reordered or changed, and what the consumer      *)
(* copied or was lent is the front of the queue until it lets go of it.    *)
(***************************************************************************)
THEOREM RingIsQueue == Spec => RefinesQueue
  <1>1. Init => Queue!Init
    <2> SUFFICES ASSUME Init PROVE Queue!Init
      OBVIOUS
    <2>1. wcount = 0 /\ rcount = 0 /\ prod = ProdIdle /\ cons = ConsIdle
      BY DEF Init
    <2>2. requested \in Nat
      BY RequestedAssumption, WordFacts DEF Init
    <2>3. DataSize = 0
      <3>1. 0 \in Int /\ -(3 * Half) <= 0 /\ 0 < 3 * Half /\ -Half <= 0 /\ 0 < Half
        BY WordFacts
      <3>2. Wrap(0) = 0
        BY <3>1, WrapNear
      <3>3. wcount - rcount = 0
        BY <2>1
      <3> QED
        BY <3>2, <3>3 DEF DataSize
    <2>4. Held = <<>>
      BY <2>3 DEF Held
    <2>5. View = <<>> /\ Given = <<>> /\ Overlong = FALSE
      BY <2>1 DEF View, Given, ConsIdle, ProdIdle, Overlong
    <2> QED
      BY <2>2, <2>4, <2>5 DEF Queue!Init, Held, Given
  <1> QED
    BY <1>1, RingInvariant, QueueStep, PTL DEF Spec, RefinesQueue, Queue!Spec
=============================================================================
