--------------------------- MODULE CircularBuffer ---------------------------
(***************************************************************************)
(* The byte ring of the kernel's headers (CircularBuffer.h), used by one   *)
(* producer and one consumer on two threads without a lock.  Each read of  *)
(* the other side's counter, each memcpy and each update of a counter is a *)
(* step of its own.  The counters are s32 that wrap: Word stands for 2^32. *)
(*                                                                         *)
(* The machine is taken to keep one thread's loads in order and its stores *)
(* in order, as x86 does; the fences in the code ask for no more.          *)
(***************************************************************************)
EXTENDS Integers, Sequences, FiniteSetsExt

CONSTANTS
    Requested,  \* the sizes the constructor is called with
    Word,       \* 2^32
    Bytes,      \* the values of a byte
    Payloads,   \* what the producer writes in one call
    Lengths     \* how much the consumer asks for in one call

ASSUME WordAssumption ==
    /\ Word \in Nat /\ Word >= 4 /\ Word % 4 = 0
    /\ \A k \in 0..30 : 2^k <= Word \div 4 => Word % (2^k) = 0
ASSUME RequestedAssumption == Requested \subseteq 0 .. (Word \div 4)
ASSUME PayloadsAssumption == Payloads \subseteq Seq(Bytes)
ASSUME LengthsAssumption == Lengths \subseteq Nat

VARIABLES
    requested,  \* the constructor's argument
    size,       \* _size
    buff,       \* _buff
    wcount,     \* _wcount, written by the producer
    rcount,     \* _rcount, written by the consumer
    prod,       \* the producer: where it is, the room it saw, what it writes
    cons,       \* the consumer: where it is, in which call, how much, what it copied
    raced       \* wcount moved between GetCanReadBuff's last two reads of it

ring == <<requested, size>>
vars == <<ring, buff, wcount, rcount, prod, cons, raced>>

ProdIdle == [pc |-> "idle", room |-> 0, data |-> <<>>]
ConsIdle == [pc |-> "idle", call |-> "none", len |-> 0, out |-> <<>>]

ProdPoints == {"idle", "head", "tail", "commit", "room", "fill"}
ConsPoints == {"idle", "head", "tail", "commit", "compare", "measure", "view", "copied"}
ConsCalls  == {"none", "Read", "TryReadBuff", "GetCanReadBuff"}

Created == size >= 0      \* new char[_size] throws for a negative size

Least(x, y) == IF x <= y THEN x ELSE y

\* An s32 after an addition or a subtraction.
Wrap(x) == ((x + (Word \div 2)) % Word) - (Word \div 2)

Counters == -(Word \div 2) .. (Word \div 2) - 1

TypeOK ==
    /\ requested \in Requested /\ size \in Int
    /\ Created => buff \in [0 .. size - 1 -> Bytes]
    /\ wcount \in Counters /\ rcount \in Counters
    /\ prod \in [pc : ProdPoints, room : (0..size) \cup {0}, data : Seq(Bytes)]
    /\ cons \in [pc : ConsPoints, call : ConsCalls, len : Nat, out : Seq(Bytes)]
    /\ Len(cons.out) <= cons.len
    /\ raced \in BOOLEAN

-----------------------------------------------------------------------------
(* Mutants: plausible slips in the definitions below. *)

\* The ring is full one byte late.
OneMoreUnUsed == IF size = 0 THEN 0 ELSE Wrap(size - Wrap(wcount - rcount)) + 1

\* GetCanWriteBuff takes the room up to the reader wherever the reader is.
RoomToReader == (rcount % size) - (wcount % size)

\* A full ring counts as data in one piece.
FullIsOnePiece == size > 0 /\ (wcount % size) >= (rcount % size)

-----------------------------------------------------------------------------
(* The constructor. *)

\* temp starts as ~32767, which is -32768, and is shifted right until it has
\* a bit in common with num: -2^k for the largest such power not above num.
RoundupPowerOf2(num) == -2 * Max({2^k : k \in {j \in 0..15 : 2^j <= num}})

\* _size & (_size - 1) is 0 for 0 and the powers of two.
SizeFor(num) ==
    IF num = 0 \/ \E k \in 0..30 : num = 2^k THEN num ELSE RoundupPowerOf2(num)

Init ==
    /\ requested \in Requested
    /\ size = SizeFor(requested)
    /\ buff \in [0 .. size - 1 -> Bytes]
    /\ wcount = 0 /\ rcount = 0
    /\ prod = ProdIdle /\ cons = ConsIdle
    /\ raced = FALSE

-----------------------------------------------------------------------------
(* Both sides. *)

\* & _mask, also of a negative counter; a ring of size 0 has no index.
Index(count) == IF size = 0 THEN 0 ELSE count % size

DataSize == Wrap(wcount - rcount)
GetUnUsed == Wrap(size - DataSize)

\* memcpy of data into the ring, and of n bytes out of it.
CopyIn(off, data) ==
    [i \in DOMAIN buff |-> IF i \in off .. off + Len(data) - 1 THEN data[i - off + 1] ELSE buff[i]]
CopyOut(off, n) == [i \in 1..n |-> buff[off + i - 1]]

\* How much of n bytes from a counter lies before the end of the ring.
UntilEnd(n, count) == Least(n, size - Index(count))

-----------------------------------------------------------------------------
(* The producer: Write copies, GetCanWriteBuff lends the room instead. *)

Write(data) ==
    /\ Created /\ prod.pc = "idle"
    /\ prod' = [prod EXCEPT !.pc = "head",
                            !.data = SubSeq(data, 1, Least(Len(data), GetUnUsed))]
    /\ UNCHANGED <<ring, buff, wcount, rcount, cons, raced>>

WriteHead ==
    /\ prod.pc = "head"
    /\ buff' = CopyIn(Index(wcount), SubSeq(prod.data, 1, UntilEnd(Len(prod.data), wcount)))
    /\ prod' = [prod EXCEPT !.pc = "tail"]
    /\ UNCHANGED <<ring, wcount, rcount, cons, raced>>

WriteTail ==
    /\ prod.pc = "tail"
    /\ buff' = CopyIn(0, SubSeq(prod.data, UntilEnd(Len(prod.data), wcount) + 1, Len(prod.data)))
    /\ prod' = [prod EXCEPT !.pc = "commit"]
    /\ UNCHANGED <<ring, wcount, rcount, cons, raced>>

\* The end of Write, and WriteBuff after GetCanWriteBuff.
WriteCommit ==
    /\ prod.pc = "commit"
    /\ wcount' = Wrap(wcount + Len(prod.data))
    /\ prod' = ProdIdle
    /\ raced' = (raced \/ (cons.pc = "measure" /\ prod.data # <<>>))
    /\ UNCHANGED <<ring, buff, rcount, cons>>

\* GetCanWriteBuff finds room, or returns nullptr and changes nothing ...
GetCanWriteBuff ==
    /\ Created /\ prod.pc = "idle"
    /\ GetUnUsed # 0
    /\ prod' = [prod EXCEPT !.pc = "room"]
    /\ UNCHANGED <<ring, buff, wcount, rcount, cons, raced>>

\* ... and reads _rcount once more to see how much of it is in one piece.
ContiguousRoom ==
    LET realW == Index(wcount)
        realR == Index(rcount)
    IN  IF realW >= realR THEN size - realW ELSE realR - realW

MeasureRoom ==
    /\ prod.pc = "room"
    /\ prod' = [prod EXCEPT !.pc = "fill", !.room = ContiguousRoom]
    /\ UNCHANGED <<ring, buff, wcount, rcount, cons, raced>>

\* The caller fills a part of what it was lent.
Fill(data) ==
    /\ prod.pc = "fill"
    /\ Len(data) <= prod.room
    /\ buff' = CopyIn(Index(wcount), data)
    /\ prod' = [prod EXCEPT !.pc = "commit", !.data = data]
    /\ UNCHANGED <<ring, wcount, rcount, cons, raced>>

-----------------------------------------------------------------------------
(* The consumer: Read copies, GetCanReadBuff lends, TryReadBuff does either. *)

Read(len) ==
    /\ Created /\ cons.pc = "idle"
    /\ DataSize # 0
    /\ cons' = [pc |-> "head", call |-> "Read", len |-> Least(len, DataSize), out |-> <<>>]
    /\ UNCHANGED <<ring, buff, wcount, rcount, prod, raced>>

CopyHead ==
    /\ cons.pc = "head"
    /\ cons' = [cons EXCEPT !.pc = "tail",
                            !.out = CopyOut(Index(rcount), UntilEnd(cons.len, rcount))]
    /\ UNCHANGED <<ring, buff, wcount, rcount, prod, raced>>

CopyTail ==
    /\ cons.pc = "tail"
    /\ cons' = [cons EXCEPT !.pc = IF cons.call = "Read" THEN "commit" ELSE "copied",
                            !.out = @ \o CopyOut(0, cons.len - Len(@))]
    /\ UNCHANGED <<ring, buff, wcount, rcount, prod, raced>>

ReadCommit ==
    /\ cons.pc = "commit"
    /\ rcount' = Wrap(rcount + cons.len)
    /\ cons' = ConsIdle
    /\ UNCHANGED <<ring, buff, wcount, prod, raced>>

\* Enough data, or nullptr; then _wcount is read again.
TryReadBuff(len) ==
    /\ Created /\ cons.pc = "idle"
    /\ DataSize >= len
    /\ cons' = [pc |-> "compare", call |-> "TryReadBuff", len |-> len, out |-> <<>>]
    /\ UNCHANGED <<ring, buff, wcount, rcount, prod, raced>>

\* Some data, or nullptr; then _wcount is read again.
GetCanReadBuff ==
    /\ Created /\ cons.pc = "idle"
    /\ rcount # wcount
    /\ cons' = [pc |-> "compare", call |-> "GetCanReadBuff", len |-> 0, out |-> <<>>]
    /\ raced' = FALSE
    /\ UNCHANGED <<ring, buff, wcount, rcount, prod>>

\* Whether the data is in one piece, by this read of _wcount.
InOnePiece == Index(wcount) > Index(rcount)

CompareTry ==
    /\ cons.pc = "compare" /\ cons.call = "TryReadBuff"
    /\ cons' = [cons EXCEPT !.pc = IF InOnePiece THEN "view" ELSE "head"]
    /\ UNCHANGED <<ring, buff, wcount, rcount, prod, raced>>

CompareView ==
    /\ cons.pc = "compare" /\ cons.call = "GetCanReadBuff"
    /\ cons' = IF InOnePiece
               THEN [cons EXCEPT !.pc = "measure"]
               ELSE [cons EXCEPT !.pc = "view", !.len = size - Index(rcount)]
    /\ UNCHANGED <<ring, buff, wcount, rcount, prod, raced>>

\* len = _wcount - _rcount reads _wcount a third time.
ViewLength == DataSize

MeasureView ==
    /\ cons.pc = "measure"
    /\ cons' = [cons EXCEPT !.pc = "view", !.len = ViewLength]
    /\ UNCHANGED <<ring, buff, wcount, rcount, prod, raced>>

\* Read(size): the caller is done with the first n bytes of what it was given.
ReadSize(n) ==
    /\ cons.pc \in {"view", "copied"}
    /\ n <= cons.len
    /\ rcount' = Wrap(rcount + n)
    /\ cons' = ConsIdle
    /\ UNCHANGED <<ring, buff, wcount, prod, raced>>

-----------------------------------------------------------------------------
ProducerNext ==
    \/ \E data \in Payloads : Write(data) \/ Fill(data)
    \/ WriteHead \/ WriteTail \/ WriteCommit
    \/ GetCanWriteBuff \/ MeasureRoom

ConsumerNext ==
    \/ \E len \in Lengths : Read(len) \/ TryReadBuff(len) \/ ReadSize(len)
    \/ CopyHead \/ CopyTail \/ ReadCommit
    \/ GetCanReadBuff \/ CompareTry \/ CompareView \/ MeasureView

Next == ProducerNext \/ ConsumerNext

Spec == Init /\ [][Next]_vars

-----------------------------------------------------------------------------
(* What the consumer sees: its copy, or the bytes now under the slice it   *)
(* was lent, as far as the slice lies in the ring ...                      *)
View ==
    IF cons.pc = "view" THEN CopyOut(Index(rcount), UntilEnd(cons.len, rcount))
    ELSE cons.out

\* ... and whether the slice goes on behind the ring's last byte.
Overlong == cons.pc = "view" /\ Index(rcount) + cons.len > size

Queue == INSTANCE BoundedQueue WITH
    Items    <- Bytes,
    capacity <- requested,
    given    <- IF prod.pc = "commit" THEN prod.data ELSE <<>>,
    queue    <- [i \in 1..DataSize |-> buff[Index(rcount + i - 1)]],
    shown    <- View,
    overtold <- Overlong

(***************************************************************************)
(* The ring is a FIFO queue of the capacity asked for, across the wrap of  *)
(* the counters: what a call of the producer wrote comes out once, in      *)
(* order and unchanged, what the consumer was lent is not written over     *)
(* while it looks, and it is done with no byte it has not seen.  One path  *)
(* is left out: of a slice that GetCanReadBuff made too long, only the     *)
(* part in the ring is compared with the queue, and the caller may be done *)
(* with bytes it was not shown.  ViewInRing says when that can be.         *)
(***************************************************************************)
RefinesQueue == Queue!Spec

(***************************************************************************)
(* The slice GetCanReadBuff and TryReadBuff lend lies in the ring, unless  *)
(* the producer committed between GetCanReadBuff's comparison and its last *)
(* read of _wcount: then the length can reach past the end of the block.   *)
(***************************************************************************)
ViewInRing ==
    Overlong => cons.call = "GetCanReadBuff" /\ raced

-----------------------------------------------------------------------------
(***************************************************************************)
(* The inductive invariant.  The producer writes into room that stays free *)
(* and the consumer reads data that stays there, because each side's copy  *)
(* of the other's counter is only ever too careful.                        *)
(***************************************************************************)
SizeAsked ==
    /\ Created => size = requested /\ (size > 0 => Word % size = 0)
    /\ ~Created => prod = ProdIdle /\ cons = ConsIdle /\ wcount = rcount

DataFits == Created => DataSize \in 0..size

RoomStays ==
    /\ prod.pc \in {"head", "tail", "commit"} => Len(prod.data) + DataSize <= size
    /\ prod.pc = "room" => DataSize < size
    /\ prod.pc = "fill" => prod.room + DataSize <= size /\ Index(wcount) + prod.room <= size

\* The part of the call's bytes that is in the ring by now.
WrittenSoFar ==
    /\ prod.pc = "tail" =>
          \A i \in 1..UntilEnd(Len(prod.data), wcount) :
              buff[Index(wcount) + i - 1] = prod.data[i]
    /\ prod.pc = "commit" =>
          \A i \in 1..Len(prod.data) : buff[Index(wcount + i - 1)] = prod.data[i]

DataStays ==
    /\ cons.len <= DataSize
    /\ cons.pc = "compare" /\ cons.call = "GetCanReadBuff" => DataSize > 0
    /\ cons.pc = "measure" =>
          cons.call = "GetCanReadBuff" /\ (~raced => Index(rcount) + DataSize <= size)

CopiedSoFar ==
    /\ \A i \in 1..Len(cons.out) : cons.out[i] = buff[Index(rcount + i - 1)]
    /\ cons.pc = "tail" => Len(cons.out) = UntilEnd(cons.len, rcount)
    /\ cons.pc = "compare" => cons.out = <<>>
    /\ cons.pc \in {"commit", "copied"} => Len(cons.out) = cons.len

RingInv == TypeOK /\ SizeAsked /\ DataFits /\ RoomStays /\ WrittenSoFar
           /\ DataStays /\ CopiedSoFar /\ ViewInRing
=============================================================================
