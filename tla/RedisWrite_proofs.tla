-------------------------- MODULE RedisWrite_proofs -------------------------
(* Proofs about the write loop, for commands of any length and any number  *)
(* of interrupts.                                                          *)
EXTENDS RedisWrite, SequenceTheorems, TLAPS

USE CmdLenAssumption, MaxInterruptsAssumption

LEMMA InitWriteInv == Init => WriteInv
  BY DEF Init, WriteInv, TypeOK, MeetAtEnd, SentBefore, Retreat, InOrder

\* What a send appends to the wire: nwritten positions from obuf on.
LEMMA SentAppends ==
  ASSUME WriteInv, NEW n \in 1..(CmdLen + MaxInterrupts), Send(n)
  PROVE  /\ wire' \in Seq((1 - MaxInterrupts)..CmdLen)
         /\ Len(wire') = Len(wire) + n
         /\ \A i \in 1..Len(wire) : wire'[i] = wire[i]
         /\ \A i \in 1..n : wire'[Len(wire) + i] = obuf + i - 1
  <1> DEFINE chunk == [i \in 1..n |-> obuf + i - 1]
  <1>1. n \in Nat /\ wire \in Seq((1 - MaxInterrupts)..CmdLen)
        /\ obuf \in Int /\ len \in Int /\ n <= len
        /\ obuf >= 1 - MaxInterrupts /\ obuf + len = CmdLen + 1
    BY DEF WriteInv, TypeOK, MeetAtEnd, Send
  <1>2. \A i \in 1..n : chunk[i] \in (1 - MaxInterrupts)..CmdLen
    BY <1>1
  <1>3. chunk \in Seq((1 - MaxInterrupts)..CmdLen) /\ Len(chunk) = n
    BY <1>1, <1>2
  <1>4. wire' = wire \o chunk
    BY DEF Send
  <1> HIDE DEF chunk
  <1>5. \A i \in 1..n : chunk[i] = obuf + i - 1
    BY DEF chunk
  <1>6. wire' \in Seq((1 - MaxInterrupts)..CmdLen) /\ Len(wire') = Len(wire) + n
    BY <1>1, <1>3, <1>4, ConcatProperties
  <1>7. \A i \in 1..Len(wire) : wire'[i] = wire[i]
    BY <1>1, <1>3, <1>4
  <1>8. ASSUME NEW i \in 1..n PROVE wire'[Len(wire) + i] = obuf + i - 1
    <2>1. wire'[Len(wire) + i] = chunk[i]
      BY <1>1, <1>3, <1>4
    <2> QED
      BY <2>1, <1>5
  <1> QED
    BY <1>6, <1>7, <1>8

LEMMA StepWriteInv == WriteInv /\ [Next]_vars => WriteInv'
  <1> SUFFICES ASSUME WriteInv, [Next]_vars PROVE WriteInv'
    OBVIOUS
  <1>0. /\ TypeOK /\ MeetAtEnd /\ SentBefore /\ Retreat /\ InOrder
        /\ len \in Int /\ obuf \in Int /\ interrupts \in Nat /\ Len(wire) \in Nat
    BY DEF WriteInv, TypeOK
  <1> USE DEF WriteInv, TypeOK, MeetAtEnd, SentBefore, Retreat, InOrder
  <1>1. CASE Enter
    BY <1>1 DEF Enter
  <1>2. CASE Interrupted
    <2>1. len' = len + 1 /\ obuf' = obuf - 1 /\ interrupts' = interrupts + 1
      BY <1>2 DEF Interrupted, Advance
    <2>2. interrupts' \in 1..MaxInterrupts /\ obuf' >= 1 - interrupts'
      BY <1>2, <2>1 DEF Interrupted
    <2>3. UNCHANGED <<pc, err, wire>> /\ pc = "loop"
      BY <1>2 DEF Interrupted
    <2>4. TypeOK' /\ MeetAtEnd'
      BY <2>1, <2>2, <2>3
    <2>5. SentBefore'
      <3>1. wire' = wire
        BY <2>3
      <3> SUFFICES ASSUME NEW p \in 1..(obuf' - 1)
                   PROVE  \E i \in 1..Len(wire) : wire[i] = p
        BY <3>1 DEF SentBefore
      <3>2. p \in 1..(obuf - 1)
        BY <1>0, <2>1
      <3>3. SentBefore
        BY <1>0
      <3> HIDE DEF WriteInv, TypeOK
      <3> QED
        BY <3>2, <3>3 DEF SentBefore
    <2>6. InOrder' /\ Retreat' /\ pc' # "ok"
      BY <2>2, <2>3
    <2> HIDE DEF TypeOK, MeetAtEnd, SentBefore, Retreat, InOrder
    <2> QED
      BY <2>4, <2>5, <2>6
  <1>3. CASE SendFails
    BY <1>3 DEF SendFails
  <1>4. CASE Return
    BY <1>4 DEF Return, Finished
  <1>5. ASSUME NEW n \in 1..(CmdLen + MaxInterrupts), Send(n) PROVE WriteInv'
    <2>1. len' = len - n /\ obuf' = obuf + n /\ n <= len /\ pc = "loop"
          /\ UNCHANGED <<pc, err, interrupts>>
      BY <1>5 DEF Send, Advance
    <2>2. /\ wire' \in Seq((1 - MaxInterrupts)..CmdLen)
          /\ Len(wire') = Len(wire) + n
          /\ \A i \in 1..Len(wire) : wire'[i] = wire[i]
          /\ \A i \in 1..n : wire'[Len(wire) + i] = obuf + i - 1
      BY <1>5, SentAppends
    <2>3. Len(wire) \in Nat /\ obuf \in Int /\ n \in Nat
      OBVIOUS
    <2>4. TypeOK' /\ MeetAtEnd' /\ Retreat'
      BY <2>1, <2>2
    <2>5. SentBefore'
      <3> SUFFICES ASSUME NEW p \in 1..(obuf' - 1)
                   PROVE  \E i \in 1..Len(wire') : wire'[i] = p
        OBVIOUS
      <3>1. CASE p < obuf
        <4>1. PICK i \in 1..Len(wire) : wire[i] = p
          BY <2>3, <3>1
        <4> QED
          BY <2>2, <2>3, <4>1
      <3>2. CASE p >= obuf
        <4>1. p - obuf + 1 \in 1..n
          BY <2>1, <2>3, <3>2
        <4>2. Len(wire) + (p - obuf + 1) \in 1..Len(wire')
          BY <2>2, <2>3, <4>1
        <4>3. wire'[Len(wire) + (p - obuf + 1)] = obuf + (p - obuf + 1) - 1
          BY <2>2, <4>1
        <4>4. obuf + (p - obuf + 1) - 1 = p
          BY <1>0
        <4> QED
          BY <4>2, <4>3, <4>4
      <3> QED
        BY <2>3, <3>1, <3>2
    <2>6. InOrder'
      <3> SUFFICES ASSUME interrupts' = 0
                   PROVE  Len(wire') = obuf' - 1 /\ \A i \in 1..Len(wire') : wire'[i] = i
        BY DEF InOrder
      <3>1. Len(wire) = obuf - 1 /\ \A i \in 1..Len(wire) : wire[i] = i
        BY <2>1
      <3>2. ASSUME NEW i \in 1..Len(wire') PROVE wire'[i] = i
        <4>1. CASE i <= Len(wire)
          <5>1. i \in 1..Len(wire)
            BY <2>2, <2>3, <4>1
          <5> QED
            BY <2>2, <3>1, <5>1
        <4>2. CASE i > Len(wire)
          <5>1. i - Len(wire) \in 1..n
            BY <2>2, <2>3, <4>2
          <5>2. wire'[Len(wire) + (i - Len(wire))] = obuf + (i - Len(wire)) - 1
            BY <2>2, <5>1
          <5> QED
            BY <2>3, <3>1, <5>2
        <4> QED
          BY <2>3, <4>1, <4>2
      <3> QED
        BY <2>1, <2>2, <2>3, <3>1, <3>2
    <2> QED
      BY <2>1, <2>4, <2>5, <2>6
  <1>6. CASE UNCHANGED vars
    BY <1>6 DEF vars
  <1> QED
    BY <1>1, <1>2, <1>3, <1>4, <1>5, <1>6 DEF Next

LEMMA WriteInvariant == Spec => []WriteInv
  BY InitWriteInv, StepWriteInv, PTL DEF Spec

\* redisBufferWriteInner's state stays in its type: len never negative, obuf never
\* past the command's end.
THEOREM WriteTypeCorrect == Spec => []TypeOK
  <1>1. WriteInv => TypeOK
    BY DEF WriteInv
  <1> QED
    BY <1>1, WriteInvariant, PTL

\* A write that returned REDIS_OK has sent every byte of the command, whatever the
\* splits and interrupts of redisBufferWriteInner's loop.
THEOREM WriteSendsAll == Spec => []AllSent
  <1>1. ASSUME WriteInv PROVE AllSent
    <2>1. ASSUME pc = "ok" PROVE obuf = CmdLen + 1
      BY <1>1, <2>1 DEF WriteInv, TypeOK, MeetAtEnd
    <2>2. pc = "ok" => 1..(obuf - 1) = 1..CmdLen
      BY <2>1
    <2>3. SentBefore
      BY <1>1 DEF WriteInv
    <2> QED
      BY <2>2, <2>3 DEF SentBefore, AllSent
  <1> QED
    BY <1>1, WriteInvariant, PTL

\* An uninterrupted write sends a prefix of the command, the whole one on REDIS_OK.
THEOREM WritePrefix == Spec => []PrefixUnlessInterrupted
  <1>1. WriteInv => PrefixUnlessInterrupted
    BY DEF WriteInv, TypeOK, MeetAtEnd, InOrder, PrefixUnlessInterrupted
  <1> QED
    BY <1>1, WriteInvariant, PTL
=============================================================================
