----------------------------- MODULE RedisWrite -----------------------------
(***************************************************************************)
(* redisBufferWriteInner (RedisHelper.cpp): the loop that sends a committed*)
(* command.  The command's CmdLen bytes are positions 1..CmdLen of its     *)
(* buffer; the four bytes in front of them, at positions -3..0, hold the   *)
(* length the loop counts down.  send may take part of the bytes, fail, or *)
(* be interrupted by a signal; contexts are blocking.                      *)
(***************************************************************************)
EXTENDS Integers, Sequences

CONSTANTS
    CmdLen,         \* bytes of the command
    MaxInterrupts   \* bound: sends interrupted by a signal

ASSUME CmdLenAssumption == CmdLen \in Nat \ {0}
ASSUME MaxInterruptsAssumption == MaxInterrupts \in Nat

VARIABLES
    pc,         \* "entry", "loop", or what the function returned: "ok", "err"
    err,        \* ctx->err is set
    len,        \* the length in front of the buffer
    obuf,       \* the position ctx->obuf points to
    wire,       \* the positions whose bytes the socket took
    interrupts

vars == <<pc, err, len, obuf, wire, interrupts>>

TypeOK ==
    /\ pc \in {"entry", "loop", "ok", "err"} /\ err \in BOOLEAN
    /\ len \in 0..(CmdLen + MaxInterrupts)
    /\ obuf \in (1 - MaxInterrupts)..(CmdLen + 1)
    /\ wire \in Seq((1 - MaxInterrupts)..CmdLen)
    /\ interrupts \in 0..MaxInterrupts

-----------------------------------------------------------------------------
(* Mutants: plausible slips in the definitions below. *)

\* The length is not counted down, or the pointer is not moved on.
LenKept(nwritten)  == len' = len /\ obuf' = obuf + nwritten
ObufKept(nwritten) == len' = len - nwritten /\ obuf' = obuf

\* The loop stops one byte early.
StopsEarly(n) == n <= 1

-----------------------------------------------------------------------------
Init ==
    /\ pc = "entry" /\ err \in BOOLEAN
    /\ len = CmdLen /\ obuf = 1 /\ wire = <<>> /\ interrupts = 0

\* The end of an iteration: len and obuf move by what send returned, -1 included.
Advance(nwritten) == len' = len - nwritten /\ obuf' = obuf + nwritten

\* The loop's exit.
Finished(n) == n <= 0

\* A context that has seen an error sends nothing.
Enter ==
    /\ pc = "entry"
    /\ pc' = IF err THEN "err" ELSE "loop"
    /\ UNCHANGED <<err, len, obuf, wire, interrupts>>

Send(nwritten) ==
    /\ pc = "loop" /\ ~Finished(len) /\ nwritten <= len
    /\ wire' = wire \o [i \in 1..nwritten |-> obuf + i - 1]
    /\ Advance(nwritten)
    /\ UNCHANGED <<pc, err, interrupts>>

\* EINTR: the branch is empty, and the iteration goes on with nwritten = -1.
Interrupted ==
    /\ pc = "loop" /\ ~Finished(len) /\ interrupts < MaxInterrupts
    /\ interrupts' = interrupts + 1
    /\ Advance(-1)
    /\ UNCHANGED <<pc, err, wire>>

SendFails ==
    /\ pc = "loop" /\ ~Finished(len)
    /\ err' = TRUE /\ pc' = "err"
    /\ UNCHANGED <<len, obuf, wire, interrupts>>

Return ==
    /\ pc = "loop" /\ Finished(len)
    /\ pc' = "ok"
    /\ UNCHANGED <<err, len, obuf, wire, interrupts>>

Next ==
    \/ Enter \/ Interrupted \/ SendFails \/ Return
    \/ \E nwritten \in 1..(CmdLen + MaxInterrupts) : Send(nwritten)

Spec == Init /\ [][Next]_vars

-----------------------------------------------------------------------------
(***************************************************************************)
(* However send splits the command and however often it is interrupted:    *)
(* once redisBufferWriteInner returns REDIS_OK the socket took every byte. *)
(***************************************************************************)
AllSent == pc = "ok" => \A p \in 1..CmdLen : \E i \in 1..Len(wire) : wire[i] = p

(***************************************************************************)
(* Without an interrupt the socket took a prefix of the command, in order  *)
(* and no byte twice, and all of it if the function returned REDIS_OK.     *)
(***************************************************************************)
PrefixUnlessInterrupted ==
    interrupts = 0 =>
        /\ Len(wire) <= CmdLen /\ \A i \in 1..Len(wire) : wire[i] = i
        /\ pc = "ok" => Len(wire) = CmdLen

(***************************************************************************)
(* An interrupted send is tried again ("Try again later",                  *)
(* RedisHelper.cpp:135): the server is given the bytes of the command and  *)
(* no others.  The code sends the byte before obuf once more.              *)
(***************************************************************************)
WireIsCommand == pc = "ok" => wire = [i \in 1..CmdLen |-> i]

-----------------------------------------------------------------------------
(* The inductive invariant: len and obuf always meet at the command's end, *)
(* and every byte before obuf was sent.                                    *)
MeetAtEnd == obuf + len = CmdLen + 1
SentBefore == \A p \in 1..(obuf - 1) : \E i \in 1..Len(wire) : wire[i] = p
Retreat == obuf >= 1 - interrupts
InOrder == interrupts = 0 => Len(wire) = obuf - 1 /\ \A i \in 1..Len(wire) : wire[i] = i

WriteInv == TypeOK /\ MeetAtEnd /\ SentBefore /\ Retreat /\ InOrder /\ (pc = "ok" => len = 0)
=============================================================================
