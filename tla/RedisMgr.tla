------------------------------ MODULE RedisMgr ------------------------------
(***************************************************************************)
(* The Redis manager (logic/Core/RedisMgr): Initialize creates one context *)
(* for the main thread and ConnectNum for the worker threads; a synchronous*)
(* call on thread t uses the context GetRedisConnection(t), without a lock.*)
(* What the commands mean is in module RedisSyncCall, how their bytes are  *)
(* written is in module RedisWrite.                                        *)
(*                                                                         *)
(* hiredis and the server are external.  A context is a socket with a FIFO *)
(* of commands on their way to the server and a FIFO of replies on their   *)
(* way back.  hiredis never clears a context's error.                      *)
(***************************************************************************)
EXTENDS Integers, Sequences

CONSTANTS
    ThreadNum,     \* worker threads of the queue; thread 0 is the main thread
    ConnectNum,    \* "connectnum" of the configuration
    Servers,       \* what a server may demand: "open", "password" or "otherpassword"
    MaxCalls,      \* bound: calls per thread
    MaxOutages     \* bound: links that break, connects that fail, replies that are none

ASSUME ConnectNumAssumption == ConnectNum \in Nat \ {0}
ASSUME ThreadNumAssumption == ThreadNum \in Nat
ASSUME BoundsAssumption == MaxCalls \in Nat /\ MaxOutages \in Nat

MAIN_THREAD_IDX == 0
REDIS_OK == 0
REDIS_ERR == -1
REDIS_ERR_IO == 1

Threads  == MAIN_THREAD_IDX..ThreadNum
Contexts == 0..ConnectNum
\* A ticket names one call: the thread, and which of its calls it is.
Tickets  == Threads \X (1..MaxCalls)
NoTicket == <<MAIN_THREAD_IDX, 0>>

VARIABLES
    phase,     \* "starting": in Initialize; "running"; "refused": it returned false
    config,    \* passWord: one is configured; server: what the server demands
    created,   \* contexts in s_vecRedisContext
    logged,    \* what ERROR_LOG said
    err,       \* ctx->err
    link,      \* whether the context's socket is connected
    obuf,      \* ctx->obuf: whose command buffer the context points to
    toServer, fromServer,   \* per context, the two directions of the socket
    pc, call, resend, reply, ret,  \* per thread: the sync call it is in
    unsent,    \* per thread: the length in front of its command buffer is not 0
    attempts,  \* per thread: new contexts tried for this call
    outages

startVars == <<phase, config, created, logged>>
callVars  == <<pc, call, resend, reply, ret, unsent, attempts>>
ctxVars   == <<err, link, obuf, toServer, fromServer>>
vars      == <<startVars, callVars, ctxVars, outages>>

Configs == [passWord : BOOLEAN, server : Servers]

TypeOK ==
    /\ phase \in {"starting", "running", "refused"} /\ config \in Configs
    /\ created \in 0..(ConnectNum + 1)
    /\ logged \subseteq {"connect failed", "auth failed", "auth refused", "auth lost"}
    /\ err \in [Contexts -> BOOLEAN] /\ link \in [Contexts -> BOOLEAN]
    /\ obuf \in [Contexts -> Tickets \cup {NoTicket}]
    /\ toServer \in [Contexts -> Seq(Tickets)]
    /\ fromServer \in [Contexts -> Seq(Tickets)]
    /\ pc \in [Threads -> {"idle", "write", "read", "check", "reattempt"}]
    /\ call \in [Threads -> 0..MaxCalls]
    /\ resend \in [Threads -> BOOLEAN] /\ unsent \in [Threads -> BOOLEAN]
    /\ reply \in [Threads -> Tickets \cup {NoTicket}]
    /\ ret \in [Threads -> {REDIS_OK, REDIS_ERR}]
    /\ attempts \in [Threads -> Nat]
    /\ outages \in 0..MaxOutages

-----------------------------------------------------------------------------
(* Mutants: plausible slips in the definitions below. *)

\* GetRedisConnection without the case for the main thread.
NoMainContext(threadIdx) == (threadIdx % ConnectNum) + 1

\* Commit leaves the length in front of the buffer at 0.
ZeroLength == FALSE

\* Initialize's loop runs once too often.
OneTooMany(n) == n = ConnectNum + 2

\* redisGetReplyInner returns once bytes were read, complete reply or not.
ReadsOnce(t, c) ==
    /\ reply' = [reply EXCEPT ![t] = IF fromServer[c] = <<>> THEN @ ELSE Head(fromServer[c])]
    /\ fromServer' = [fromServer EXCEPT ![c] = IF @ = <<>> THEN @ ELSE Tail(@)]
    /\ ret' = [ret EXCEPT ![t] = REDIS_OK]
    /\ pc' = [pc EXCEPT ![t] = "check"]
    /\ UNCHANGED <<err, outages>>

-----------------------------------------------------------------------------
(* Initialize. *)

Init ==
    /\ phase = "starting" /\ config \in Configs /\ created = 0 /\ logged = {}
    /\ err = [c \in Contexts |-> FALSE] /\ link = [c \in Contexts |-> FALSE]
    /\ obuf = [c \in Contexts |-> NoTicket]
    /\ toServer = [c \in Contexts |-> <<>>] /\ fromServer = [c \in Contexts |-> <<>>]
    /\ pc = [t \in Threads |-> "idle"] /\ call = [t \in Threads |-> 0]
    /\ resend = [t \in Threads |-> FALSE] /\ unsent = [t \in Threads |-> FALSE]
    /\ reply = [t \in Threads |-> NoTicket] /\ ret = [t \in Threads |-> REDIS_OK]
    /\ attempts = [t \in Threads |-> 0]
    /\ outages = 0

\* The end of Initialize's loop over the contexts.
AllCreated(n) == n = ConnectNum + 1

\* The server's answer to AUTH with the configured password.
AuthReply == IF config.server = "password" THEN "ok" ELSE "error"

\* CreateRedisContext gives up after AUTH, on these answers.
AuthGivesUp(answer) == answer = "lost" \/ answer # "error"

\* What CreateRedisContext does, for a connect that worked or not and AUTH's answer:
\* the context or none, and the log lines ("auth refused" and "auth lost" note what
\* the server really answered).
CreateRedisContext(connected, answer) ==
    IF ~connected THEN [ctx |-> FALSE, log |-> {"connect failed"}]
    ELSE IF config.passWord /\ AuthGivesUp(answer)
    THEN [ctx |-> FALSE,
          log |-> {"auth failed"} \cup (CASE answer = "ok" -> {}
                                          [] answer = "error" -> {"auth refused"}
                                          [] answer = "lost" -> {"auth lost"})]
    ELSE [ctx |-> TRUE, log |-> {}]

\* One turn of Initialize's loop.
InitializeConnection ==
    /\ phase = "starting"
    /\ \E connected \in BOOLEAN, lost \in BOOLEAN :
         LET answer  == IF lost THEN "lost" ELSE AuthReply
             context == CreateRedisContext(connected, answer)
         IN  /\ lost => connected /\ config.passWord
             /\ ~connected \/ lost => outages < MaxOutages
             /\ outages' = IF ~connected \/ lost THEN outages + 1 ELSE outages
             /\ logged' = logged \cup context.log
             /\ IF context.ctx
                THEN /\ link' = [link EXCEPT ![created] = TRUE]
                     /\ created' = created + 1
                     /\ phase' = IF AllCreated(created') THEN "running" ELSE phase
                ELSE /\ phase' = "refused"
                     /\ UNCHANGED <<link, created>>
    /\ UNCHANGED <<config, callVars, err, obuf, toServer, fromServer>>

-----------------------------------------------------------------------------
(* The server and the network. *)

Serve(c) ==
    /\ link[c] /\ toServer[c] # <<>>
    /\ toServer' = [toServer EXCEPT ![c] = Tail(@)]
    /\ fromServer' = [fromServer EXCEPT ![c] = Append(@, Head(toServer[c]))]
    /\ UNCHANGED <<startVars, callVars, err, link, obuf, outages>>

\* What was on its way is lost; the context notices at its next send or read.  A peer
\* that falls silent and leaves the socket open is not modelled.
LinkLost(c) ==
    /\ phase = "running" /\ link[c] /\ outages < MaxOutages
    /\ outages' = outages + 1
    /\ link' = [link EXCEPT ![c] = FALSE]
    /\ toServer' = [toServer EXCEPT ![c] = <<>>]
    /\ fromServer' = [fromServer EXCEPT ![c] = <<>>]
    /\ UNCHANGED <<startVars, callVars, err, obuf>>

-----------------------------------------------------------------------------
(* A synchronous call. *)

GetRedisConnection(threadIdx) ==
    IF threadIdx = MAIN_THREAD_IDX THEN 0 ELSE (threadIdx % ConnectNum) + 1

\* Commit: the length in front of the command is that of the command, not 0.
Commit == TRUE

\* A sync call builds its command, and sendAndGetReply points the context at it.
ExecCmd(t, reSend) ==
    LET c == GetRedisConnection(t)
    IN  /\ phase = "running" /\ pc[t] = "idle" /\ call[t] < MaxCalls
        /\ call' = [call EXCEPT ![t] = @ + 1]
        /\ obuf' = [obuf EXCEPT ![c] = <<t, call[t] + 1>>]
        /\ resend' = [resend EXCEPT ![t] = reSend]
        /\ unsent' = [unsent EXCEPT ![t] = Commit]
        /\ reply' = [reply EXCEPT ![t] = NoTicket]
        /\ attempts' = [attempts EXCEPT ![t] = 0]
        /\ pc' = [pc EXCEPT ![t] = "write"]
        /\ UNCHANGED <<startVars, ret, err, link, toServer, fromServer, outages>>

Fail(t, c) ==
    /\ err' = [err EXCEPT ![c] = TRUE]
    /\ ret' = [ret EXCEPT ![t] = REDIS_ERR]
    /\ pc' = [pc EXCEPT ![t] = "check"]
    /\ UNCHANGED reply

\* redisBufferWriteInner sends what ctx->obuf points to, as far as the length
\* in front of that buffer says it is not sent yet.
redisBufferWriteInner(t, c) ==
    \/ /\ err[c] \/ (~link[c] /\ unsent[obuf[c][1]])
       /\ Fail(t, c)
       /\ UNCHANGED <<toServer, unsent>>
    \/ /\ ~err[c]
       /\ IF unsent[obuf[c][1]]
          THEN /\ link[c]
               /\ toServer' = [toServer EXCEPT ![c] = Append(@, obuf[c])]
               /\ unsent' = [unsent EXCEPT ![obuf[c][1]] = FALSE]
          ELSE UNCHANGED <<toServer, unsent>>
       /\ pc' = [pc EXCEPT ![t] = "read"]
       /\ UNCHANGED <<err, ret, reply>>

Write(t) ==
    /\ pc[t] = "write"
    /\ redisBufferWriteInner(t, GetRedisConnection(t))
    /\ UNCHANGED <<startVars, call, resend, attempts, link, obuf, fromServer, outages>>

\* redisGetReplyInner after the write: read until there is a reply, or an error of the
\* socket or of the protocol.  No read timeout is set, so only a reply or an error ends it.
redisGetReplyInner(t, c) ==
    \/ /\ err[c] \/ ~link[c]
       /\ Fail(t, c)
       /\ UNCHANGED <<fromServer, outages>>
    \/ /\ ~err[c] /\ link[c] /\ fromServer[c] # <<>>
       /\ reply' = [reply EXCEPT ![t] = Head(fromServer[c])]
       /\ fromServer' = [fromServer EXCEPT ![c] = Tail(@)]
       /\ ret' = [ret EXCEPT ![t] = REDIS_OK]
       /\ pc' = [pc EXCEPT ![t] = "check"]
       /\ UNCHANGED <<err, outages>>
    \/ /\ ~err[c] /\ link[c] /\ fromServer[c] # <<>> /\ outages < MaxOutages
       /\ outages' = outages + 1
       /\ Fail(t, c)
       /\ fromServer' = [fromServer EXCEPT ![c] = Tail(@)]

Read(t) ==
    /\ pc[t] = "read"
    /\ redisGetReplyInner(t, GetRedisConnection(t))
    /\ UNCHANGED <<startVars, call, resend, unsent, attempts, link, obuf, toServer>>

\* execCmd: whether the command is sent again over a new connection ...
Reattempts(t) == resend[t] /\ ret[t] = REDIS_ERR_IO

\* ... and, if not, its return.  The value returned is 0 whatever ret was.
CheckReturn(t) ==
    /\ pc[t] = "check"
    /\ pc' = [pc EXCEPT ![t] = IF Reattempts(t) THEN "reattempt" ELSE "idle"]
    /\ UNCHANGED <<startVars, call, resend, reply, ret, unsent, attempts, ctxVars, outages>>

\* execTaskByTimeOut: a new context in place of the old one, and the command again;
\* or no context, and another turn or the end of the time.  The length in front of
\* the command buffer stays as the first attempt left it.
ExecTaskByTimeOut(t) ==
    LET c == GetRedisConnection(t)
    IN  /\ pc[t] = "reattempt"
        /\ attempts' = [attempts EXCEPT ![t] = @ + 1]
        /\ \/ /\ err' = [err EXCEPT ![c] = FALSE]
              /\ link' = [link EXCEPT ![c] = TRUE]
              /\ toServer' = [toServer EXCEPT ![c] = <<>>]
              /\ fromServer' = [fromServer EXCEPT ![c] = <<>>]
              /\ obuf' = [obuf EXCEPT ![c] = <<t, call[t]>>]
              /\ pc' = [pc EXCEPT ![t] = "write"]
           \/ /\ pc' \in {pc, [pc EXCEPT ![t] = "idle"]}
              /\ UNCHANGED ctxVars
        /\ UNCHANGED <<startVars, call, resend, reply, ret, unsent, outages>>

-----------------------------------------------------------------------------
CallStep(t) == Write(t) \/ Read(t) \/ CheckReturn(t)

Next ==
    \/ InitializeConnection
    \/ \E c \in Contexts : Serve(c) \/ LinkLost(c)
    \/ \E t \in Threads : (\E reSend \in BOOLEAN : ExecCmd(t, reSend)) \/ CallStep(t)

(* The calling threads keep running, and the server answers what reaches it. *)
Fairness ==
    /\ \A t \in Threads : WF_vars(CallStep(t))
    /\ \A c \in Contexts : WF_vars(Serve(c))

Spec == Init /\ [][Next]_vars
FairSpec == Spec /\ Fairness

\* With the loop that reconnects, which execCmd's test never lets a call enter.
ReattemptSpec == Init /\ [][Next \/ \E t \in Threads : ExecTaskByTimeOut(t)]_vars

-----------------------------------------------------------------------------
(***************************************************************************)
(* A sync call is given the reply to its own command, through broken links *)
(* and commands whose reply nobody waits for.  IRedisMgr.h allows calls    *)
(* from the main thread and from the threads of the queue without a lock:  *)
(* this holds if the queue has no more threads than there are connections. *)
(***************************************************************************)
ReplyIsOwn ==
    \A t \in Threads : reply[t] # NoTicket => reply[t] = <<t, call[t]>>

(***************************************************************************)
(* What the pairing of commands and replies rests on: at most one command  *)
(* or reply is on a context's socket, and only while its caller waits.     *)
(***************************************************************************)
OneInFlight ==
    \A c \in Contexts :
        LET inFlight == toServer[c] \o fromServer[c]
        IN  /\ Len(inFlight) <= 1
            /\ \A i \in 1..Len(inFlight) :
                  pc[inFlight[i][1]] = "read" /\ call[inFlight[i][1]] = inFlight[i][2]

(***************************************************************************)
(* Every sync call returns, through links that break and replies that are  *)
(* no replies: no thread waits for a reply to a command that was not sent. *)
(* A peer that neither answers nor closes its socket would be waited for.  *)
(***************************************************************************)
CallReturns == \A t \in Threads : pc[t] # "idle" ~> pc[t] = "idle"

(***************************************************************************)
(* IRedisMgr.h: a sync command whose link broke is sent again over a new   *)
(* connection, except the listed non-overwriting ones: execCmd does not    *)
(* return without a reply before it has tried a new connection.            *)
(***************************************************************************)
ResentBeforeGivenUp ==
    \A t \in Threads :
        pc[t] = "idle" /\ call[t] > 0 /\ resend[t] /\ reply[t] = NoTicket => attempts[t] > 0

(***************************************************************************)
(* CreateRedisContext logs "redis auth failed" only if the server refused  *)
(* the password or did not answer.                                         *)
(***************************************************************************)
AuthFailureIsReal ==
    "auth failed" \in logged => logged \cap {"auth refused", "auth lost"} # {}
-----------------------------------------------------------------------------
(***************************************************************************)
(* The inductive invariant, for a queue with no more threads than there    *)
(* are connections, so that no two threads share a context.  In the write  *)
(* the context points at its thread's unsent command; what is on a socket  *)
(* is the one command of the thread that reads there, or its reply; and    *)
(* nothing is on the socket of a context that is in error or has no link.  *)
(***************************************************************************)
StartsBelow == phase = "starting" => created <= ConnectNum

WritesSomething ==
    \A t \in Threads : pc[t] = "write" => obuf[GetRedisConnection(t)] # NoTicket

TypeInv == TypeOK /\ StartsBelow /\ WritesSomething

NeverReattempts == \A t \in Threads : pc[t] # "reattempt"

WritesOwn ==
    \A t \in Threads : pc[t] = "write" =>
        obuf[GetRedisConnection(t)] = <<t, call[t]>> /\ unsent[t]

Silent(c) == toServer[c] = <<>> /\ fromServer[c] = <<>>

CarriesCallOf(c, t) ==
    /\ GetRedisConnection(t) = c /\ pc[t] = "read"
    /\ \/ toServer[c] = << <<t, call[t]>> >> /\ fromServer[c] = <<>>
       \/ toServer[c] = <<>> /\ fromServer[c] = << <<t, call[t]>> >>

InFlightOwned ==
    \A c \in Contexts : Silent(c) \/ \E t \in Threads : CarriesCallOf(c, t)

DownIsSilent ==
    \A c \in Contexts : err[c] \/ ~link[c] => Silent(c)

QuietBeforeCalls ==
    phase # "running" => /\ \A t \in Threads : pc[t] = "idle"
                         /\ \A c \in Contexts : ~err[c]

CallInv == TypeInv /\ QuietBeforeCalls /\ DownIsSilent /\ NeverReattempts
           /\ WritesOwn /\ InFlightOwned /\ ReplyIsOwn
=============================================================================
