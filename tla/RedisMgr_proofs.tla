--------------------------- MODULE RedisMgr_proofs ---------------------------
(***************************************************************************)
(* Theorems about RedisMgr, for any number of threads, contexts, calls and *)
(* outages.  The pairing of replies with calls needs that threads do not   *)
(* outnumber the connections.                                              *)
(***************************************************************************)
EXTENDS RedisMgr, SequenceTheorems, TLAPS

Statuses == {"idle", "write", "read", "check", "reattempt"}
LogLines == {"connect failed", "auth failed", "auth refused", "auth lost"}

(* GetRedisConnection names one of the contexts Initialize created. *)
LEMMA ContextInRange ==
    \A t \in Threads : GetRedisConnection(t) \in Contexts
  <1> SUFFICES ASSUME NEW t \in Threads PROVE GetRedisConnection(t) \in Contexts
    OBVIOUS
  <1>1. t \in Nat /\ ConnectNum \in Nat /\ ConnectNum > 0
    BY ConnectNumAssumption, ThreadNumAssumption DEF Threads, MAIN_THREAD_IDX
  <1>2. t % ConnectNum \in 0..(ConnectNum - 1)
    BY <1>1
  <1> QED
    BY <1>1, <1>2 DEF GetRedisConnection, Contexts

(* With at least as many connections as threads no two threads share a context. *)
LEMMA ContextOfOneThread ==
    ASSUME ThreadNum <= ConnectNum, NEW s \in Threads, NEW t \in Threads,
           GetRedisConnection(s) = GetRedisConnection(t)
    PROVE  s = t
  <1>1. /\ s \in 0..ConnectNum /\ t \in 0..ConnectNum
        /\ ConnectNum \in Nat /\ ConnectNum > 0
    BY ConnectNumAssumption, ThreadNumAssumption DEF Threads, MAIN_THREAD_IDX
  <1>2. ASSUME NEW u \in 1..ConnectNum
        PROVE  u % ConnectNum = IF u = ConnectNum THEN 0 ELSE u
    BY <1>1
  <1>3. s = 0 \/ s \in 1..ConnectNum
    BY <1>1
  <1>4. t = 0 \/ t \in 1..ConnectNum
    BY <1>1
  <1> QED
    BY <1>1, <1>2, <1>3, <1>4 DEF GetRedisConnection, MAIN_THREAD_IDX

-----------------------------------------------------------------------------
(* Types. *)

LEMMA TypeInit == Init => TypeInv
  <1> SUFFICES ASSUME Init PROVE TypeInv
    OBVIOUS
  <1>1. MAIN_THREAD_IDX \in Threads
    BY ThreadNumAssumption DEF Threads, MAIN_THREAD_IDX
  <1> QED
    BY <1>1, BoundsAssumption, ConnectNumAssumption DEF Init, TypeInv, TypeOK, StartsBelow, WritesSomething

(* CreateRedisContext yields a context or none, and known log lines. *)
LEMMA CreateFacts ==
    ASSUME NEW connected \in BOOLEAN, NEW answer \in {"lost", "ok", "error"}
    PROVE  CreateRedisContext(connected, answer).log \subseteq LogLines
  BY DEF CreateRedisContext, LogLines

LEMMA InitializeKeepsTypes ==
    ASSUME TypeInv, InitializeConnection
    PROVE  TypeInv'
  <1> USE DEF TypeInv
  <1>1. PICK connected \in BOOLEAN, lost \in BOOLEAN :
          LET answer  == IF lost THEN "lost" ELSE AuthReply
              context == CreateRedisContext(connected, answer)
          IN  /\ ~connected \/ lost => outages < MaxOutages
              /\ outages' = IF ~connected \/ lost THEN outages + 1 ELSE outages
              /\ logged' = logged \cup context.log
              /\ IF context.ctx
                 THEN /\ link' = [link EXCEPT ![created] = TRUE]
                      /\ created' = created + 1
                      /\ phase' = IF AllCreated(created') THEN "running" ELSE phase
                 ELSE /\ phase' = "refused"
                      /\ UNCHANGED <<link, created>>
    BY DEF InitializeConnection
  <1> DEFINE answer == IF lost THEN "lost" ELSE AuthReply
             context == CreateRedisContext(connected, answer)
  <1>2. answer \in {"lost", "ok", "error"}
    BY DEF AuthReply
  <1>3. context.log \subseteq LogLines
    BY <1>2, CreateFacts
  <1>p. /\ logged' = logged \cup context.log
        /\ ~connected \/ lost => outages < MaxOutages
        /\ outages' = IF ~connected \/ lost THEN outages + 1 ELSE outages
        /\ context.ctx => /\ link' = [link EXCEPT ![created] = TRUE]
                          /\ created' = created + 1
                          /\ phase' = IF AllCreated(created') THEN "running" ELSE phase
        /\ ~context.ctx => phase' = "refused" /\ UNCHANGED <<link, created>>
    BY <1>1
  <1> HIDE DEF context, answer
  <1>4. logged' \subseteq LogLines
    BY <1>p, <1>3 DEF TypeOK, LogLines
  <1>5. outages' \in 0..MaxOutages
    <2>1. outages \in 0..MaxOutages
      BY DEF TypeOK
    <2>2. CASE ~connected \/ lost
      BY <1>p, <2>1, <2>2, BoundsAssumption
    <2>3. CASE ~(~connected \/ lost)
      BY <1>p, <2>1, <2>3
    <2> QED
      BY <2>2, <2>3
  <1>6. phase = "starting" /\ created \in 0..ConnectNum
    <2>1. created \in 0..(ConnectNum + 1)
      BY DEF TypeOK
    <2>2. phase = "starting" /\ created <= ConnectNum
      BY DEF InitializeConnection, StartsBelow
    <2> QED
      BY <2>1, <2>2, ConnectNumAssumption
  <1>7. /\ phase' \in {"starting", "running", "refused"}
        /\ created' \in 0..(ConnectNum + 1)
        /\ StartsBelow'
    BY <1>6, <1>p, ConnectNumAssumption DEF AllCreated, StartsBelow
  <1>8. link' \in [Contexts -> BOOLEAN]
    BY <1>p DEF TypeOK
  <1>9. UNCHANGED <<config, callVars, err, obuf, toServer, fromServer>>
    BY DEF InitializeConnection
  <1>10. TypeOK'
    BY <1>4, <1>5, <1>7, <1>8, <1>9 DEF TypeOK, callVars, LogLines
  <1> QED
    BY <1>7, <1>9, <1>10 DEF WritesSomething, callVars

LEMMA ExecCmdKeepsTypes ==
    ASSUME TypeInv, NEW t \in Threads, NEW reSend \in BOOLEAN, ExecCmd(t, reSend)
    PROVE  TypeInv'
  <1> USE DEF TypeInv
  <1> DEFINE c == GetRedisConnection(t)
  <1>1. c \in Contexts
    BY ContextInRange
  <1>o. obuf' = [obuf EXCEPT ![c] = <<t, call[t] + 1>>]
    BY DEF ExecCmd
  <1> HIDE DEF c
  <1>2. call[t] + 1 \in 1..MaxCalls /\ <<t, call[t] + 1>> \in Tickets
    <2>1. call \in [Threads -> 0..MaxCalls]
      BY DEF TypeOK
    <2>2. call[t] < MaxCalls
      BY DEF ExecCmd
    <2> QED
      BY <2>1, <2>2, BoundsAssumption DEF Tickets
  <1>3. call' \in [Threads -> 0..MaxCalls] /\ obuf' \in [Contexts -> Tickets \cup {NoTicket}]
    <2>1. call' = [call EXCEPT ![t] = call[t] + 1]
      BY DEF ExecCmd
    <2>2. /\ call \in [Threads -> 0..MaxCalls]
          /\ obuf \in [Contexts -> Tickets \cup {NoTicket}]
      BY DEF TypeOK
    <2>3. call[t] + 1 \in 0..MaxCalls
      BY <1>2
    <2>4. call' \in [Threads -> 0..MaxCalls]
      BY <2>1, <2>2, <2>3
    <2> QED
      BY <1>1, <1>2, <1>o, <2>2, <2>4
  <1>4. /\ resend' \in [Threads -> BOOLEAN] /\ unsent' \in [Threads -> BOOLEAN]
        /\ pc' \in [Threads -> Statuses] /\ attempts' \in [Threads -> Nat]
    BY DEF ExecCmd, TypeOK, Commit, Statuses
  <1>5. reply' \in [Threads -> Tickets \cup {NoTicket}]
    BY DEF ExecCmd, TypeOK
  <1>6. UNCHANGED <<startVars, ret, err, link, toServer, fromServer, outages>>
    BY DEF ExecCmd
  <1>7. TypeOK' /\ StartsBelow'
    BY <1>3, <1>4, <1>5, <1>6 DEF TypeOK, StartsBelow, startVars, Statuses
  <1>8. WritesSomething'
    <2>1. <<t, call[t] + 1>> # NoTicket
      BY <1>2 DEF NoTicket
    <2>2. ASSUME NEW s \in Threads, pc'[s] = "write"
          PROVE  obuf'[GetRedisConnection(s)] # NoTicket
      <3>1. GetRedisConnection(s) \in Contexts
        BY ContextInRange
      <3>2. CASE GetRedisConnection(s) = c
        BY <1>1, <1>o, <2>1, <3>2 DEF TypeOK
      <3>3. CASE GetRedisConnection(s) # c
        <4>1. s # t
          BY <3>3 DEF c
        <4>2. pc[s] = "write"
          BY <2>2, <4>1 DEF ExecCmd, TypeOK
        <4> QED
          BY <1>1, <1>o, <3>1, <3>3, <4>2 DEF TypeOK, WritesSomething
      <3> QED
        BY <3>2, <3>3
    <2> QED
      BY <2>2 DEF WritesSomething
  <1> QED
    BY <1>7, <1>8

LEMMA WriteKeepsTypes ==
    ASSUME TypeInv, NEW t \in Threads, Write(t)
    PROVE  TypeInv'
  <1> USE DEF TypeInv
  <1> DEFINE c == GetRedisConnection(t)
  <1>1. c \in Contexts
    BY ContextInRange
  <1>2. redisBufferWriteInner(t, c)
        /\ UNCHANGED <<startVars, call, resend, attempts, link, obuf, fromServer, outages>>
    BY DEF Write
  <1>o. obuf[c] # NoTicket /\ obuf[c] \in Tickets
    BY <1>1 DEF Write, WritesSomething, TypeOK
  <1> HIDE DEF c
  <1>3. /\ err' \in [Contexts -> BOOLEAN]
        /\ ret' \in [Threads -> {REDIS_OK, REDIS_ERR}]
        /\ pc' \in [Threads -> Statuses]
        /\ reply' \in [Threads -> Tickets \cup {NoTicket}]
    BY <1>1, <1>2 DEF redisBufferWriteInner, Fail, TypeOK, Statuses
  <1>4. obuf[c][1] \in Threads
    BY <1>o DEF Tickets
  <1>5. unsent' \in [Threads -> BOOLEAN]
    BY <1>2, <1>4 DEF redisBufferWriteInner, TypeOK
  <1>6. toServer' \in [Contexts -> Seq(Tickets)]
    <2>1. toServer' = toServer \/ toServer' = [toServer EXCEPT ![c] = Append(@, obuf[c])]
      BY <1>2 DEF redisBufferWriteInner
    <2>2. toServer \in [Contexts -> Seq(Tickets)]
      BY DEF TypeOK
    <2>3. Append(toServer[c], obuf[c]) \in Seq(Tickets)
      BY <1>1, <1>o, <2>2
    <2> QED
      BY <1>1, <2>1, <2>2, <2>3
  <1>7. \A s \in Threads : pc'[s] = "write" => pc[s] = "write"
    BY <1>2 DEF redisBufferWriteInner, Fail, TypeOK
  <1>8. TypeOK' /\ StartsBelow'
    BY <1>2, <1>3, <1>5, <1>6 DEF TypeOK, StartsBelow, startVars, Statuses
  <1>9. WritesSomething'
    BY <1>2, <1>7 DEF WritesSomething
  <1> QED
    BY <1>8, <1>9

LEMMA ReadKeepsTypes ==
    ASSUME TypeInv, NEW t \in Threads, Read(t)
    PROVE  TypeInv'
  <1> USE DEF TypeInv
  <1> DEFINE c == GetRedisConnection(t)
  <1>1. c \in Contexts
    BY ContextInRange
  <1>2. redisGetReplyInner(t, c)
        /\ UNCHANGED <<startVars, call, resend, unsent, attempts, link, obuf, toServer>>
    BY DEF Read
  <1> HIDE DEF c
  <1>3. /\ err' \in [Contexts -> BOOLEAN]
        /\ ret' \in [Threads -> {REDIS_OK, REDIS_ERR}]
        /\ pc' \in [Threads -> Statuses]
    BY <1>1, <1>2 DEF redisGetReplyInner, Fail, TypeOK, Statuses
  <1>4. fromServer[c] # <<>> =>
            Head(fromServer[c]) \in Tickets /\ Tail(fromServer[c]) \in Seq(Tickets)
    <2>1. fromServer[c] \in Seq(Tickets)
      BY <1>1 DEF TypeOK
    <2> QED
      BY <2>1, HeadTailProperties
  <1>5. /\ reply' \in [Threads -> Tickets \cup {NoTicket}]
        /\ fromServer' \in [Contexts -> Seq(Tickets)]
    <2>1. \/ reply' = reply /\ fromServer' = fromServer
          \/ /\ fromServer[c] # <<>>
             /\ reply' = reply \/ reply' = [reply EXCEPT ![t] = Head(fromServer[c])]
             /\ fromServer' = [fromServer EXCEPT ![c] = Tail(fromServer[c])]
      BY <1>2 DEF redisGetReplyInner, Fail
    <2>2. /\ reply \in [Threads -> Tickets \cup {NoTicket}]
          /\ fromServer \in [Contexts -> Seq(Tickets)]
      BY DEF TypeOK
    <2> QED
      BY <1>1, <1>4, <2>1, <2>2
  <1>6. \A s \in Threads : pc'[s] = "write" => pc[s] = "write"
    BY <1>2 DEF redisGetReplyInner, Fail, TypeOK
  <1>7. outages' \in 0..MaxOutages
    <2>1. outages \in 0..MaxOutages
      BY DEF TypeOK
    <2>2. outages' = outages \/ (outages < MaxOutages /\ outages' = outages + 1)
      BY <1>2 DEF redisGetReplyInner
    <2> QED
      BY <2>1, <2>2, BoundsAssumption
  <1>8. TypeOK' /\ StartsBelow'
    BY <1>2, <1>3, <1>5, <1>7 DEF TypeOK, StartsBelow, startVars, Statuses
  <1>9. WritesSomething'
    BY <1>2, <1>6 DEF WritesSomething
  <1> QED
    BY <1>8, <1>9

(* Every step keeps the types, and a writer's context points at a command. *)
LEMMA TypeStep ==
    ASSUME TypeInv, [Next]_vars
    PROVE  TypeInv'
  <1>1. CASE InitializeConnection
    BY <1>1, InitializeKeepsTypes
  <1>2. ASSUME NEW c \in Contexts, Serve(c) PROVE TypeInv'
    <2>s. /\ toServer \in [Contexts -> Seq(Tickets)]
          /\ fromServer \in [Contexts -> Seq(Tickets)]
      BY DEF TypeInv, TypeOK
    <2>p. /\ toServer[c] # <<>>
          /\ toServer' = [toServer EXCEPT ![c] = Tail(@)]
          /\ fromServer' = [fromServer EXCEPT ![c] = Append(@, Head(toServer[c]))]
      BY <1>2 DEF Serve
    <2>1. Head(toServer[c]) \in Tickets /\ Tail(toServer[c]) \in Seq(Tickets)
      BY <2>s, <2>p, HeadTailProperties
    <2>2. toServer' \in [Contexts -> Seq(Tickets)] /\ fromServer' \in [Contexts -> Seq(Tickets)]
      BY <2>s, <2>p, <2>1, AppendProperties
    <2>3. UNCHANGED <<startVars, callVars, err, link, obuf, outages>>
      BY <1>2 DEF Serve
    <2> QED
      BY <2>2, <2>3 DEF TypeInv, TypeOK, StartsBelow, WritesSomething, startVars, callVars
  <1>3. ASSUME NEW c \in Contexts, LinkLost(c) PROVE TypeInv'
    <2>s. /\ toServer \in [Contexts -> Seq(Tickets)]
          /\ fromServer \in [Contexts -> Seq(Tickets)]
          /\ outages \in 0..MaxOutages /\ link \in [Contexts -> BOOLEAN]
      BY DEF TypeInv, TypeOK
    <2>p. /\ toServer' = [toServer EXCEPT ![c] = <<>>]
          /\ fromServer' = [fromServer EXCEPT ![c] = <<>>]
          /\ outages < MaxOutages /\ outages' = outages + 1
          /\ link' = [link EXCEPT ![c] = FALSE]
      BY <1>3 DEF LinkLost
    <2>1. toServer' \in [Contexts -> Seq(Tickets)] /\ fromServer' \in [Contexts -> Seq(Tickets)]
      BY <2>s, <2>p
    <2>2. outages' \in 0..MaxOutages /\ link' \in [Contexts -> BOOLEAN]
      BY <2>s, <2>p, BoundsAssumption
    <2>3. UNCHANGED <<startVars, callVars, err, obuf>>
      BY <1>3 DEF LinkLost
    <2> QED
      BY <2>1, <2>2, <2>3 DEF TypeInv, TypeOK, StartsBelow, WritesSomething, startVars, callVars
  <1>4. ASSUME NEW t \in Threads, CheckReturn(t) PROVE TypeInv'
    <2>1. pc' \in [Threads -> Statuses] /\ \A s \in Threads : pc'[s] = "write" => pc[s] = "write"
      BY <1>4 DEF CheckReturn, TypeInv, TypeOK, Statuses
    <2>2. UNCHANGED <<startVars, call, resend, reply, ret, unsent, attempts, ctxVars, outages>>
      BY <1>4 DEF CheckReturn
    <2> QED
      BY <2>1, <2>2 DEF TypeInv, TypeOK, StartsBelow, WritesSomething, startVars, ctxVars, Statuses
  <1>5. CASE UNCHANGED vars
    BY <1>5 DEF TypeInv, TypeOK, StartsBelow, WritesSomething, vars, startVars, callVars, ctxVars
  <1> QED
    BY <1>1, <1>2, <1>3, <1>4, <1>5, ExecCmdKeepsTypes, WriteKeepsTypes, ReadKeepsTypes
       DEF Next, CallStep

(***************************************************************************)
(* Types, for any number of threads and contexts: in particular Initialize *)
(* creates at most ConnectNum + 1 contexts, and a call writes a command.   *)
(***************************************************************************)
THEOREM RedisTypeCorrect == Spec => []TypeOK
  <1>1. TypeInv => TypeOK
    BY DEF TypeInv
  <1> QED
    BY TypeInit, TypeStep, <1>1, PTL DEF Spec

-----------------------------------------------------------------------------
(* Who owns what is on a context's socket. *)

Owned(c) == Silent(c) \/ \E t \in Threads : CarriesCallOf(c, t)

(* A socket nothing moved on keeps its owner through a step of another thread. *)
LEMMA OtherThreadKeepsOwner ==
    ASSUME TypeOK, NEW t \in Threads, NEW d \in Contexts, Owned(d),
           pc[t] # "read" \/ GetRedisConnection(t) # d,
           \A u \in Threads \ {t} : pc'[u] = pc[u] /\ call'[u] = call[u],
           toServer'[d] = toServer[d], fromServer'[d] = fromServer[d]
    PROVE  Owned(d)'
  <1>1. CASE Silent(d)
    BY <1>1 DEF Owned, Silent
  <1>2. CASE ~Silent(d)
    <2>1. PICK u \in Threads : CarriesCallOf(d, u)
      BY <1>2 DEF Owned
    <2>2. u # t
      BY <2>1 DEF CarriesCallOf
    <2>3. CarriesCallOf(d, u)'
      BY <2>1, <2>2 DEF CarriesCallOf
    <2> QED
      BY <2>3 DEF Owned
  <1> QED
    BY <1>1, <1>2

(* What is on the socket of a thread's context is that thread's call. *)
LEMMA OwnerIsThread ==
    ASSUME ThreadNum <= ConnectNum, NEW t \in Threads, Owned(GetRedisConnection(t)),
           ~Silent(GetRedisConnection(t))
    PROVE  CarriesCallOf(GetRedisConnection(t), t)
  <1>1. PICK u \in Threads : CarriesCallOf(GetRedisConnection(t), u)
    BY DEF Owned
  <1>2. u = t
    BY <1>1, ContextOfOneThread DEF CarriesCallOf
  <1> QED
    BY <1>1, <1>2

LEMMA CallInit == Init => CallInv
  <1> SUFFICES ASSUME Init PROVE CallInv
    OBVIOUS
  <1>1. TypeInv
    BY TypeInit
  <1>2. QuietBeforeCalls /\ DownIsSilent /\ NeverReattempts /\ WritesOwn /\ InFlightOwned
    BY DEF Init, QuietBeforeCalls, DownIsSilent, NeverReattempts, WritesOwn, InFlightOwned, Silent
  <1>3. ReplyIsOwn
    BY DEF Init, ReplyIsOwn
  <1> QED
    BY <1>1, <1>2, <1>3 DEF CallInv

LEMMA InitializeKeepsCalls ==
    ASSUME CallInv, InitializeConnection
    PROVE  CallInv'
  <1> USE DEF CallInv
  <1>1. UNCHANGED <<config, callVars, err, obuf, toServer, fromServer>> /\ phase = "starting"
    BY DEF InitializeConnection
  <1>2. TypeInv'
    BY InitializeKeepsTypes
  <1>3. QuietBeforeCalls'
    BY <1>1 DEF QuietBeforeCalls, callVars
  <1>4. NeverReattempts' /\ WritesOwn' /\ ReplyIsOwn'
    BY <1>1 DEF NeverReattempts, WritesOwn, ReplyIsOwn, callVars
  <1>5. InFlightOwned'
    BY <1>1 DEF InFlightOwned, Silent, CarriesCallOf, callVars
  <1>6. DownIsSilent'
    <2>1. link' = link \/ link' = [link EXCEPT ![created] = TRUE]
      BY DEF InitializeConnection
    <2>2. \A c \in Contexts : ~link'[c] => ~link[c]
      BY <2>1 DEF TypeInv, TypeOK
    <2>3. \A c \in Contexts : ~err'[c]
      BY <1>1 DEF QuietBeforeCalls
    <2> QED
      BY <1>1, <2>2, <2>3 DEF DownIsSilent, Silent
  <1> QED
    BY <1>2, <1>3, <1>4, <1>5, <1>6

LEMMA ServeKeepsCalls ==
    ASSUME ThreadNum <= ConnectNum, CallInv, NEW c \in Contexts, Serve(c)
    PROVE  CallInv'
  <1> USE DEF CallInv
  <1>1. /\ UNCHANGED <<startVars, callVars, err, link, obuf, outages>>
        /\ link[c] /\ toServer[c] # <<>>
    BY DEF Serve
  <1>2. TypeInv'
    BY TypeStep DEF Next
  <1>3. QuietBeforeCalls' /\ NeverReattempts' /\ WritesOwn' /\ ReplyIsOwn'
    BY <1>1 DEF QuietBeforeCalls, NeverReattempts, WritesOwn, ReplyIsOwn, callVars, startVars
  <1>4. /\ toServer' = [toServer EXCEPT ![c] = Tail(@)]
        /\ fromServer' = [fromServer EXCEPT ![c] = Append(@, Head(toServer[c]))]
        /\ toServer \in [Contexts -> Seq(Tickets)]
        /\ fromServer \in [Contexts -> Seq(Tickets)]
    BY DEF Serve, TypeInv, TypeOK
  <1>5. \A d \in Contexts \ {c} : toServer'[d] = toServer[d] /\ fromServer'[d] = fromServer[d]
    BY <1>4
  <1>6. DownIsSilent'
    BY <1>1, <1>5 DEF DownIsSilent, Silent
  <1>7. PICK u \in Threads : CarriesCallOf(c, u)
    BY <1>1 DEF InFlightOwned, Silent
  <1>8. toServer[c] = << <<u, call[u]>> >> /\ fromServer[c] = <<>>
    BY <1>1, <1>7 DEF CarriesCallOf
  <1>9. toServer'[c] = <<>> /\ fromServer'[c] = << <<u, call[u]>> >>
    <2>1. Tail(<< <<u, call[u]>> >>) = <<>> /\ Head(<< <<u, call[u]>> >>) = <<u, call[u]>>
      OBVIOUS
    <2>2. Append(<<>>, <<u, call[u]>>) = << <<u, call[u]>> >>
      OBVIOUS
    <2> QED
      BY <1>4, <1>8, <2>1, <2>2
  <1>10. CarriesCallOf(c, u)'
    BY <1>1, <1>7, <1>9 DEF CarriesCallOf, callVars
  <1>11. InFlightOwned'
    BY <1>1, <1>5, <1>10 DEF InFlightOwned, Silent, CarriesCallOf, callVars
  <1> QED
    BY <1>2, <1>3, <1>6, <1>11

LEMMA LinkLostKeepsCalls ==
    ASSUME CallInv, NEW c \in Contexts, LinkLost(c)
    PROVE  CallInv'
  <1> USE DEF CallInv
  <1>1. UNCHANGED <<startVars, callVars, err, obuf>>
    BY DEF LinkLost
  <1>2. TypeInv'
    BY TypeStep DEF Next
  <1>3. QuietBeforeCalls' /\ NeverReattempts' /\ WritesOwn' /\ ReplyIsOwn'
    BY <1>1 DEF QuietBeforeCalls, NeverReattempts, WritesOwn, ReplyIsOwn, callVars, startVars
  <1>4. /\ ~link'[c] /\ toServer'[c] = <<>> /\ fromServer'[c] = <<>>
        /\ \A d \in Contexts \ {c} : /\ link'[d] = link[d]
                                    /\ toServer'[d] = toServer[d]
                                    /\ fromServer'[d] = fromServer[d]
    BY DEF LinkLost, TypeInv, TypeOK
  <1>5. DownIsSilent'
    BY <1>1, <1>4 DEF DownIsSilent, Silent
  <1>6. InFlightOwned'
    BY <1>1, <1>4 DEF InFlightOwned, Silent, CarriesCallOf, callVars
  <1> QED
    BY <1>2, <1>3, <1>5, <1>6

LEMMA ExecCmdKeepsCalls ==
    ASSUME ThreadNum <= ConnectNum, CallInv,
           NEW t \in Threads, NEW reSend \in BOOLEAN, ExecCmd(t, reSend)
    PROVE  CallInv'
  <1> USE DEF CallInv
  <1> DEFINE c == GetRedisConnection(t)
  <1>1. /\ UNCHANGED <<startVars, ret, err, link, toServer, fromServer, outages>>
        /\ phase = "running" /\ pc[t] = "idle"
    BY DEF ExecCmd
  <1>2. TypeInv'
    BY ExecCmdKeepsTypes
  <1>3. \A u \in Threads \ {t} : /\ pc'[u] = pc[u] /\ call'[u] = call[u]
                                /\ reply'[u] = reply[u] /\ unsent'[u] = unsent[u]
    BY DEF ExecCmd, TypeInv, TypeOK
  <1>4. pc'[t] = "write" /\ call'[t] = call[t] + 1 /\ reply'[t] = NoTicket /\ unsent'[t]
    BY DEF ExecCmd, TypeInv, TypeOK, Commit
  <1>5. QuietBeforeCalls' /\ DownIsSilent'
    BY <1>1 DEF QuietBeforeCalls, DownIsSilent, Silent, startVars
  <1>6. NeverReattempts' /\ ReplyIsOwn'
    BY <1>3, <1>4 DEF NeverReattempts, ReplyIsOwn
  <1>7. WritesOwn'
    <2>1. c \in Contexts /\ obuf' = [obuf EXCEPT ![c] = <<t, call[t] + 1>>]
      BY ContextInRange DEF ExecCmd
    <2>2. obuf'[c] = <<t, call'[t]>>
      BY <1>4, <2>1 DEF TypeInv, TypeOK
    <2>3. ASSUME NEW u \in Threads \ {t}
          PROVE  obuf'[GetRedisConnection(u)] = obuf[GetRedisConnection(u)]
      <3>1. GetRedisConnection(u) # c
        BY <2>3, ContextOfOneThread
      <3>2. GetRedisConnection(u) \in Contexts
        BY <2>3, ContextInRange
      <3> QED
        BY <2>1, <3>1, <3>2 DEF TypeInv, TypeOK
    <2> QED
      BY <1>3, <1>4, <2>2, <2>3 DEF WritesOwn
  <1>8. InFlightOwned'
    <2>1. ASSUME NEW d \in Contexts PROVE Owned(d)'
      BY <1>1, <1>3, OtherThreadKeepsOwner DEF InFlightOwned, Owned, TypeInv
    <2> QED
      BY <2>1 DEF InFlightOwned, Owned
  <1> QED
    BY <1>2, <1>5, <1>6, <1>7, <1>8

LEMMA WriteKeepsCalls ==
    ASSUME ThreadNum <= ConnectNum, CallInv, NEW t \in Threads, Write(t)
    PROVE  CallInv'
  <1> USE DEF CallInv
  <1> DEFINE c == GetRedisConnection(t)
  <1>1. /\ UNCHANGED <<startVars, call, resend, attempts, link, obuf, fromServer, outages>>
        /\ pc[t] = "write" /\ redisBufferWriteInner(t, c)
    BY DEF Write
  <1>2. TypeInv' /\ c \in Contexts
    BY WriteKeepsTypes, ContextInRange
  <1>3. obuf[c] = <<t, call[t]>> /\ unsent[t] /\ obuf[c][1] = t
    BY <1>1 DEF WritesOwn
  <1>4. Silent(c)
    BY <1>1, <1>2, OwnerIsThread DEF InFlightOwned, Owned, CarriesCallOf
  <1>5. \/ /\ err[c] \/ ~link[c]
           /\ Fail(t, c) /\ UNCHANGED <<toServer, unsent>>
        \/ /\ ~err[c] /\ link[c]
           /\ toServer' = [toServer EXCEPT ![c] = Append(@, <<t, call[t]>>)]
           /\ unsent' = [unsent EXCEPT ![t] = FALSE]
           /\ pc' = [pc EXCEPT ![t] = "read"]
           /\ UNCHANGED <<err, ret, reply>>
    BY <1>1, <1>3 DEF redisBufferWriteInner
  <1> HIDE DEF c
  <1>6. /\ \A u \in Threads \ {t} : pc'[u] = pc[u] /\ unsent'[u] = unsent[u]
        /\ pc'[t] \in {"read", "check"}
        /\ reply' = reply
        /\ \A d \in Contexts : err'[d] = err[d] \/ Silent(d)
    <2>t. /\ pc \in [Threads -> Statuses] /\ unsent \in [Threads -> BOOLEAN]
          /\ err \in [Contexts -> BOOLEAN]
      BY DEF TypeInv, TypeOK, Statuses
    <2>1. CASE (err[c] \/ ~link[c]) /\ Fail(t, c) /\ UNCHANGED <<toServer, unsent>>
      <3>1. Silent(c)
        BY <1>2, <2>1 DEF DownIsSilent
      <3> QED
        BY <1>2, <2>t, <2>1, <3>1 DEF Fail
    <2>2. CASE /\ unsent' = [unsent EXCEPT ![t] = FALSE]
               /\ pc' = [pc EXCEPT ![t] = "read"]
               /\ UNCHANGED <<err, ret, reply>>
      BY <2>t, <2>2
    <2> QED
      BY <1>5, <2>1, <2>2
  <1>7. \A d \in Contexts \ {c} : toServer'[d] = toServer[d]
    BY <1>5 DEF TypeInv, TypeOK
  <1>8. phase' = phase /\ phase = "running"
    BY <1>1 DEF QuietBeforeCalls, startVars
  <1>9. QuietBeforeCalls' /\ NeverReattempts' /\ ReplyIsOwn'
    BY <1>1, <1>6, <1>8 DEF QuietBeforeCalls, NeverReattempts, ReplyIsOwn
  <1>10. WritesOwn'
    BY <1>1, <1>6 DEF WritesOwn
  <1>11. DownIsSilent'
    <2>1. CASE toServer' = toServer
      BY <1>1, <1>6, <2>1 DEF DownIsSilent, Silent
    <2>2. CASE ~err[c] /\ link[c] /\ err' = err
      BY <1>1, <1>7, <2>2 DEF DownIsSilent, Silent
    <2> QED
      BY <1>5, <2>1, <2>2
  <1>12. InFlightOwned'
    <2>1. ASSUME NEW d \in Contexts, toServer'[d] = toServer[d] PROVE Owned(d)'
      BY <1>1, <1>6, <2>1, OtherThreadKeepsOwner DEF InFlightOwned, Owned, TypeInv
    <2>2. CASE toServer' = toServer
      BY <2>1, <2>2 DEF InFlightOwned, Owned
    <2>3. CASE toServer' = [toServer EXCEPT ![c] = Append(@, <<t, call[t]>>)] /\ pc'[t] = "read"
      <3>1. toServer'[c] = << <<t, call[t]>> >>
        <4>1. toServer \in [Contexts -> Seq(Tickets)]
          BY DEF TypeInv, TypeOK
        <4>2. toServer[c] = <<>> /\ Append(<<>>, <<t, call[t]>>) = << <<t, call[t]>> >>
          BY <1>4 DEF Silent
        <4> QED
          BY <1>2, <2>3, <4>1, <4>2
      <3>2. CarriesCallOf(c, t)'
        BY <1>1, <1>4, <2>3, <3>1 DEF CarriesCallOf, Silent, c
      <3> QED
        BY <1>7, <2>1, <3>2 DEF InFlightOwned, Owned
    <2> QED
      BY <1>5, <2>2, <2>3 DEF TypeInv, TypeOK
  <1> QED
    BY <1>2, <1>9, <1>10, <1>11, <1>12

LEMMA ReadKeepsCalls ==
    ASSUME ThreadNum <= ConnectNum, CallInv, NEW t \in Threads, Read(t)
    PROVE  CallInv'
  <1> USE DEF CallInv
  <1> DEFINE c == GetRedisConnection(t)
  <1>1. /\ UNCHANGED <<startVars, call, resend, unsent, attempts, link, obuf, toServer>>
        /\ pc[t] = "read" /\ redisGetReplyInner(t, c)
    BY DEF Read
  <1>2. TypeInv' /\ c \in Contexts
    BY ReadKeepsTypes, ContextInRange
  <1>3. Silent(c) \/ CarriesCallOf(c, t)
    BY <1>2, OwnerIsThread DEF InFlightOwned, Owned
  <1> HIDE DEF c
  <1>4. \/ (err[c] \/ ~link[c]) /\ Fail(t, c) /\ UNCHANGED fromServer
        \/ /\ ~err[c] /\ link[c] /\ fromServer[c] # <<>>
           /\ fromServer' = [fromServer EXCEPT ![c] = Tail(@)]
           /\ \/ /\ reply' = [reply EXCEPT ![t] = Head(fromServer[c])]
                 /\ pc' = [pc EXCEPT ![t] = "check"]
                 /\ UNCHANGED err
              \/ Fail(t, c)
    BY <1>1 DEF redisGetReplyInner
  <1>5. /\ \A u \in Threads \ {t} : pc'[u] = pc[u] /\ reply'[u] = reply[u]
        /\ pc'[t] = "check"
        /\ \A d \in Contexts \ {c} : err'[d] = err[d]
        /\ \A d \in Contexts \ {c} : fromServer'[d] = fromServer[d]
    BY <1>2, <1>4 DEF Fail, TypeInv, TypeOK, DownIsSilent
  <1>6. phase' = phase /\ phase = "running"
    BY <1>1 DEF QuietBeforeCalls, startVars
  <1>7. QuietBeforeCalls' /\ NeverReattempts' /\ WritesOwn'
    BY <1>1, <1>5, <1>6 DEF QuietBeforeCalls, NeverReattempts, WritesOwn
  <1>8. Silent(c)' /\ (reply'[t] = reply[t] \/ reply'[t] = <<t, call[t]>>)
    <2>1. CASE err[c] \/ ~link[c]
      <3>1. Silent(c)
        BY <1>2, <2>1 DEF DownIsSilent
      <3> QED
        BY <1>1, <1>4, <2>1, <3>1 DEF Silent, Fail
    <2>2. CASE ~err[c] /\ link[c]
      <3>1. fromServer[c] = << <<t, call[t]>> >> /\ toServer[c] = <<>>
        BY <1>3, <1>4, <2>2 DEF Silent, CarriesCallOf
      <3>2. /\ Head(<< <<t, call[t]>> >>) = <<t, call[t]>>
            /\ Tail(<< <<t, call[t]>> >>) = <<>>
        OBVIOUS
      <3>3. fromServer'[c] = <<>> /\ (reply'[t] = reply[t] \/ reply'[t] = <<t, call[t]>>)
        <4>1. /\ fromServer \in [Contexts -> Seq(Tickets)]
              /\ reply \in [Threads -> Tickets \cup {NoTicket}]
          BY DEF TypeInv, TypeOK
        <4>2. /\ reply' = reply \/ reply' = [reply EXCEPT ![t] = Head(fromServer[c])]
              /\ fromServer' = [fromServer EXCEPT ![c] = Tail(@)]
          BY <1>4, <2>2 DEF Fail
        <4> QED
          BY <1>2, <3>1, <3>2, <4>1, <4>2
      <3> QED
        BY <1>1, <3>1, <3>3 DEF Silent
    <2> QED
      BY <2>1, <2>2
  <1>9. ReplyIsOwn'
    BY <1>1, <1>5, <1>8 DEF ReplyIsOwn
  <1>10. DownIsSilent'
    BY <1>1, <1>5, <1>8 DEF DownIsSilent, Silent
  <1>11. InFlightOwned'
    <2>1. ASSUME NEW d \in Contexts \ {c} PROVE Owned(d)'
      BY <1>1, <1>5, <2>1, OtherThreadKeepsOwner DEF InFlightOwned, Owned, TypeInv, c
    <2> QED
      BY <1>8, <2>1 DEF InFlightOwned, Owned
  <1> QED
    BY <1>2, <1>7, <1>9, <1>10, <1>11

LEMMA CheckReturnKeepsCalls ==
    ASSUME CallInv, NEW t \in Threads, CheckReturn(t)
    PROVE  CallInv'
  <1> USE DEF CallInv
  <1>1. /\ UNCHANGED <<startVars, call, resend, reply, ret, unsent, attempts, ctxVars, outages>>
        /\ pc[t] = "check"
    BY DEF CheckReturn
  <1>2. TypeInv'
    BY TypeStep DEF Next, CallStep
  <1>3. ~Reattempts(t)
    <2>1. ret[t] \in {0, -1}
      BY DEF TypeInv, TypeOK, REDIS_OK, REDIS_ERR
    <2> QED
      BY <2>1 DEF Reattempts, REDIS_ERR_IO
  <1>4. pc'[t] = "idle" /\ \A u \in Threads \ {t} : pc'[u] = pc[u]
    BY <1>3 DEF CheckReturn, TypeInv, TypeOK
  <1>5. QuietBeforeCalls' /\ NeverReattempts' /\ WritesOwn' /\ ReplyIsOwn' /\ DownIsSilent'
    BY <1>1, <1>4 DEF QuietBeforeCalls, NeverReattempts, WritesOwn, ReplyIsOwn, DownIsSilent,
                      Silent, startVars, ctxVars
  <1>6. InFlightOwned'
    <2>1. ASSUME NEW d \in Contexts PROVE Owned(d)'
      BY <1>1, <1>4, OtherThreadKeepsOwner DEF InFlightOwned, Owned, TypeInv, ctxVars
    <2> QED
      BY <2>1 DEF InFlightOwned, Owned
  <1> QED
    BY <1>2, <1>5, <1>6

(* Every step keeps the pairing, if no two threads share a context. *)
LEMMA CallStepInductive ==
    ASSUME ThreadNum <= ConnectNum, CallInv, [Next]_vars
    PROVE  CallInv'
  <1>1. CASE UNCHANGED vars
    <2>1. TypeInv'
      BY TypeStep DEF CallInv
    <2> QED
      BY <1>1, <2>1 DEF CallInv, QuietBeforeCalls, DownIsSilent, NeverReattempts, WritesOwn,
                        InFlightOwned, ReplyIsOwn, Silent, CarriesCallOf, vars, startVars,
                        callVars, ctxVars
  <1> QED
    BY <1>1, InitializeKeepsCalls, ServeKeepsCalls, LinkLostKeepsCalls, ExecCmdKeepsCalls,
       WriteKeepsCalls, ReadKeepsCalls, CheckReturnKeepsCalls DEF Next, CallStep

(***************************************************************************)
(* A sync call is given the reply to its own command, on every schedule of *)
(* threads, server and broken links, when threads do not outnumber the     *)
(* connections: the contexts, which have no lock, are then not shared.     *)
(***************************************************************************)
THEOREM ReplyPairing ==
    ASSUME ThreadNum <= ConnectNum
    PROVE  Spec => []ReplyIsOwn
  <1>1. CallInv => ReplyIsOwn
    BY DEF CallInv
  <1>2. CallInv /\ [Next]_vars => CallInv'
    BY CallStepInductive
  <1> QED
    BY CallInit, <1>1, <1>2, PTL DEF Spec

(***************************************************************************)
(* At most one command or reply is on a socket, and only while its caller  *)
(* waits for it: nothing is left behind for the context's next call.       *)
(***************************************************************************)
THEOREM SocketsCarryOneCall ==
    ASSUME ThreadNum <= ConnectNum
    PROVE  Spec => []OneInFlight
  <1>1. CallInv => OneInFlight
    <2> SUFFICES ASSUME CallInv, NEW c \in Contexts
                 PROVE  LET inFlight == toServer[c] \o fromServer[c]
                        IN  /\ Len(inFlight) <= 1
                            /\ \A i \in 1..Len(inFlight) :
                                  /\ pc[inFlight[i][1]] = "read"
                                  /\ call[inFlight[i][1]] = inFlight[i][2]
      BY DEF OneInFlight
    <2>1. CASE Silent(c)
      <3>1. toServer[c] \o fromServer[c] = <<>>
        BY <2>1 DEF Silent
      <3> QED
        BY <3>1
    <2>2. ASSUME NEW t \in Threads, CarriesCallOf(c, t)
          PROVE  toServer[c] \o fromServer[c] = << <<t, call[t]>> >> /\ pc[t] = "read"
      <3>1. \A x : <<>> \o <<x>> = <<x>> /\ <<x>> \o <<>> = <<x>>
        OBVIOUS
      <3> QED
        BY <2>2, <3>1 DEF CarriesCallOf
    <2>3. CASE ~Silent(c)
      <3>1. PICK t \in Threads : CarriesCallOf(c, t)
        BY <2>3 DEF CallInv, InFlightOwned
      <3>2. toServer[c] \o fromServer[c] = << <<t, call[t]>> >> /\ pc[t] = "read"
        BY <2>2, <3>1
      <3> QED
        BY <3>2
    <2> QED
      BY <2>1, <2>3
  <1>2. CallInv /\ [Next]_vars => CallInv'
    BY CallStepInductive
  <1> QED
    BY CallInit, <1>1, <1>2, PTL DEF Spec
=============================================================================
