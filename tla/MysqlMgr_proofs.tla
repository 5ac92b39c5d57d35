-------------------------- MODULE MysqlMgr_proofs ---------------------------
(***************************************************************************)
(* Theorems about MysqlMgr, for any number of handlers, ids, threads and   *)
(* databases.                                                              *)
(***************************************************************************)
EXTENDS MysqlMgr, FiniteSetTheorems, SequenceTheorems, TLAPS

USE DEF Workers, Queues

(* An id is turned into the index of one of the queue's asynchronous threads. *)
LEMMA ThreadIdxInRange ==
    \A id \in Ids : GetConnectionThreadIdx(id) \in Queues
  <1> TAKE id \in Ids
  <1>1. id % Word \in Int
    BY IdsAssumption
  <1>2. (id % Word) % AsyncConnectionNum \in 0..(AsyncConnectionNum - 1)
    BY <1>1, ConnectionNumAssumption
  <1> QED
    BY <1>2, ConnectionNumAssumption DEF GetConnectionThreadIdx

(* NoConn is no connection, and a connection's index is a thread's. *)
LEMMA ConnectionFacts ==
    /\ NoConn \notin Connections
    /\ \A c \in Connections : c[1] \in Names /\ c[2] \in Queues /\ c = <<c[1], c[2]>>
    /\ Queues \subseteq Workers
  BY NamesAssumption, ThreadCountAssumption, ConnectionNumAssumption DEF NoConn, Connections

(* GetDBConnection finds the thread's connection exactly for configured names. *)
LEMMA GetDBConnectionFacts ==
    ASSUME NEW t \in Queues, NEW name \in Names \cup {UnknownName}
    PROVE  /\ name \in Names => GetDBConnection(t, name) \in Connections
           /\ GetDBConnection(t, name) # NoConn
                => name \in Names /\ GetDBConnection(t, name) = <<name, t>>
  BY NamesAssumption DEF GetDBConnection, Connections, NoConn

-----------------------------------------------------------------------------
(* The empty values belong to their types. *)
LEMMA EmptyTypes ==
    /\ NoTicket \in Tickets
    /\ \A o \in Owners \cup {None}, n \in Nat : <<o, n>> \in Tickets
    /\ NoOutcome \in [ok : BOOLEAN, issued : Nat, of : Tickets]
  <1>1. NoTicket \in Tickets
    BY DEF Tickets, NoTicket
  <1>2. \A o \in Owners \cup {None}, n \in Nat : <<o, n>> \in Tickets
    BY DEF Tickets
  <1>3. NoOutcome \in [ok : BOOLEAN, issued : Nat, of : Tickets]
    BY <1>1 DEF NoOutcome
  <1> QED
    BY <1>1, <1>2, <1>3

(* The initial state is well typed. *)
LEMMA TypeInit == Init => TypeOK
  <1> SUFFICES ASSUME Init PROVE TypeOK
    OBVIOUS
  <1>1. hstate \in [Handlers -> States] /\ queue \in [Queues -> Seq(Handlers)]
    BY DEF Init, States
  <1>2. job \in [Handlers -> [id : Ids, conn : Connections, seq : Nat] \cup {NoJob}]
    BY DEF Init
  <1>3. /\ worker \in [Workers -> Owners \cup {None}]
        /\ sqlAt \in [Workers -> Connections \cup {NoConn}]
    BY DEF Init
  <1>4. ret \in [Workers -> BOOLEAN] /\ aborted \in BOOLEAN
    BY DEF Init
  <1>5. /\ unread \in [Connections -> Tickets]
        /\ errOf \in [Connections -> Tickets]
        /\ outcome \in [Handlers -> [ok : BOOLEAN, issued : Nat, of : Tickets]]
    BY EmptyTypes DEF Init
  <1>6. issued \in [Workers -> Nat] /\ createBaseCount \in Nat /\ releaseBaseCount \in Nat
    BY DEF Init
  <1> QED
    BY <1>1, <1>2, <1>3, <1>4, <1>5, <1>6 DEF TypeOK

(* A handler on a worker has been pushed, so its job names a connection. *)
LEMMA RunningHasConnection ==
    ASSUME TypeOK, JobsPlaced, WorkersExecute, NEW t \in Workers, worker[t] \in Handlers
    PROVE  /\ job[worker[t]] \in [id : Ids, conn : Connections, seq : Nat]
           /\ job[worker[t]].conn \in Connections
           /\ job[worker[t]].conn[2] = t
           /\ hstate[worker[t]] = "executing"
  BY DEF TypeOK, JobsPlaced, WorkersExecute, Thread

(* Every step keeps the types. *)
LEMMA TypeStep ==
    ASSUME TypeOK, JobsPlaced, WorkersExecute, [Next]_vars
    PROVE  TypeOK'
  <1> USE DEF TypeOK
  <1>1. ASSUME NEW h \in Handlers, NEW id \in Ids, NEW name \in Names \cup {UnknownName},
               PushMysqlHandler(h, id, name)
        PROVE  TypeOK'
    <2> DEFINE t == GetConnectionThreadIdx(id)
    <2>1. CASE Abort
      BY <2>1 DEF Abort
    <2>2. CASE hstate[h] = "new" /\ GetDBConnection(t, name) # NoConn
      <3>1. t \in Queues /\ GetDBConnection(t, name) \in Connections
        BY <2>2, ThreadIdxInRange, GetDBConnectionFacts
      <3>q. queue' = [queue EXCEPT ![t] = Append(@, h)]
        BY <1>1, <2>2 DEF PushMysqlHandler
      <3>2. queue' \in [Queues -> Seq(Handlers)]
        BY <3>q, <3>1
      <3>3. job' \in [Handlers -> [id : Ids, conn : Connections, seq : Nat] \cup {NoJob}]
        BY <1>1, <2>2, <3>1 DEF PushMysqlHandler
      <3>4. hstate' \in [Handlers -> States]
        BY <1>1, <2>2 DEF PushMysqlHandler, States
      <3>5. createBaseCount' \in Nat
        BY <1>1, <2>2 DEF PushMysqlHandler
      <3>6. UNCHANGED <<worker, sqlAt, issued, ret, unread, errOf, outcome, releaseBaseCount, aborted>>
        BY <1>1, <2>2 DEF PushMysqlHandler
      <3> QED
        BY <3>2, <3>3, <3>4, <3>5, <3>6
    <2> QED
      BY <1>1, <2>1, <2>2 DEF PushMysqlHandler
  <1>2. ASSUME NEW t \in Queues, OnExecuteBegin(t)
        PROVE  TypeOK'
    <2>h. queue[t] \in Seq(Handlers) /\ queue[t] # <<>>
      BY <1>2 DEF OnExecuteBegin
    <2>1. Head(queue[t]) \in Handlers /\ Tail(queue[t]) \in Seq(Handlers)
      BY <2>h, HeadTailProperties
    <2>q. queue' = [queue EXCEPT ![t] = Tail(@)]
      BY <1>2 DEF OnExecuteBegin
    <2>2. queue' \in [Queues -> Seq(Handlers)]
      BY <2>q, <2>1
    <2>3. hstate' \in [Handlers -> States]
      BY <1>2, <2>1 DEF OnExecuteBegin, States
    <2>4. worker' \in [Workers -> Owners \cup {None}]
      BY <1>2, <2>1 DEF OnExecuteBegin, Owners
    <2>5. UNCHANGED <<job, sqlAt, issued, ret, unread, errOf, outcome, createBaseCount, releaseBaseCount, aborted>>
      BY <1>2 DEF OnExecuteBegin
    <2> QED
      BY <2>2, <2>3, <2>4, <2>5
  <1>3. ASSUME NEW t \in Workers, CallFun(t)
        PROVE  TypeOK'
    <2>1. job[worker[t]].conn \in Connections \cup {NoConn}
      BY <1>3 DEF CallFun, NoJob
    <2>2. /\ sqlAt' \in [Workers -> Connections \cup {NoConn}]
          /\ issued' \in [Workers -> Nat]
      BY <1>3, <2>1 DEF CallFun
    <2>3. UNCHANGED <<hstate, job, queue, worker, ret, unread, errOf, outcome, createBaseCount, releaseBaseCount, aborted>>
      BY <1>3 DEF CallFun
    <2> QED
      BY <2>2, <2>3
  <1>4. ASSUME NEW t \in Workers, NEW ok \in BOOLEAN, NEW rows \in BOOLEAN,
               NEW taken \in BOOLEAN, ExecuteReturns(t, ok, rows, taken)
        PROVE  TypeOK'
    <2>1. <<worker[t], issued[t]>> \in Tickets
      BY EmptyTypes
    <2>2. /\ unread' \in [Connections -> Tickets]
          /\ errOf' \in [Connections -> Tickets]
      BY <1>4, <2>1, EmptyTypes DEF ExecuteReturns
    <2>3. ret' \in [Workers -> BOOLEAN]
      BY <1>4 DEF ExecuteReturns
    <2>4. sqlAt' \in [Workers -> Connections \cup {NoConn}]
      BY <1>4 DEF ExecuteReturns
    <2> QED
      BY <1>4, <2>2, <2>3, <2>4 DEF ExecuteReturns
  <1>5. ASSUME NEW t \in Workers, NEW name \in Names, EscapeEmptyString(t, name)
        PROVE  TypeOK'
    <2>1. CASE Abort
      BY <2>1 DEF Abort
    <2>2. CASE ~Abort
      <3>e. \E c \in Connections : /\ unread' = [unread EXCEPT ![c] = NoTicket]
                                  /\ errOf' = [errOf EXCEPT ![c] = NoTicket]
        BY <1>5, <2>2, Zenon DEF EscapeEmptyString
      <3>1. /\ unread' \in [Connections -> Tickets]
            /\ errOf' \in [Connections -> Tickets]
        BY <3>e, EmptyTypes
      <3>2. UNCHANGED <<hstate, job, queue, worker, sqlAt, issued, ret, outcome, createBaseCount, releaseBaseCount, aborted>>
        BY <1>5, <2>2 DEF EscapeEmptyString
      <3> QED
        BY <3>1, <3>2
    <2> QED
      BY <2>1, <2>2
  <1>6. ASSUME NEW t \in Workers, OnExecuteEnd(t)
        PROVE  TypeOK'
    <2> DEFINE h == worker[t]
               c == job[h].conn
    <2>1. h \in Handlers /\ c \in Connections
      BY <1>6, RunningHasConnection DEF OnExecuteEnd
    <2>2. outcome' \in [Handlers -> [ok : BOOLEAN, issued : Nat, of : Tickets]]
      <3>1. Store(c, ret[t]).of \in Tickets
        BY <2>1, EmptyTypes DEF Store
      <3>2. outcome' = [outcome EXCEPT ![h] =
                          [ok |-> ret[t], issued |-> issued[t], of |-> Store(c, ret[t]).of]]
        BY <1>6 DEF OnExecuteEnd
      <3> QED
        BY <2>1, <3>1, <3>2
    <2>3. unread' \in [Connections -> Tickets]
      BY <1>6, <2>1, EmptyTypes DEF OnExecuteEnd, Store
    <2>4. hstate' \in [Handlers -> States] /\ worker' \in [Workers -> Owners \cup {None}]
      BY <1>6, <2>1 DEF OnExecuteEnd, States
    <2>5. issued' \in [Workers -> Nat] /\ ret' \in [Workers -> BOOLEAN]
      BY <1>6 DEF OnExecuteEnd
    <2> QED
      BY <1>6, <2>2, <2>3, <2>4, <2>5 DEF OnExecuteEnd
  <1>7. ASSUME NEW t \in Workers, ForeignBegin(t) \/ ForeignEnd(t)
        PROVE  TypeOK'
    <2>1. /\ worker' \in [Workers -> Owners \cup {None}]
          /\ issued' \in [Workers -> Nat]
      BY <1>7 DEF ForeignBegin, ForeignEnd, Owners
    <2>2. ret' \in [Workers -> BOOLEAN]
      BY <1>7 DEF ForeignBegin, ForeignEnd
    <2>3. UNCHANGED <<hstate, job, queue, sqlAt, unread, errOf, outcome, createBaseCount, releaseBaseCount, aborted>>
      BY <1>7 DEF ForeignBegin, ForeignEnd
    <2> QED
      BY <2>1, <2>2, <2>3
  <1>8. ASSUME NEW t \in Workers, NEW name \in Names, ExecSqlInAsyncThread(t, name)
        PROVE  TypeOK'
    <2>1. CASE Abort
      BY <2>1 DEF Abort
    <2>2. CASE CheckThreadIdx(t)
      <3>1. t \in Queues
        BY <2>2, ConnectionNumAssumption DEF CheckThreadIdx
      <3>2. GetDBConnection(t, name) \in Connections
        BY <3>1, GetDBConnectionFacts
      <3> QED
        <4>e. /\ sqlAt' = [sqlAt EXCEPT ![t] = GetDBConnection(t, name)]
              /\ issued' = [issued EXCEPT ![t] = @ + 1]
          BY <1>8, <2>2, Zenon DEF ExecSqlInAsyncThread
        <4>s. sqlAt' \in [Workers -> Connections \cup {NoConn}]
          BY <3>2, <4>e, Zenon
        <4>i. issued' \in [Workers -> Nat]
          BY <4>e, SMTT(30)
        <4>1. /\ sqlAt' \in [Workers -> Connections \cup {NoConn}]
              /\ issued' \in [Workers -> Nat]
          BY <4>s, <4>i
        <4>2. UNCHANGED <<hstate, job, queue, worker, ret, unread, errOf, outcome, createBaseCount, releaseBaseCount, aborted>>
          BY <1>8, <2>2 DEF ExecSqlInAsyncThread
        <4> QED
          BY <4>1, <4>2
    <2> QED
      BY <1>8, <2>1, <2>2 DEF ExecSqlInAsyncThread
  <1>9. ASSUME NEW h \in Handlers, Notify(h) \/ OnRelease(h) \/ DeleteBase(h)
        PROVE  TypeOK'
    <2>1. hstate' \in [Handlers -> States]
      BY <1>9 DEF Notify, OnRelease, DeleteBase, States
    <2>2. releaseBaseCount' \in Nat
      BY <1>9 DEF Notify, OnRelease, DeleteBase
    <2>3. UNCHANGED <<job, queue, worker, sqlAt, issued, ret, unread, errOf, outcome, createBaseCount, aborted>>
      BY <1>9 DEF Notify, OnRelease, DeleteBase
    <2> QED
      BY <2>1, <2>2, <2>3
  <1>10. CASE UNCHANGED vars
    BY <1>10 DEF vars
  <1> QED
    BY <1>1, <1>2, <1>3, <1>4, <1>5, <1>6, <1>7, <1>8, <1>9, <1>10
       DEF Next, WorkerNext, MainNext

-----------------------------------------------------------------------------
(* A pushed handler's job is a job record on one of the queues' threads. *)
LEMMA PushedHasThread ==
    ASSUME TypeOK, JobsPlaced, NEW h \in Handlers, hstate[h] # "new"
    PROVE  /\ job[h] \in [id : Ids, conn : Connections, seq : Nat]
           /\ Thread(h) \in Queues
           /\ job[h].seq \in Nat
  <1>1. job[h] \in [id : Ids, conn : Connections, seq : Nat]
    BY DEF TypeOK, JobsPlaced
  <1> QED
    BY <1>1, ConnectionFacts DEF Thread

(* The order invariant holds initially. *)
LEMMA OrderInit == Init => OrderInv
  <1> SUFFICES ASSUME Init PROVE OrderInv
    OBVIOUS
  <1>1. JobsPlaced /\ QueuedAreInQueues
    BY DEF Init, JobsPlaced, QueuedAreInQueues
  <1>2. QueuesHoldQueued /\ QueuesSorted
    BY DEF Init, QueuesHoldQueued, QueuesSorted
  <1>3. WorkersExecute
    BY OwnersAssumption DEF Init, WorkersExecute
  <1>4. InOrder
    BY DEF Init, InOrder, Pushed
  <1> QED
    BY <1>1, <1>2, <1>3, <1>4, TypeInit DEF OrderInv

(* What the order invariant depends on. *)
orderVars == <<hstate, job, queue, worker, createBaseCount>>

(* PushMysqlHandler appends at the end with the highest push number. *)
LEMMA PushKeepsOrder ==
    ASSUME OrderInv, NEW h \in Handlers, NEW id \in Ids,
           NEW name \in Names \cup {UnknownName},
           PushMysqlHandler(h, id, name), ~Abort
    PROVE  /\ JobsPlaced' /\ QueuesHoldQueued' /\ QueuedAreInQueues'
           /\ QueuesSorted' /\ WorkersExecute' /\ InOrder'
  <1> DEFINE t == GetConnectionThreadIdx(id)
             c == GetDBConnection(t, name)
  <1> USE DEF OrderInv
  <1>1. /\ hstate[h] = "new" /\ c # NoConn
        /\ hstate' = [hstate EXCEPT ![h] = "queued"]
        /\ job' = [job EXCEPT ![h] = [id |-> id, conn |-> c, seq |-> createBaseCount]]
        /\ createBaseCount' = createBaseCount + 1
        /\ queue' = [queue EXCEPT ![t] = Append(@, h)]
        /\ worker' = worker
    BY Zenon DEF PushMysqlHandler
  <1>2. t \in Queues /\ c \in Connections /\ c[2] = t
    BY <1>1, ThreadIdxInRange, GetDBConnectionFacts
  <1>3. /\ hstate'[h] = "queued" /\ job'[h].id = id /\ job'[h].seq = createBaseCount
        /\ Thread(h)' = t /\ job'[h] # NoJob
    BY <1>1, <1>2, ConnectionFacts DEF TypeOK, Thread, NoJob
  <1>4. \A g \in Handlers : g # h => hstate'[g] = hstate[g] /\ job'[g] = job[g]
                                     /\ Thread(g)' = Thread(g)
    BY <1>1 DEF TypeOK, Thread
  <1>5. \A s \in Queues : queue[s] \in Seq(Handlers)
    BY DEF TypeOK
  <1>6. /\ queue'[t] = Append(queue[t], h)
        /\ Len(queue'[t]) = Len(queue[t]) + 1
        /\ \A i \in 1..Len(queue[t]) : queue'[t][i] = queue[t][i]
        /\ queue'[t][Len(queue[t]) + 1] = h
        /\ Len(queue[t]) \in Nat
    BY <1>1, <1>2, <1>5 DEF TypeOK
  <1>7. \A s \in Queues : s # t => queue'[s] = queue[s]
    BY <1>1 DEF TypeOK
  <1>8. \A s \in Queues : \A i \in 1..Len(queue[s]) : queue[s][i] \in Handlers /\ queue[s][i] # h
    BY <1>1, <1>5 DEF QueuesHoldQueued
  <1>9. createBaseCount \in Nat /\ \A g \in Handlers : hstate[g] # "new" => job[g].seq \in Nat
    BY PushedHasThread DEF TypeOK
  <1>10. JobsPlaced'
    BY <1>1, <1>3, <1>4, <1>9 DEF JobsPlaced, GetConnectionThreadIdx
  <1>11. QueuesHoldQueued'
    <2> SUFFICES ASSUME NEW s \in Queues, NEW i \in 1..Len(queue'[s])
                 PROVE  /\ hstate'[queue'[s][i]] = "queued"
                        /\ job'[queue'[s][i]].conn[2] = s
      BY DEF QueuesHoldQueued, Thread
    <2>1. CASE s = t /\ i = Len(queue[t]) + 1
      BY <2>1, <1>3, <1>6 DEF Thread
    <2>2. CASE i \in 1..Len(queue[s])
      <3>1. queue'[s][i] = queue[s][i]
        BY <2>2, <1>6, <1>7
      <3> QED
        BY <2>2, <3>1, <1>4, <1>8 DEF QueuesHoldQueued, Thread
    <2> QED
      BY <2>1, <2>2, <1>6, <1>7
  <1>12. QueuedAreInQueues'
    <2> SUFFICES ASSUME NEW g \in Handlers, hstate'[g] = "queued"
                 PROVE  \E i \in 1..Len(queue'[Thread(g)']) : queue'[Thread(g)'][i] = g
      BY DEF QueuedAreInQueues
    <2>1. CASE g = h
      <3>1. Len(queue[t]) + 1 \in 1..Len(queue'[t])
        BY <1>6
      <3> QED
        BY <2>1, <3>1, <1>3, <1>6
    <2>2. CASE g # h
      <3>1. hstate[g] = "queued" /\ Thread(g)' = Thread(g) /\ Thread(g) \in Queues
        BY <2>2, <1>4, PushedHasThread
      <3>2. PICK i \in 1..Len(queue[Thread(g)]) : queue[Thread(g)][i] = g
        BY <3>1 DEF QueuedAreInQueues
      <3>3. i \in 1..Len(queue'[Thread(g)]) /\ queue'[Thread(g)][i] = g
        BY <3>1, <3>2, <1>6, <1>7
      <3> QED
        BY <3>1, <3>3
    <2> QED
      BY <2>1, <2>2
  <1>13. QueuesSorted'
    <2> SUFFICES ASSUME NEW s \in Queues, NEW i \in 1..Len(queue'[s]),
                        NEW j \in 1..Len(queue'[s]), i < j
                 PROVE  job'[queue'[s][i]].seq < job'[queue'[s][j]].seq
      BY DEF QueuesSorted
    <2>1. i \in 1..Len(queue[s]) /\ queue'[s][i] = queue[s][i]
      BY <1>5, <1>6, <1>7, SMTT(30)
    <2>2. queue[s][i] \in Handlers /\ job'[queue[s][i]] = job[queue[s][i]]
          /\ hstate[queue[s][i]] = "queued"
      BY <2>1, <1>4, <1>8 DEF QueuesHoldQueued
    <2>3. CASE s = t /\ j = Len(queue[t]) + 1
      BY <2>1, <2>2, <2>3, <1>3, <1>6 DEF JobsPlaced
    <2>4. CASE j \in 1..Len(queue[s])
      <3>1. queue'[s][j] = queue[s][j]
        BY <2>4, <1>6, <1>7
      <3> QED
        BY <2>1, <2>2, <2>4, <3>1, <1>4, <1>8 DEF QueuesSorted
    <2> QED
      BY <2>3, <2>4, <1>6, <1>7
  <1>14. WorkersExecute'
    BY <1>1, <1>3, <1>4 DEF WorkersExecute
  <1>15. InOrder'
    <2> SUFFICES ASSUME NEW g \in Handlers, NEW k \in Handlers,
                        hstate'[g] \in Pushed, hstate'[k] \in Begun,
                        Thread(g)' = Thread(k)', job'[g].seq < job'[k].seq
                 PROVE  hstate'[g] \in Ended
      BY DEF InOrder
    <2>1. k # h /\ hstate[k] \in Begun /\ hstate[k] # "new"
      BY <1>3, <1>4 DEF Begun, Pushed, States
    <2>2. g # h
      BY <2>1, <1>3, <1>4, <1>9 DEF JobsPlaced
    <2> QED
      BY <2>1, <2>2, <1>4 DEF InOrder
  <1> QED
    BY <1>10, <1>11, <1>12, <1>13, <1>14, <1>15

(* A worker starts the handler with the lowest push number of its queue. *)
LEMMA BeginKeepsOrder ==
    ASSUME OrderInv, NEW t \in Queues, OnExecuteBegin(t)
    PROVE  /\ JobsPlaced' /\ QueuesHoldQueued' /\ QueuedAreInQueues'
           /\ QueuesSorted' /\ WorkersExecute' /\ InOrder'
  <1> DEFINE h == Head(queue[t])
  <1> USE DEF OrderInv
  <1>1. /\ queue[t] # <<>> /\ worker[t] = None
        /\ hstate' = [hstate EXCEPT ![h] = "executing"]
        /\ worker' = [worker EXCEPT ![t] = h]
        /\ queue' = [queue EXCEPT ![t] = Tail(@)]
        /\ job' = job /\ createBaseCount' = createBaseCount
    BY DEF OnExecuteBegin
  <1>2. /\ queue[t] \in Seq(Handlers) /\ Len(queue[t]) \in Nat \ {0}
        /\ h = queue[t][1] /\ h \in Handlers
        /\ queue'[t] = Tail(queue[t])
        /\ Len(queue'[t]) = Len(queue[t]) - 1
        /\ \A i \in 1..(Len(queue[t]) - 1) : queue'[t][i] = queue[t][i + 1]
    <2>1. queue[t] \in Seq(Handlers) /\ queue[t] # <<>>
      BY <1>1 DEF TypeOK
    <2>2. queue'[t] = Tail(queue[t])
      BY <1>1 DEF TypeOK
    <2>3. Len(queue[t]) \in Nat \ {0} /\ h = queue[t][1] /\ h \in Handlers
      BY <2>1
    <2>4. Len(Tail(queue[t])) = Len(queue[t]) - 1
      BY <2>1, <2>3
    <2>5. \A i \in 1..(Len(queue[t]) - 1) : Tail(queue[t])[i] = queue[t][i + 1]
      BY <2>1, <2>3
    <2> QED
      BY <2>1, <2>2, <2>3, <2>4, <2>5
  <1>3. \A s \in Queues : s # t => queue'[s] = queue[s]
    BY <1>1 DEF TypeOK
  <1>4. 1 \in 1..Len(queue[t]) /\ hstate[h] = "queued" /\ Thread(h) = t
    BY <1>2 DEF QueuesHoldQueued
  <1>5. \A s \in Queues : queue[s] \in Seq(Handlers)
    BY DEF TypeOK
  <1>6. \A g \in Handlers : Thread(g)' = Thread(g)
    BY <1>1 DEF Thread
  <1>7. hstate'[h] = "executing" /\ \A g \in Handlers : g # h => hstate'[g] = hstate[g]
    BY <1>1, <1>2 DEF TypeOK
  <1>8. worker'[t] = h /\ \A s \in Workers : s # t => worker'[s] = worker[s]
    BY <1>1, ConnectionFacts DEF TypeOK
  <1>9. \A g \in Handlers : hstate[g] # "new" => job[g].seq \in Nat /\ Thread(g) \in Queues
    BY PushedHasThread
  <1>10. JobsPlaced'
    BY <1>1, <1>4, <1>6, <1>7 DEF JobsPlaced, GetConnectionThreadIdx
  <1>11. \A i \in 1..Len(queue[t]) : i # 1 => queue[t][i] # h
    <2> SUFFICES ASSUME NEW i \in 1..Len(queue[t]), i # 1, queue[t][i] = h
                 PROVE  FALSE
      OBVIOUS
    <2>1. job[queue[t][1]].seq < job[queue[t][i]].seq
      BY <1>2, <1>4 DEF QueuesSorted
    <2> QED
      BY <2>1, <1>2, <1>4, <1>9
  <1>12. QueuesHoldQueued'
    <2> SUFFICES ASSUME NEW s \in Queues, NEW i \in 1..Len(queue'[s])
                 PROVE  /\ hstate'[queue'[s][i]] = "queued"
                        /\ job'[queue'[s][i]].conn[2] = s
      BY DEF QueuesHoldQueued, Thread
    <2>1. CASE s = t
      <3>1. i + 1 \in 1..Len(queue[t]) /\ i + 1 # 1 /\ queue'[t][i] = queue[t][i + 1]
        BY <2>1, <1>2
      <3>2. queue[t][i + 1] \in Handlers /\ queue[t][i + 1] # h
        BY <3>1, <1>2, <1>11
      <3> QED
        BY <2>1, <3>1, <3>2, <1>1, <1>7 DEF QueuesHoldQueued, Thread
    <2>2. CASE s # t
      <3>1. queue'[s] = queue[s] /\ queue[s][i] \in Handlers
            /\ hstate[queue[s][i]] = "queued" /\ Thread(queue[s][i]) = s
        BY <2>2, <1>3, <1>5 DEF QueuesHoldQueued
      <3>2. queue[s][i] # h
        BY <2>2, <3>1, <1>4
      <3> QED
        BY <3>1, <3>2, <1>1, <1>7 DEF Thread
    <2> QED
      BY <2>1, <2>2
  <1>13. QueuedAreInQueues'
    <2> SUFFICES ASSUME NEW g \in Handlers, hstate'[g] = "queued"
                 PROVE  \E i \in 1..Len(queue'[Thread(g)']) : queue'[Thread(g)'][i] = g
      BY DEF QueuedAreInQueues
    <2>1. g # h /\ hstate[g] = "queued" /\ Thread(g)' = Thread(g) /\ Thread(g) \in Queues
      BY <1>6, <1>7, <1>9
    <2>2. PICK i \in 1..Len(queue[Thread(g)]) : queue[Thread(g)][i] = g
      BY <2>1 DEF QueuedAreInQueues
    <2>3. CASE Thread(g) = t
      <3>1. i # 1 /\ i - 1 \in 1..(Len(queue[t]) - 1)
        BY <2>1, <2>2, <2>3, <1>2
      <3>2. queue'[t][i - 1] = g /\ i - 1 \in 1..Len(queue'[t])
        BY <2>2, <2>3, <3>1, <1>2
      <3> QED
        BY <2>1, <2>3, <3>2
    <2>4. CASE Thread(g) # t
      BY <2>1, <2>2, <2>4, <1>3
    <2> QED
      BY <2>3, <2>4
  <1>14. QueuesSorted'
    <2> SUFFICES ASSUME NEW s \in Queues, NEW i \in 1..Len(queue'[s]),
                        NEW j \in 1..Len(queue'[s]), i < j
                 PROVE  job'[queue'[s][i]].seq < job'[queue'[s][j]].seq
      BY DEF QueuesSorted
    <2>1. CASE s = t
      <3>1. /\ i + 1 \in 1..Len(queue[t]) /\ j + 1 \in 1..Len(queue[t]) /\ i + 1 < j + 1
            /\ queue'[t][i] = queue[t][i + 1] /\ queue'[t][j] = queue[t][j + 1]
        BY <2>1, <1>2
      <3> QED
        BY <2>1, <3>1, <1>1 DEF QueuesSorted
    <2>2. CASE s # t
      BY <2>2, <1>1, <1>3 DEF QueuesSorted
    <2> QED
      BY <2>1, <2>2
  <1>15. WorkersExecute'
    <2>1. ASSUME NEW s \in Workers, worker'[s] \in Handlers
          PROVE  hstate'[worker'[s]] = "executing" /\ job'[worker'[s]].conn[2] = s
      <3>1. CASE s = t
        BY <3>1, <1>1, <1>2, <1>4, <1>7, <1>8 DEF Thread
      <3>2. CASE s # t
        BY <2>1, <3>2, <1>1, <1>2, <1>7, <1>8 DEF WorkersExecute, Thread
      <3> QED
        BY <3>1, <3>2
    <2>2. ASSUME NEW g \in Handlers, hstate'[g] = "executing"
          PROVE  worker'[Thread(g)'] = g
      <3>1. CASE g = h
        BY <3>1, <1>4, <1>6, <1>8
      <3>2. CASE g # h
        <4>1. hstate[g] = "executing" /\ worker[Thread(g)] = g
          BY <2>2, <3>2, <1>7 DEF WorkersExecute
        <4>2. Thread(g) # t
          BY <4>1, <1>1, OwnersAssumption
        <4> QED
          BY <4>1, <4>2, <1>6, <1>8, <1>9, ConnectionFacts
      <3> QED
        BY <3>1, <3>2
    <2> QED
      BY <2>1, <2>2 DEF WorkersExecute, Thread
  <1>16. InOrder'
    <2> SUFFICES ASSUME NEW g \in Handlers, NEW k \in Handlers,
                        hstate'[g] \in Pushed, hstate'[k] \in Begun,
                        Thread(g)' = Thread(k)', job'[g].seq < job'[k].seq
                 PROVE  hstate'[g] \in Ended
      BY DEF InOrder
    <2>1. Thread(g) = Thread(k) /\ job[g].seq < job[k].seq
      BY <1>1, <1>6
    <2>2. hstate[g] \in Pushed /\ hstate[g] # "new"
      BY <1>4, <1>7 DEF Pushed, States
    <2>3. CASE k = h
      <3>1. g # h
        BY <2>1, <2>2, <2>3, <1>9
      <3>2. hstate[g] # "queued"
        <4> SUFFICES ASSUME hstate[g] = "queued" PROVE FALSE
          OBVIOUS
        <4>1. PICK i \in 1..Len(queue[t]) : queue[t][i] = g
          BY <2>1, <2>3, <1>4 DEF QueuedAreInQueues
        <4>2. job[h].seq < job[g].seq
          BY <3>1, <4>1, <1>2, <1>4 DEF QueuesSorted
        <4> QED
          BY <2>1, <2>2, <2>3, <4>2, <1>4, <1>9
      <3>3. hstate[g] # "executing"
        BY <2>1, <2>3, <1>1, <1>4, OwnersAssumption DEF WorkersExecute
      <3> QED
        BY <2>2, <3>1, <3>2, <3>3, <1>7 DEF Pushed, Begun, Ended, States
    <2>4. CASE k # h
      <3>1. hstate[k] \in Begun
        BY <2>4, <1>7
      <3>2. hstate[g] \in Ended
        BY <2>1, <2>2, <3>1 DEF InOrder
      <3>3. g # h
        BY <3>2, <1>4 DEF Ended, Begun, Pushed, States
      <3> QED
        BY <3>2, <3>3, <1>7
    <2> QED
      BY <2>3, <2>4
  <1> QED
    BY <1>10, <1>12, <1>13, <1>14, <1>15, <1>16

(* Steps that leave the order's variables alone keep the order. *)
LEMMA UnchangedKeepsOrder ==
    ASSUME OrderInv, UNCHANGED orderVars
    PROVE  /\ JobsPlaced' /\ QueuesHoldQueued' /\ QueuedAreInQueues'
           /\ QueuesSorted' /\ WorkersExecute' /\ InOrder'
  <1> USE DEF OrderInv, orderVars
  <1>1. JobsPlaced'
    BY DEF JobsPlaced, Thread, GetConnectionThreadIdx
  <1>2. QueuesHoldQueued' /\ QueuedAreInQueues'
    BY DEF QueuesHoldQueued, QueuedAreInQueues, Thread
  <1>3. QueuesSorted'
    BY DEF QueuesSorted
  <1>4. WorkersExecute' /\ InOrder'
    BY DEF WorkersExecute, InOrder, Thread
  <1> QED
    BY <1>1, <1>2, <1>3, <1>4

(* Handlers of other modules occupy a worker, and leave the order alone. *)
LEMMA ForeignKeepsOrder ==
    ASSUME OrderInv, NEW t \in Workers, ForeignBegin(t) \/ ForeignEnd(t)
    PROVE  /\ JobsPlaced' /\ QueuesHoldQueued' /\ QueuedAreInQueues'
           /\ QueuesSorted' /\ WorkersExecute' /\ InOrder'
  <1> USE DEF OrderInv
  <1>1. UNCHANGED <<hstate, job, queue, createBaseCount>>
    BY DEF ForeignBegin, ForeignEnd
  <1>2. worker[t] \notin Handlers
    BY OwnersAssumption DEF ForeignBegin, ForeignEnd
  <1>3. worker'[t] \notin Handlers /\ \A s \in Workers : s # t => worker'[s] = worker[s]
    BY OwnersAssumption DEF ForeignBegin, ForeignEnd, TypeOK
  <1>4. JobsPlaced'
    BY <1>1 DEF JobsPlaced, Thread, GetConnectionThreadIdx
  <1>5. QueuesHoldQueued' /\ QueuedAreInQueues'
    BY <1>1 DEF QueuesHoldQueued, QueuedAreInQueues, Thread
  <1>6. QueuesSorted' /\ InOrder'
    BY <1>1 DEF QueuesSorted, InOrder, Thread
  <1>7. WorkersExecute'
    <2>1. ASSUME NEW s \in Workers, worker'[s] \in Handlers
          PROVE  hstate'[worker'[s]] = "executing" /\ job'[worker'[s]].conn[2] = s
      BY <2>1, <1>1, <1>3 DEF WorkersExecute, Thread
    <2>2. ASSUME NEW g \in Handlers, hstate'[g] = "executing"
          PROVE  worker'[job'[g].conn[2]] = g
      <3>1. worker[Thread(g)] = g /\ Thread(g) \in Workers
        BY <2>2, <1>1, PushedHasThread, ConnectionFacts DEF WorkersExecute
      <3> QED
        BY <3>1, <1>1, <1>2, <1>3 DEF Thread
    <2> QED
      BY <2>1, <2>2 DEF WorkersExecute, Thread
  <1> QED
    BY <1>4, <1>5, <1>6, <1>7

(* Moving a handler from one state past "queued" to a later one keeps the order. *)
LEMMA AdvanceKeepsOrder ==
    ASSUME OrderInv, NEW h \in Handlers, NEW st \in Ended,
           hstate[h] \in Begun, hstate' = [hstate EXCEPT ![h] = st],
           UNCHANGED <<job, queue, createBaseCount>>
    PROVE  /\ JobsPlaced' /\ QueuesHoldQueued' /\ QueuedAreInQueues'
           /\ QueuesSorted' /\ InOrder'
  <1> USE DEF OrderInv
  <1>1. hstate'[h] = st /\ \A g \in Handlers : g # h => hstate'[g] = hstate[g]
    BY DEF TypeOK
  <1>2. hstate[h] # "queued" /\ hstate[h] # "new" /\ st # "queued" /\ st # "new"
        /\ st \in Ended /\ st \in Begun /\ st \in Pushed /\ hstate[h] \in Pushed
    BY DEF Ended, Begun, Pushed, States
  <1>3. JobsPlaced'
    BY <1>1, <1>2 DEF JobsPlaced, Thread, GetConnectionThreadIdx
  <1>4. QueuesHoldQueued'
    <2> SUFFICES ASSUME NEW s \in Queues, NEW i \in 1..Len(queue[s])
                 PROVE  /\ hstate'[queue[s][i]] = "queued"
                        /\ job[queue[s][i]].conn[2] = s
      BY DEF QueuesHoldQueued, Thread
    <2>1. queue[s] \in Seq(Handlers)
      BY DEF TypeOK
    <2>2. queue[s][i] \in Handlers /\ hstate[queue[s][i]] = "queued" /\ Thread(queue[s][i]) = s
      BY <2>1 DEF QueuesHoldQueued
    <2> QED
      BY <2>2, <1>1, <1>2 DEF Thread
  <1>5. QueuedAreInQueues'
    BY <1>1, <1>2 DEF QueuedAreInQueues, Thread
  <1>6. QueuesSorted'
    BY DEF QueuesSorted
  <1>7. InOrder'
    <2> SUFFICES ASSUME NEW g \in Handlers, NEW k \in Handlers,
                        hstate'[g] \in Pushed, hstate'[k] \in Begun,
                        Thread(g)' = Thread(k)', job'[g].seq < job'[k].seq
                 PROVE  hstate'[g] \in Ended
      BY DEF InOrder
    <2>1. Thread(g) = Thread(k) /\ job[g].seq < job[k].seq
      BY DEF Thread
    <2>2. hstate[g] \in Pushed /\ hstate[k] \in Begun
      BY <1>1, <1>2
    <2>3. hstate[g] \in Ended
      BY <2>1, <2>2 DEF InOrder
    <2> QED
      BY <2>3, <1>1, <1>2
  <1> QED
    BY <1>3, <1>4, <1>5, <1>6, <1>7

(* OnExecute returns: the handler has ended, its worker is free. *)
LEMMA EndKeepsOrder ==
    ASSUME OrderInv, NEW t \in Workers, OnExecuteEnd(t)
    PROVE  /\ JobsPlaced' /\ QueuesHoldQueued' /\ QueuedAreInQueues'
           /\ QueuesSorted' /\ WorkersExecute' /\ InOrder'
  <1> DEFINE h == worker[t]
  <1> USE DEF OrderInv
  <1>1. /\ h \in Handlers
        /\ hstate' = [hstate EXCEPT ![h] = "executed"]
        /\ worker' = [worker EXCEPT ![t] = None]
        /\ UNCHANGED <<job, queue, createBaseCount>>
    BY DEF OnExecuteEnd
  <1>2. hstate[h] = "executing" /\ Thread(h) = t
    BY <1>1 DEF WorkersExecute
  <1>3. hstate[h] \in Begun /\ "executed" \in Ended
    BY <1>2 DEF Begun, Ended, Pushed, States
  <1>4. JobsPlaced' /\ QueuesHoldQueued' /\ QueuedAreInQueues' /\ QueuesSorted' /\ InOrder'
    BY <1>1, <1>3, AdvanceKeepsOrder
  <1>5. hstate'[h] = "executed" /\ \A g \in Handlers : g # h => hstate'[g] = hstate[g]
    BY <1>1 DEF TypeOK
  <1>6. worker'[t] = None /\ \A s \in Workers : s # t => worker'[s] = worker[s]
    BY <1>1 DEF TypeOK
  <1>7. WorkersExecute'
    <2>1. ASSUME NEW s \in Workers, worker'[s] \in Handlers
          PROVE  hstate'[worker'[s]] = "executing" /\ job'[worker'[s]].conn[2] = s
      <3>1. s # t /\ worker'[s] = worker[s]
        BY <2>1, <1>6, OwnersAssumption
      <3>2. hstate[worker[s]] = "executing" /\ Thread(worker[s]) = s
        BY <2>1, <3>1 DEF WorkersExecute
      <3>3. worker[s] # h
        BY <3>1, <3>2, <1>2
      <3> QED
        BY <2>1, <3>1, <3>2, <3>3, <1>1, <1>5 DEF Thread
    <2>2. ASSUME NEW g \in Handlers, hstate'[g] = "executing"
          PROVE  worker'[job'[g].conn[2]] = g
      <3>1. g # h /\ hstate[g] = "executing"
        BY <2>2, <1>5
      <3>2. worker[Thread(g)] = g /\ Thread(g) \in Workers
        BY <3>1, PushedHasThread, ConnectionFacts DEF WorkersExecute
      <3>3. Thread(g) # t
        BY <3>1, <3>2
      <3> QED
        BY <3>2, <3>3, <1>1, <1>6 DEF Thread
    <2> QED
      BY <2>1, <2>2 DEF WorkersExecute, Thread
  <1> QED
    BY <1>4, <1>7

(* The main thread's deliveries concern handlers that have ended. *)
LEMMA DeliverKeepsOrder ==
    ASSUME OrderInv, NEW h \in Handlers, Notify(h) \/ OnRelease(h) \/ DeleteBase(h)
    PROVE  /\ JobsPlaced' /\ QueuesHoldQueued' /\ QueuedAreInQueues'
           /\ QueuesSorted' /\ WorkersExecute' /\ InOrder'
  <1> USE DEF OrderInv
  <1>1. PICK st \in Ended : hstate' = [hstate EXCEPT ![h] = st]
    BY DEF Notify, OnRelease, DeleteBase, Ended, Begun, Pushed, States
  <1>2. hstate[h] \in Ended /\ hstate[h] \in Begun /\ hstate[h] # "executing"
        /\ st # "executing"
    BY DEF Notify, OnRelease, DeleteBase, Ended, Begun, Pushed, States
  <1>3. UNCHANGED <<job, queue, worker, createBaseCount>>
    BY DEF Notify, OnRelease, DeleteBase
  <1>4. JobsPlaced' /\ QueuesHoldQueued' /\ QueuedAreInQueues' /\ QueuesSorted' /\ InOrder'
    BY <1>1, <1>2, <1>3, AdvanceKeepsOrder
  <1>5. hstate'[h] = st /\ \A g \in Handlers : g # h => hstate'[g] = hstate[g]
    BY <1>1 DEF TypeOK
  <1>6. WorkersExecute'
    BY <1>2, <1>3, <1>5 DEF WorkersExecute, Thread
  <1> QED
    BY <1>4, <1>6

(* Every step keeps the order invariant. *)
LEMMA OrderStep ==
    ASSUME OrderInv, [Next]_vars
    PROVE  OrderInv'
  <1> DEFINE Parts == /\ JobsPlaced /\ QueuesHoldQueued /\ QueuedAreInQueues
                      /\ QueuesSorted /\ WorkersExecute /\ InOrder
  <1>a. ASSUME Abort PROVE Parts'
    <2>1. UNCHANGED orderVars
      BY <1>a DEF Abort, orderVars
    <2> QED
      BY <2>1, UnchangedKeepsOrder
  <1>1. ASSUME NEW h \in Handlers, NEW id \in Ids, NEW name \in Names \cup {UnknownName},
               PushMysqlHandler(h, id, name)
        PROVE  Parts'
    BY <1>1, <1>a, PushKeepsOrder
  <1>2. ASSUME NEW t \in Queues, OnExecuteBegin(t) PROVE Parts'
    BY <1>2, BeginKeepsOrder
  <1>3. ASSUME NEW t \in Workers, CallFun(t) PROVE Parts'
    BY <1>3, UnchangedKeepsOrder DEF CallFun, orderVars
  <1>4. ASSUME NEW t \in Workers, NEW ok \in BOOLEAN, NEW rows \in BOOLEAN,
               NEW taken \in BOOLEAN, ExecuteReturns(t, ok, rows, taken)
        PROVE  Parts'
    BY <1>4, UnchangedKeepsOrder DEF ExecuteReturns, orderVars
  <1>5. ASSUME NEW t \in Workers, NEW name \in Names, EscapeEmptyString(t, name)
        PROVE  Parts'
    <2>1. CASE ~Abort
      BY <1>5, <2>1, UnchangedKeepsOrder DEF EscapeEmptyString, orderVars
    <2> QED
      BY <2>1, <1>a
  <1>6. ASSUME NEW t \in Workers, OnExecuteEnd(t) PROVE Parts'
    BY <1>6, EndKeepsOrder
  <1>7. ASSUME NEW t \in Workers, ForeignBegin(t) \/ ForeignEnd(t) PROVE Parts'
    BY <1>7, ForeignKeepsOrder
  <1>8. ASSUME NEW t \in Workers, NEW name \in Names, ExecSqlInAsyncThread(t, name)
        PROVE  Parts'
    <2>1. CASE ~Abort
      BY <1>8, <2>1, UnchangedKeepsOrder DEF ExecSqlInAsyncThread, orderVars
    <2> QED
      BY <2>1, <1>a
  <1>9. ASSUME NEW h \in Handlers, Notify(h) \/ OnRelease(h) \/ DeleteBase(h) PROVE Parts'
    BY <1>9, DeliverKeepsOrder
  <1>10. ASSUME UNCHANGED vars PROVE Parts'
    BY <1>10, UnchangedKeepsOrder DEF vars, orderVars
  <1>11. Parts'
    BY <1>1, <1>2, <1>3, <1>4, <1>5, <1>6, <1>7, <1>8, <1>9, <1>10
       DEF Next, WorkerNext, MainNext
  <1> QED
    BY <1>11, TypeStep DEF OrderInv

(* The types hold in every reachable state: no thread index leaves the queues. *)
THEOREM TypeCorrect == Spec => []TypeOK
  <1>1. OrderInv => TypeOK
    BY DEF OrderInv
  <1> QED
    BY OrderInit, OrderStep, <1>1, PTL DEF Spec

(* The order per thread gives the order per id. *)
THEOREM ExecutionOrder == Spec => []SameIdInOrder
  <1>1. OrderInv => SameIdInOrder
    <2> SUFFICES ASSUME OrderInv, NEW g \in Handlers, NEW h \in Handlers,
                        hstate[g] \in Pushed, hstate[h] \in Begun,
                        job[g].id = job[h].id, job[g].seq < job[h].seq
                 PROVE  hstate[g] \in Ended
      BY DEF SameIdInOrder
    <2>1. hstate[g] # "new" /\ hstate[h] # "new"
      BY DEF Pushed, Begun
    <2>2. Thread(g) = Thread(h)
      BY <2>1 DEF OrderInv, JobsPlaced
    <2> QED
      BY <2>2 DEF OrderInv, InOrder
  <1> QED
    BY OrderInit, OrderStep, <1>1, PTL DEF Spec

-----------------------------------------------------------------------------
(* The profile's counters. *)

LiveSet == {h \in Handlers : hstate[h] \in Live}

(* Steps that change neither the counters nor the set of live bases. *)
LEMMA SameLive ==
    ASSUME BasesAccounted, LiveSet' = LiveSet, UNCHANGED <<createBaseCount, releaseBaseCount>>
    PROVE  BasesAccounted'
  BY DEF BasesAccounted, LiveSet

(* Every step keeps the profile's counters exact. *)
LEMMA AccountStep ==
    ASSUME TypeOK, JobsPlaced, WorkersExecute, QueuesHoldQueued, BasesAccounted, [Next]_vars
    PROVE  BasesAccounted'
  <1>t. createBaseCount \in Nat /\ releaseBaseCount \in Nat /\ hstate \in [Handlers -> States]
    BY DEF TypeOK
  <1>f. IsFiniteSet(LiveSet) /\ Cardinality(LiveSet) \in Nat
    BY HandlersAssumption, FS_Subset, FS_CardinalityType DEF LiveSet
  <1>s. ASSUME UNCHANGED <<hstate, createBaseCount, releaseBaseCount>> PROVE BasesAccounted'
    BY <1>s, SameLive DEF LiveSet
  <1>m. ASSUME NEW h \in Handlers, NEW st \in States, hstate' = [hstate EXCEPT ![h] = st],
               hstate[h] \in Live <=> st \in Live,
               UNCHANGED <<createBaseCount, releaseBaseCount>>
        PROVE  BasesAccounted'
    <2>1. LiveSet' = LiveSet
      BY <1>m, <1>t DEF LiveSet
    <2> QED
      BY <1>m, <2>1, SameLive
  <1>a. ASSUME Abort PROVE BasesAccounted'
    BY <1>a, <1>s DEF Abort
  <1>1. ASSUME NEW h \in Handlers, NEW id \in Ids, NEW name \in Names \cup {UnknownName},
               PushMysqlHandler(h, id, name)
        PROVE  BasesAccounted'
    <2>1. CASE ~Abort
      <3>1. /\ hstate[h] = "new" /\ hstate' = [hstate EXCEPT ![h] = "queued"]
            /\ createBaseCount' = createBaseCount + 1 /\ releaseBaseCount' = releaseBaseCount
        BY <1>1, <2>1, Zenon DEF PushMysqlHandler
      <3>2. LiveSet' = LiveSet \cup {h} /\ h \notin LiveSet
        BY <3>1, <1>t DEF LiveSet, Live
      <3>3. Cardinality(LiveSet') = Cardinality(LiveSet) + 1
        BY <3>2, <1>f, FS_AddElement
      <3> QED
        BY <3>1, <3>3, <1>t, <1>f DEF BasesAccounted, LiveSet
    <2> QED
      BY <2>1, <1>a
  <1>2. ASSUME NEW t \in Queues, OnExecuteBegin(t) PROVE BasesAccounted'
    <2>1. queue[t] \in Seq(Handlers) /\ queue[t] # <<>>
      BY <1>2 DEF OnExecuteBegin, TypeOK
    <2>2. Head(queue[t]) = queue[t][1] /\ 1 \in 1..Len(queue[t]) /\ Head(queue[t]) \in Handlers
      BY <2>1
    <2>3. hstate[Head(queue[t])] \in Live /\ "executing" \in Live /\ "executing" \in States
      BY <2>2 DEF QueuesHoldQueued, Live, States
    <2>4. /\ hstate' = [hstate EXCEPT ![Head(queue[t])] = "executing"]
          /\ UNCHANGED <<createBaseCount, releaseBaseCount>>
      BY <1>2 DEF OnExecuteBegin
    <2> QED
      BY <2>2, <2>3, <2>4, <1>m
  <1>3. ASSUME NEW t \in Workers, CallFun(t) PROVE BasesAccounted'
    BY <1>3, <1>s DEF CallFun
  <1>4. ASSUME NEW t \in Workers, NEW ok \in BOOLEAN, NEW rows \in BOOLEAN,
               NEW taken \in BOOLEAN, ExecuteReturns(t, ok, rows, taken)
        PROVE  BasesAccounted'
    BY <1>4, <1>s DEF ExecuteReturns
  <1>5. ASSUME NEW t \in Workers, NEW name \in Names, EscapeEmptyString(t, name)
        PROVE  BasesAccounted'
    <2>1. CASE ~Abort
      BY <1>5, <2>1, <1>s DEF EscapeEmptyString
    <2> QED
      BY <2>1, <1>a
  <1>6. ASSUME NEW t \in Workers, OnExecuteEnd(t) PROVE BasesAccounted'
    <2>1. /\ worker[t] \in Handlers /\ hstate' = [hstate EXCEPT ![worker[t]] = "executed"]
          /\ UNCHANGED <<createBaseCount, releaseBaseCount>>
      BY <1>6 DEF OnExecuteEnd
    <2>2. hstate[worker[t]] \in Live /\ "executed" \in Live /\ "executed" \in States
      BY <2>1 DEF WorkersExecute, Live, States
    <2> QED
      BY <2>1, <2>2, <1>m
  <1>7. ASSUME NEW t \in Workers, ForeignBegin(t) \/ ForeignEnd(t) PROVE BasesAccounted'
    BY <1>7, <1>s DEF ForeignBegin, ForeignEnd
  <1>8. ASSUME NEW t \in Workers, NEW name \in Names, ExecSqlInAsyncThread(t, name)
        PROVE  BasesAccounted'
    <2>1. CASE ~Abort
      BY <1>8, <2>1, <1>s DEF ExecSqlInAsyncThread
    <2> QED
      BY <2>1, <1>a
  <1>9. ASSUME NEW h \in Handlers, Notify(h) PROVE BasesAccounted'
    <2>1. /\ hstate[h] = "executed" /\ hstate' = [hstate EXCEPT ![h] = "notified"]
          /\ UNCHANGED <<createBaseCount, releaseBaseCount>>
      BY <1>9 DEF Notify
    <2>2. hstate[h] \in Live /\ "notified" \in Live /\ "notified" \in States
      BY <2>1 DEF Live, States
    <2> QED
      BY <2>1, <2>2, <1>m
  <1>10. ASSUME NEW h \in Handlers, OnRelease(h) PROVE BasesAccounted'
    <2>1. /\ hstate[h] = "notified" /\ hstate' = [hstate EXCEPT ![h] = "releasing"]
          /\ createBaseCount' = createBaseCount /\ releaseBaseCount' = releaseBaseCount + 1
      BY <1>10 DEF OnRelease
    <2>2. LiveSet' = LiveSet \ {h} /\ h \in LiveSet
      BY <2>1, <1>t DEF LiveSet, Live
    <2>3. Cardinality(LiveSet') = Cardinality(LiveSet) - 1
      BY <2>2, <1>f, FS_RemoveElement
    <2> QED
      BY <2>1, <2>3, <1>t, <1>f DEF BasesAccounted, LiveSet
  <1>11. ASSUME NEW h \in Handlers, DeleteBase(h) PROVE BasesAccounted'
    <2>1. /\ hstate[h] = "releasing" /\ hstate' = [hstate EXCEPT ![h] = "released"]
          /\ UNCHANGED <<createBaseCount, releaseBaseCount>>
      BY <1>11 DEF DeleteBase
    <2>2. hstate[h] \notin Live /\ "released" \notin Live /\ "released" \in States
      BY <2>1 DEF Live, States
    <2> QED
      BY <2>1, <2>2, <1>m
  <1>12. ASSUME UNCHANGED vars PROVE BasesAccounted'
    BY <1>12, <1>s DEF vars
  <1> QED
    BY <1>1, <1>2, <1>3, <1>4, <1>5, <1>6, <1>7, <1>8, <1>9, <1>10, <1>11, <1>12
       DEF Next, WorkerNext, MainNext

(* Create Num - Release Num counts the bases whose OnRelease has not run. *)
THEOREM ProfileIsExact == Spec => []BasesAccounted
  <1>1. Init => BasesAccounted
    <2> SUFFICES ASSUME Init PROVE BasesAccounted
      OBVIOUS
    <2>1. {h \in Handlers : hstate[h] \in Live} = {}
      BY DEF Init, Live
    <2>2. Cardinality({h \in Handlers : hstate[h] \in Live}) = 0
      BY <2>1, FS_EmptySet, Zenon
    <2>3. createBaseCount = 0 /\ releaseBaseCount = 0
      BY DEF Init
    <2> QED
      BY <2>2, <2>3 DEF BasesAccounted
  <1>2. OrderInv /\ BasesAccounted /\ [Next]_vars => BasesAccounted'
    BY AccountStep DEF OrderInv
  <1> QED
    BY OrderInit, OrderStep, <1>1, <1>2, PTL DEF Spec

-----------------------------------------------------------------------------
(* Whose statement a connection speaks of. *)

(* Steps of the main thread touch no worker, no connection and no outcome. *)
LEMMA QuietKeepsOwner ==
    ASSUME OwnerInv, UNCHANGED <<worker, sqlAt, issued, unread, errOf, outcome>>,
           \A h \in Handlers : /\ hstate'[h] \in Ended => hstate[h] \in Ended
                               /\ hstate[h] = "executing" => job'[h] = job[h]
    PROVE  /\ SqlOnOwnThread' /\ SqlOfRunning' /\ IdleIsReset'
           /\ ConnectionSpeaksOfOwner' /\ OutcomeIsOwn'
  <1> USE DEF OwnerInv, OrderInv
  <1>1. \A t \in Workers : worker[t] \in Handlers => job'[worker[t]] = job[worker[t]]
    BY DEF WorkersExecute
  <1>2. SqlOnOwnThread' /\ IdleIsReset'
    BY DEF SqlOnOwnThread, IdleIsReset
  <1>3. SqlOfRunning'
    BY <1>1 DEF SqlOfRunning
  <1>4. ConnectionSpeaksOfOwner'
    BY <1>1 DEF ConnectionSpeaksOfOwner
  <1>5. OutcomeIsOwn'
    BY DEF OutcomeIsOwn
  <1> QED
    BY <1>2, <1>3, <1>4, <1>5

(* A worker that starts or drops work is inside no execute() and has issued nothing. *)
LEMMA SwitchKeepsOwner ==
    ASSUME OwnerInv, NEW t \in Workers, sqlAt[t] = NoConn,
           \A s \in Workers : s # t => worker'[s] = worker[s] /\ issued'[s] = issued[s],
           issued'[t] = 0,
           UNCHANGED <<job, sqlAt, errOf>>,
           \A c \in Connections : unread'[c] \in {NoTicket, unread[c]},
           OutcomeIsOwn'
    PROVE  /\ SqlOnOwnThread' /\ SqlOfRunning' /\ IdleIsReset'
           /\ ConnectionSpeaksOfOwner' /\ OutcomeIsOwn'
  <1> USE DEF OwnerInv, OrderInv
  <1>1. SqlOnOwnThread' /\ IdleIsReset'
    BY DEF SqlOnOwnThread, IdleIsReset
  <1>2. SqlOfRunning'
    BY DEF SqlOfRunning
  <1>3. ConnectionSpeaksOfOwner'
    <2> SUFFICES ASSUME NEW s \in Workers, worker'[s] \in Handlers, sqlAt'[s] = NoConn,
                        issued'[s] > 0
                 PROVE  /\ unread'[job'[worker'[s]].conn] \in {NoTicket, <<worker'[s], issued'[s]>>}
                        /\ errOf'[job'[worker'[s]].conn] \in {NoTicket, <<worker'[s], issued'[s]>>}
      BY DEF ConnectionSpeaksOfOwner
    <2>1. s # t /\ worker'[s] = worker[s] /\ issued'[s] = issued[s]
      OBVIOUS
    <2>2. job[worker[s]].conn \in Connections
      BY <2>1, RunningHasConnection
    <2>3. /\ unread[job[worker[s]].conn] \in {NoTicket, <<worker[s], issued[s]>>}
          /\ errOf[job[worker[s]].conn] \in {NoTicket, <<worker[s], issued[s]>>}
      BY <2>1 DEF ConnectionSpeaksOfOwner
    <2> QED
      BY <2>1, <2>2, <2>3
  <1> QED
    BY <1>1, <1>2, <1>3

(* Entering execute(): the connection is the thread's own. *)
LEMMA EnterKeepsOwner ==
    ASSUME OwnerInv, NEW t \in Workers, NEW c \in Connections, c[2] = t, worker[t] # None,
           worker[t] \in Handlers => c = job[worker[t]].conn,
           sqlAt' = [sqlAt EXCEPT ![t] = c],
           issued' = [issued EXCEPT ![t] = @ + 1],
           UNCHANGED <<hstate, job, worker, unread, errOf, outcome>>
    PROVE  /\ SqlOnOwnThread' /\ SqlOfRunning' /\ IdleIsReset'
           /\ ConnectionSpeaksOfOwner' /\ OutcomeIsOwn'
  <1> USE DEF OwnerInv, OrderInv
  <1>1. /\ sqlAt'[t] = c /\ c # NoConn
        /\ \A s \in Workers : s # t => sqlAt'[s] = sqlAt[s] /\ issued'[s] = issued[s]
    BY ConnectionFacts DEF TypeOK
  <1>2. SqlOnOwnThread' /\ IdleIsReset'
    BY <1>1 DEF SqlOnOwnThread, IdleIsReset
  <1>3. SqlOfRunning'
    BY <1>1 DEF SqlOfRunning
  <1>4. ConnectionSpeaksOfOwner'
    BY <1>1 DEF ConnectionSpeaksOfOwner
  <1>5. OutcomeIsOwn'
    BY DEF OutcomeIsOwn
  <1> QED
    BY <1>2, <1>3, <1>4, <1>5

(* execute() returns: the connection now speaks of this statement only. *)
LEMMA ReturnKeepsOwner ==
    ASSUME OwnerInv, NEW t \in Workers, NEW ok \in BOOLEAN, NEW rows \in BOOLEAN,
           NEW taken \in BOOLEAN, ExecuteReturns(t, ok, rows, taken)
    PROVE  /\ SqlOnOwnThread' /\ SqlOfRunning' /\ IdleIsReset'
           /\ ConnectionSpeaksOfOwner' /\ OutcomeIsOwn'
  <1> DEFINE c == sqlAt[t]
             ticket == <<worker[t], issued[t]>>
  <1> USE DEF OwnerInv, OrderInv
  <1>1. /\ c # NoConn
        /\ sqlAt' = [sqlAt EXCEPT ![t] = NoConn]
        /\ unread' = [unread EXCEPT ![c] = IF ok /\ rows /\ ~taken THEN ticket ELSE NoTicket]
        /\ errOf' = [errOf EXCEPT ![c] = ticket]
        /\ UNCHANGED <<hstate, job, worker, issued, outcome>>
    BY DEF ExecuteReturns
  <1>2. c \in Connections /\ c[2] = t
    BY <1>1 DEF TypeOK, SqlOnOwnThread
  <1>3. sqlAt'[t] = NoConn /\ \A s \in Workers : s # t => sqlAt'[s] = sqlAt[s]
    BY <1>1 DEF TypeOK
  <1>4. /\ unread'[c] \in {NoTicket, ticket} /\ errOf'[c] = ticket
        /\ \A d \in Connections : d # c => unread'[d] = unread[d] /\ errOf'[d] = errOf[d]
    BY <1>1, <1>2 DEF TypeOK
  <1>5. SqlOnOwnThread' /\ IdleIsReset'
    BY <1>1, <1>3 DEF SqlOnOwnThread, IdleIsReset
  <1>6. SqlOfRunning'
    BY <1>1, <1>3 DEF SqlOfRunning
  <1>7. ConnectionSpeaksOfOwner'
    <2> SUFFICES ASSUME NEW s \in Workers, worker[s] \in Handlers, sqlAt'[s] = NoConn,
                        issued[s] > 0
                 PROVE  /\ unread'[job[worker[s]].conn] \in {NoTicket, <<worker[s], issued[s]>>}
                        /\ errOf'[job[worker[s]].conn] \in {NoTicket, <<worker[s], issued[s]>>}
      BY <1>1 DEF ConnectionSpeaksOfOwner
    <2>1. CASE s = t
      <3>1. c = job[worker[t]].conn
        BY <2>1, <1>1 DEF SqlOfRunning
      <3> QED
        BY <2>1, <3>1, <1>4
    <2>2. CASE s # t
      <3>1. job[worker[s]].conn \in Connections /\ job[worker[s]].conn # c
        BY <2>2, <1>2, RunningHasConnection
      <3>2. sqlAt[s] = NoConn
        BY <2>2, <1>3
      <3> QED
        BY <3>1, <3>2, <1>4 DEF ConnectionSpeaksOfOwner
    <2> QED
      BY <2>1, <2>2
  <1>8. OutcomeIsOwn'
    BY <1>1 DEF OutcomeIsOwn
  <1> QED
    BY <1>5, <1>6, <1>7, <1>8

(* A ping for an empty escaped string can only silence a connection. *)
LEMMA EscapeKeepsOwner ==
    ASSUME OwnerInv, NEW t \in Workers, NEW name \in Names, EscapeEmptyString(t, name), ~Abort
    PROVE  /\ SqlOnOwnThread' /\ SqlOfRunning' /\ IdleIsReset'
           /\ ConnectionSpeaksOfOwner' /\ OutcomeIsOwn'
  <1> USE DEF OwnerInv, OrderInv
  <1>1. PICK c \in Connections : /\ unread' = [unread EXCEPT ![c] = NoTicket]
                                 /\ errOf' = [errOf EXCEPT ![c] = NoTicket]
    BY Zenon DEF EscapeEmptyString
  <1>2. UNCHANGED <<hstate, job, worker, sqlAt, issued, outcome>>
    BY DEF EscapeEmptyString
  <1>3. \A d \in Connections : /\ unread'[d] \in {NoTicket, unread[d]}
                               /\ errOf'[d] \in {NoTicket, errOf[d]}
    BY <1>1 DEF TypeOK
  <1>4. SqlOnOwnThread' /\ IdleIsReset' /\ SqlOfRunning' /\ OutcomeIsOwn'
    BY <1>2 DEF SqlOnOwnThread, IdleIsReset, SqlOfRunning, OutcomeIsOwn
  <1>5. ConnectionSpeaksOfOwner'
    <2> SUFFICES ASSUME NEW s \in Workers, worker[s] \in Handlers, sqlAt[s] = NoConn,
                        issued[s] > 0
                 PROVE  /\ unread'[job[worker[s]].conn] \in {NoTicket, <<worker[s], issued[s]>>}
                        /\ errOf'[job[worker[s]].conn] \in {NoTicket, <<worker[s], issued[s]>>}
      BY <1>2 DEF ConnectionSpeaksOfOwner
    <2>1. job[worker[s]].conn \in Connections
      BY RunningHasConnection
    <2> QED
      BY <2>1, <1>3 DEF ConnectionSpeaksOfOwner
  <1> QED
    BY <1>4, <1>5

(* OnExecute stores what the connection says about the handler's last statement. *)
LEMMA StoreKeepsOutcome ==
    ASSUME OwnerInv, NEW t \in Workers, OnExecuteEnd(t)
    PROVE  OutcomeIsOwn'
  <1> DEFINE h == worker[t]
             c == job[h].conn
  <1> USE DEF OwnerInv, OrderInv
  <1>1. /\ h \in Handlers /\ sqlAt[t] = NoConn
        /\ outcome' = [outcome EXCEPT ![h] =
                          [ok |-> ret[t], issued |-> issued[t], of |-> Store(c, ret[t]).of]]
        /\ hstate' = [hstate EXCEPT ![h] = "executed"]
    BY DEF OnExecuteEnd
  <1>2. outcome'[h].issued = issued[t] /\ outcome'[h].of \in {unread[c], errOf[c]}
    BY <1>1 DEF TypeOK, Store
  <1>3. \A g \in Handlers : g # h => outcome'[g] = outcome[g] /\ hstate'[g] = hstate[g]
    BY <1>1 DEF TypeOK
  <1>4. issued[t] > 0 => outcome'[h].of \in {NoTicket, <<h, issued[t]>>}
    BY <1>1, <1>2 DEF ConnectionSpeaksOfOwner
  <1> QED
    BY <1>2, <1>3, <1>4 DEF OutcomeIsOwn

(* Every step keeps the ownership invariant. *)
LEMMA OwnerStep ==
    ASSUME OwnerInv, [Next]_vars
    PROVE  OwnerInv'
  <1> DEFINE Parts == /\ SqlOnOwnThread /\ SqlOfRunning /\ IdleIsReset
                      /\ ConnectionSpeaksOfOwner /\ OutcomeIsOwn
  <1>o. OrderInv /\ TypeOK /\ JobsPlaced /\ WorkersExecute
    BY DEF OwnerInv, OrderInv
  <1>a. ASSUME Abort PROVE Parts'
    BY <1>a, QuietKeepsOwner DEF Abort
  <1>1. ASSUME NEW h \in Handlers, NEW id \in Ids, NEW name \in Names \cup {UnknownName},
               PushMysqlHandler(h, id, name)
        PROVE  Parts'
    <2>1. CASE ~Abort
      <3>1. /\ hstate[h] = "new" /\ hstate' = [hstate EXCEPT ![h] = "queued"]
            /\ \E j : job' = [job EXCEPT ![h] = j]
            /\ UNCHANGED <<worker, sqlAt, issued, unread, errOf, outcome>>
        BY <1>1, <2>1, Zenon DEF PushMysqlHandler
      <3>2. "queued" \notin Ended
        BY DEF Ended, Begun, Pushed, States
      <3>3. \A g \in Handlers : /\ hstate'[g] \in Ended => hstate[g] \in Ended
                                /\ hstate[g] = "executing" => job'[g] = job[g]
        BY <3>1, <3>2, <1>o DEF TypeOK
      <3> QED
        BY <3>1, <3>3, QuietKeepsOwner
    <2> QED
      BY <2>1, <1>a
  <1>2. ASSUME NEW t \in Queues, OnExecuteBegin(t) PROVE Parts'
    <2>1. /\ worker[t] = None /\ worker' = [worker EXCEPT ![t] = Head(queue[t])]
          /\ hstate' = [hstate EXCEPT ![Head(queue[t])] = "executing"]
          /\ UNCHANGED <<job, sqlAt, issued, unread, errOf, outcome>>
      BY <1>2 DEF OnExecuteBegin
    <2>2. t \in Workers /\ sqlAt[t] = NoConn /\ issued[t] = 0
      BY <2>1, ConnectionFacts DEF OwnerInv, SqlOnOwnThread, IdleIsReset
    <2>3. \A s \in Workers : s # t => worker'[s] = worker[s]
      BY <2>1, <1>o DEF TypeOK
    <2>4. "executing" \notin Ended
      BY DEF Ended
    <2>5. OutcomeIsOwn'
      BY <2>1, <2>4, <1>o DEF OwnerInv, OutcomeIsOwn, TypeOK
    <2> QED
      BY <2>1, <2>2, <2>3, <2>5, SwitchKeepsOwner
  <1>3. ASSUME NEW t \in Workers, CallFun(t) PROVE Parts'
    <2>1. /\ worker[t] \in Handlers /\ worker[t] # None
          /\ sqlAt' = [sqlAt EXCEPT ![t] = job[worker[t]].conn]
          /\ issued' = [issued EXCEPT ![t] = @ + 1]
          /\ UNCHANGED <<hstate, job, worker, unread, errOf, outcome>>
      BY <1>3, OwnersAssumption DEF CallFun
    <2>2. job[worker[t]].conn \in Connections /\ job[worker[t]].conn[2] = t
      BY <2>1, <1>o, RunningHasConnection
    <2> QED
      BY <2>1, <2>2, EnterKeepsOwner
  <1>4. ASSUME NEW t \in Workers, NEW ok \in BOOLEAN, NEW rows \in BOOLEAN,
               NEW taken \in BOOLEAN, ExecuteReturns(t, ok, rows, taken)
        PROVE  Parts'
    BY <1>4, ReturnKeepsOwner
  <1>5. ASSUME NEW t \in Workers, NEW name \in Names, EscapeEmptyString(t, name)
        PROVE  Parts'
    BY <1>5, <1>a, EscapeKeepsOwner
  <1>6. ASSUME NEW t \in Workers, OnExecuteEnd(t) PROVE Parts'
    <2>1. /\ worker[t] \in Handlers /\ sqlAt[t] = NoConn
          /\ worker' = [worker EXCEPT ![t] = None] /\ issued' = [issued EXCEPT ![t] = 0]
          /\ unread' = [unread EXCEPT ![job[worker[t]].conn] =
                            Store(job[worker[t]].conn, ret[t]).left]
          /\ UNCHANGED <<job, sqlAt, errOf>>
      BY <1>6 DEF OnExecuteEnd
    <2>2. \A s \in Workers : s # t => worker'[s] = worker[s] /\ issued'[s] = issued[s]
      BY <2>1, <1>o DEF TypeOK
    <2>3. issued'[t] = 0
      BY <2>1, <1>o DEF TypeOK
    <2>4. \A d \in Connections : unread'[d] \in {NoTicket, unread[d]}
      BY <2>1, <1>o DEF TypeOK, Store
    <2> QED
      BY <1>6, <2>1, <2>2, <2>3, <2>4, SwitchKeepsOwner, StoreKeepsOutcome
  <1>7. ASSUME NEW t \in Workers, ForeignBegin(t) \/ ForeignEnd(t) PROVE Parts'
    <2>1. sqlAt[t] = NoConn /\ UNCHANGED <<hstate, job, sqlAt, unread, errOf, outcome>>
      BY <1>7 DEF ForeignBegin, ForeignEnd, OwnerInv, SqlOnOwnThread
    <2>2. \A s \in Workers : s # t => worker'[s] = worker[s] /\ issued'[s] = issued[s]
      BY <1>7, <1>o DEF ForeignBegin, ForeignEnd, TypeOK
    <2>3. issued'[t] = 0
      BY <1>7, <1>o DEF ForeignBegin, ForeignEnd, TypeOK, OwnerInv, IdleIsReset
    <2>4. OutcomeIsOwn'
      BY <2>1 DEF OwnerInv, OutcomeIsOwn
    <2> QED
      BY <2>1, <2>2, <2>3, <2>4, SwitchKeepsOwner
  <1>8. ASSUME NEW t \in Workers, NEW name \in Names, ExecSqlInAsyncThread(t, name)
        PROVE  Parts'
    <2>1. CASE ~Abort
      <3>1. /\ CheckThreadIdx(t) /\ worker[t] = Foreign
            /\ sqlAt' = [sqlAt EXCEPT ![t] = GetDBConnection(t, name)]
            /\ issued' = [issued EXCEPT ![t] = @ + 1]
        BY <1>8, <2>1, Zenon DEF ExecSqlInAsyncThread
      <3>2. UNCHANGED <<hstate, job, worker, unread, errOf, outcome>>
        BY <1>8, <2>1 DEF ExecSqlInAsyncThread
      <3>3. t \in Queues
        BY <3>1, ConnectionNumAssumption DEF CheckThreadIdx
      <3>4. GetDBConnection(t, name) \in Connections
        BY <3>3, GetDBConnectionFacts
      <3>5. GetDBConnection(t, name)[2] = t
        BY <3>3 DEF GetDBConnection
      <3>6. worker[t] # None /\ worker[t] \notin Handlers
        BY <3>1, OwnersAssumption
      <3> QED
        BY <3>1, <3>2, <3>4, <3>5, <3>6, EnterKeepsOwner
    <2> QED
      BY <2>1, <1>a
  <1>9. ASSUME NEW h \in Handlers, Notify(h) \/ OnRelease(h) \/ DeleteBase(h) PROVE Parts'
    <2>1. hstate[h] \in Ended /\ \E st : hstate' = [hstate EXCEPT ![h] = st]
      BY <1>9 DEF Notify, OnRelease, DeleteBase, Ended, Begun, Pushed, States
    <2>2. UNCHANGED <<job, worker, sqlAt, issued, unread, errOf, outcome>>
      BY <1>9 DEF Notify, OnRelease, DeleteBase
    <2>3. \A g \in Handlers : hstate'[g] \in Ended => hstate[g] \in Ended
      BY <2>1, <1>o DEF TypeOK
    <2> QED
      BY <2>2, <2>3, QuietKeepsOwner
  <1>10. ASSUME UNCHANGED vars PROVE Parts'
    BY <1>10, QuietKeepsOwner DEF vars
  <1>11. Parts'
    BY <1>1, <1>2, <1>3, <1>4, <1>5, <1>6, <1>7, <1>8, <1>9, <1>10
       DEF Next, WorkerNext, MainNext
  <1> QED
    BY <1>o, <1>11, OrderStep DEF OwnerInv

(* The ownership invariant holds initially. *)
LEMMA OwnerInit == Init => OwnerInv
  <1> SUFFICES ASSUME Init PROVE OwnerInv
    OBVIOUS
  <1>1. SqlOnOwnThread /\ SqlOfRunning /\ IdleIsReset
    BY DEF Init, SqlOnOwnThread, SqlOfRunning, IdleIsReset
  <1>2. ConnectionSpeaksOfOwner
    BY OwnersAssumption DEF Init, ConnectionSpeaksOfOwner
  <1>3. OutcomeIsOwn
    BY DEF Init, OutcomeIsOwn, Ended, Begun, Pushed
  <1> QED
    BY <1>1, <1>2, <1>3, OrderInit DEF OwnerInv

(***************************************************************************)
(* A handler that issued a statement is told the outcome of that statement *)
(* or of none (MysqlBase::OnExecute), on every interleaving of the workers.*)
(***************************************************************************)
THEOREM OutcomeOwnership == Spec => []OutcomeIsOwn
  <1>1. OwnerInv => OutcomeIsOwn
    BY DEF OwnerInv
  <1> QED
    BY OwnerInit, OwnerStep, <1>1, PTL DEF Spec

(* No two threads are ever inside execute() on one DBConnection, which has no lock. *)
THEOREM ConnectionExclusion == Spec => []OneThreadPerConnection
  <1>1. OwnerInv => OneThreadPerConnection
    BY DEF OwnerInv, SqlOnOwnThread, OneThreadPerConnection
  <1> QED
    BY OwnerInit, OwnerStep, <1>1, PTL DEF Spec

-----------------------------------------------------------------------------
(***************************************************************************)
(* The refinement.  A change of a handler's state is a Move of its job.    *)
(***************************************************************************)
LEMMA MoveMaps ==
    ASSUME TypeOK, NEW h \in Handlers, NEW to \in States,
           hstate' = [hstate EXCEPT ![h] = to],
           UNCHANGED <<job, createBaseCount>>
    PROVE  Service!Move(h, StageOf(hstate[h]), StageOf(to))
  <1> DEFINE abs == [g \in Handlers |-> StageOf(hstate[g])]
             absNext == [g \in Handlers |-> StageOf(hstate'[g])]
  <1>1. \A g \in Handlers : hstate'[g] = IF g = h THEN to ELSE hstate[g]
    BY DEF TypeOK
  <1>2. absNext = [abs EXCEPT ![h] = StageOf(to)]
    <2>1. ASSUME NEW g \in Handlers
          PROVE  StageOf(hstate'[g]) = IF g = h THEN StageOf(to) ELSE StageOf(hstate[g])
      <3>1. CASE g = h
        BY <1>1, <3>1
      <3>2. CASE g # h
        BY <1>1, <3>2
      <3> QED
        BY <3>1, <3>2
    <2> QED
      BY <2>1, Zenon
  <1>3. abs[h] = StageOf(hstate[h])
    OBVIOUS
  <1> QED
    BY <1>2, <1>3 DEF Service!Move

(* The stages the states stand for. *)
LEMMA StagesOfStates ==
    /\ StageOf("new") = "new"
    /\ StageOf("queued") = "waiting"
    /\ StageOf("executing") = "running"
    /\ StageOf("executed") = "done"
    /\ StageOf("notified") = "told"
    /\ StageOf("releasing") = "released"
    /\ StageOf("released") = "released"
    /\ \A s \in States : s # "new" <=> StageOf(s) # "new"
    /\ \A s \in Ended : StageOf(s) \in {"done", "told", "released"}
  BY DEF StageOf, States, Ended, Begun, Pushed

(* A handler is pushed: its job joins its key with the next rank. *)
LEMMA PushMaps ==
    ASSUME OrderInv, NEW h \in Handlers, NEW id \in Ids,
           NEW name \in Names \cup {UnknownName}, PushMysqlHandler(h, id, name)
    PROVE  Service!Next
  <1> USE DEF OrderInv
  <1>1. CASE Abort
    <2>1. ~aborted /\ Service!Die
      BY <1>1 DEF Abort, Service!Die, PushMysqlHandler
    <2> QED
      BY <2>1 DEF Service!Next
  <1>2. CASE ~Abort
    <2> DEFINE abs == [g \in Handlers |-> StageOf(hstate[g])]
               keys == [g \in Handlers |-> job[g].id]
               ranks == [g \in Handlers |-> job[g].seq]
               conn == GetDBConnection(GetConnectionThreadIdx(id), name)
    <2>1. /\ ~aborted /\ aborted' = aborted /\ hstate[h] = "new"
          /\ hstate' = [hstate EXCEPT ![h] = "queued"]
          /\ job' = [job EXCEPT ![h] = [id |-> id, conn |-> conn, seq |-> createBaseCount]]
          /\ createBaseCount' = createBaseCount + 1
      BY <1>2 DEF PushMysqlHandler
    <2>2. \A g \in Handlers : /\ hstate'[g] = IF g = h THEN "queued" ELSE hstate[g]
                              /\ job'[g].id = IF g = h THEN id ELSE job[g].id
                              /\ job'[g].seq = IF g = h THEN createBaseCount ELSE job[g].seq
      BY <2>1 DEF TypeOK
    <2>3. [g \in Handlers |-> StageOf(hstate'[g])] = [abs EXCEPT ![h] = "waiting"]
      BY <2>2, StagesOfStates, Zenon
    <2>4. [g \in Handlers |-> job'[g].id] = [keys EXCEPT ![h] = id]
      BY <2>2, Zenon
    <2>5. [g \in Handlers |-> job'[g].seq] = [ranks EXCEPT ![h] = createBaseCount]
      BY <2>2, Zenon
    <2>6. abs[h] = "new"
      BY <2>1, StagesOfStates
    <2>7. Service!Push(h, id)
      BY <2>1, <2>3, <2>4, <2>5, <2>6 DEF Service!Push
    <2> QED
      BY <2>1, <2>7 DEF Service!Next
  <1> QED
    BY <1>1, <1>2

(* A worker takes a handler: by the order of the queues its elders are done. *)
LEMMA StartMaps ==
    ASSUME OrderInv, OrderInv', NEW t \in Queues, OnExecuteBegin(t)
    PROVE  Service!Next
  <1> DEFINE h == Head(queue[t])
             abs == [g \in Handlers |-> StageOf(hstate[g])]
             keys == [g \in Handlers |-> job[g].id]
             ranks == [g \in Handlers |-> job[g].seq]
  <1>1. queue[t] \in Seq(Handlers) /\ queue[t] # <<>>
    BY DEF OnExecuteBegin, OrderInv, TypeOK
  <1>2. h \in Handlers /\ h = queue[t][1] /\ 1 \in 1..Len(queue[t])
    BY <1>1, HeadTailProperties, EmptySeq
  <1>3. hstate[h] = "queued"
    BY <1>2 DEF OrderInv, QueuesHoldQueued
  <1>4. /\ ~aborted /\ aborted' = aborted
        /\ hstate' = [hstate EXCEPT ![h] = "executing"]
        /\ UNCHANGED <<job, createBaseCount>>
    BY DEF OnExecuteBegin
  <1>5. \A g \in Handlers : hstate'[g] = IF g = h THEN "executing" ELSE hstate[g]
    BY <1>4 DEF OrderInv, TypeOK
  <1>6. ASSUME NEW g \in Handlers, abs[g] # "new", keys[g] = keys[h], ranks[g] < ranks[h]
        PROVE  abs[g] \in {"done", "told", "released"}
    <2>1. hstate[g] \in States /\ hstate[g] # "new"
      BY <1>6, StagesOfStates DEF OrderInv, TypeOK
    <2>2. g # h
      <3>1. job[h].seq \in Nat
        BY <1>2, <1>3 DEF OrderInv, TypeOK, JobsPlaced
      <3> QED
        BY <1>2, <1>6, <3>1
    <2>3. Thread(g) = Thread(h)
      BY <1>2, <1>3, <1>6, <2>1 DEF OrderInv, JobsPlaced
    <2>4. hstate'[g] \in Pushed /\ hstate'[h] \in Begun
      BY <1>2, <1>5, <2>1, <2>2 DEF Pushed, Begun, States
    <2>5. job'[g].conn[2] = job'[h].conn[2] /\ job'[g].seq < job'[h].seq
      BY <1>2, <1>4, <1>6, <2>3 DEF Thread
    <2>6. hstate'[g] \in Ended
      BY <1>2, <2>4, <2>5 DEF OrderInv, InOrder, Thread
    <2> QED
      BY <1>5, <2>2, <2>6, StagesOfStates
  <1>7. Service!Move(h, "waiting", "running")
    <2>1. "executing" \in States
      BY DEF States
    <2> QED
      BY <1>2, <1>3, <1>4, <2>1, MoveMaps, StagesOfStates DEF OrderInv
  <1>8. Service!Start(h)
    BY <1>6, <1>7 DEF Service!Start, Service!Earlier
  <1> QED
    BY <1>2, <1>4, <1>8 DEF Service!Next

(* Every step of MysqlMgr is a step of the service, or changes nothing of it. *)
LEMMA ServiceStep ==
    ASSUME OrderInv, OrderInv', [Next]_vars
    PROVE  [Service!Next]_(Service!vars)
  <1> USE DEF OrderInv
  <1> DEFINE Quiet == UNCHANGED <<hstate, job, createBaseCount, aborted>>
  <1>a. aborted \in BOOLEAN
    BY DEF TypeOK
  <1>q. Quiet => [Service!Next]_(Service!vars)
    BY DEF Service!vars
  <1>d. ~aborted /\ Abort => Service!Next
    BY DEF Abort, Service!Next, Service!Die
  <1>1. ASSUME NEW t \in Workers, WorkerNext(t)
        PROVE  [Service!Next]_(Service!vars)
    <2>1. CASE t \in Queues /\ OnExecuteBegin(t)
      BY <2>1, StartMaps
    <2>2. CASE CallFun(t)
      BY <2>2, <1>q DEF CallFun
    <2>3. CASE \E ok, rows, taken \in BOOLEAN : ExecuteReturns(t, ok, rows, taken)
      BY <2>3, <1>q DEF ExecuteReturns
    <2>4. CASE \E name \in Names : EscapeEmptyString(t, name)
      BY <2>4, <1>q, <1>d DEF EscapeEmptyString
    <2>5. CASE OnExecuteEnd(t)
      <3> DEFINE h == worker[t]
      <3>1. h \in Handlers /\ ~aborted /\ aborted' = aborted
        BY <2>5 DEF OnExecuteEnd
      <3>2. hstate' = [hstate EXCEPT ![h] = "executed"] /\ UNCHANGED <<job, createBaseCount>>
        BY <2>5 DEF OnExecuteEnd
      <3>3. hstate[h] = "executing" /\ "executed" \in States
        BY <3>1 DEF WorkersExecute, States
      <3>4. Service!Finish(h)
        BY <3>1, <3>2, <3>3, MoveMaps, StagesOfStates DEF Service!Finish
      <3> QED
        BY <3>1, <3>4 DEF Service!Next
    <2>6. CASE t \in ForeignWorkers /\ ForeignBegin(t)
      BY <2>6, <1>q DEF ForeignBegin
    <2>7. CASE \E name \in Names : ExecSqlInAsyncThread(t, name)
      BY <2>7, <1>q, <1>d DEF ExecSqlInAsyncThread
    <2>8. CASE ForeignEnd(t)
      BY <2>8, <1>q DEF ForeignEnd
    <2> QED
      BY <1>1, <2>1, <2>2, <2>3, <2>4, <2>5, <2>6, <2>7, <2>8 DEF WorkerNext
  <1>2. ASSUME NEW h \in Handlers, MainNext(h)
        PROVE  [Service!Next]_(Service!vars)
    <2>1. CASE \E id \in Ids, name \in Names \cup {UnknownName} : PushMysqlHandler(h, id, name)
      BY <2>1, PushMaps
    <2>2. CASE Notify(h)
      <3>1. /\ ~aborted /\ aborted' = aborted /\ hstate[h] = "executed"
            /\ hstate' = [hstate EXCEPT ![h] = "notified"] /\ UNCHANGED <<job, createBaseCount>>
        BY <2>2 DEF Notify
      <3>2. Service!Tell(h)
        BY <3>1, MoveMaps, StagesOfStates DEF Service!Tell, States
      <3> QED
        BY <3>1, <3>2 DEF Service!Next
    <2>3. CASE OnRelease(h)
      <3>1. /\ ~aborted /\ aborted' = aborted /\ hstate[h] = "notified"
            /\ hstate' = [hstate EXCEPT ![h] = "releasing"] /\ UNCHANGED <<job, createBaseCount>>
        BY <2>3 DEF OnRelease
      <3>2. Service!Release(h)
        BY <3>1, MoveMaps, StagesOfStates DEF Service!Release, States
      <3> QED
        BY <3>1, <3>2 DEF Service!Next
    <2>4. CASE DeleteBase(h)
      <3>1. /\ aborted' = aborted /\ hstate[h] = "releasing"
            /\ hstate' = [hstate EXCEPT ![h] = "released"] /\ UNCHANGED <<job, createBaseCount>>
        BY <2>4 DEF DeleteBase
      <3>2. \A g \in Handlers : StageOf(hstate'[g]) = StageOf(hstate[g])
        BY <3>1, StagesOfStates DEF TypeOK
      <3>3. [g \in Handlers |-> StageOf(hstate'[g])] = [g \in Handlers |-> StageOf(hstate[g])]
        BY <3>2
      <3> QED
        BY <3>1, <3>3 DEF Service!vars
    <2> QED
      BY <1>2, <2>1, <2>2, <2>3, <2>4 DEF MainNext
  <1>3. CASE UNCHANGED vars
    BY <1>3, <1>q DEF vars
  <1> QED
    BY <1>1, <1>2, <1>3 DEF Next

(***************************************************************************)
(* MysqlMgr implements HandlerService, the promise of IMysqlMgr.h, for any *)
(* number of handlers, ids, threads and databases.                         *)
(***************************************************************************)
THEOREM ServiceImplemented == Spec => ImplementsService
  <1>1. Init => Service!Init
    <2> SUFFICES ASSUME Init PROVE Service!Init
      OBVIOUS
    <2>1. [h \in Handlers |-> StageOf(hstate[h])] = [h \in Handlers |-> "new"]
      BY StagesOfStates DEF Init
    <2>2. \A h \in Handlers : job[h].id = 0 /\ job[h].seq = 0
      BY DEF Init, NoJob
    <2>3. /\ [h \in Handlers |-> job[h].id] \in [Handlers -> Int]
          /\ [h \in Handlers |-> job[h].seq] \in [Handlers -> Int]
      BY <2>2
    <2> QED
      BY <2>1, <2>3 DEF Init, Service!Init
  <1> QED
    BY <1>1, OrderInit, OrderStep, ServiceStep, PTL DEF Spec, ImplementsService, Service!Spec
=============================================================================
