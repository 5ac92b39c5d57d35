------------------------------ MODULE MysqlMgr ------------------------------
(***************************************************************************)
(* The MySQL manager (logic/Core/MysqlMgr): callers on the main thread     *)
(* push handlers with a 64-bit id; the id selects a worker thread and that *)
(* thread's connection; the worker runs the handler's statements; the main *)
(* thread then delivers OnSuccess or OnFail, and OnRelease.  Handlers of   *)
(* other modules that run on the same workers may use the thread's         *)
(* connection too, through the ...InAsyncThread calls.                     *)
(*                                                                         *)
(* The kernel's asynchronous queue is not in the repository.  It is        *)
(* modelled from its interface (IKernel.h) and its use: one FIFO per       *)
(* threadId, drained by the worker with that index, and a main-thread loop *)
(* that delivers finished handlers in any order.                           *)
(*                                                                         *)
(* A MysqlBase is identified with its handler: PushMysqlHandler refuses a  *)
(* handler whose base is set and nothing ever resets it, so a handler has  *)
(* at most one base in its life.                                           *)
(***************************************************************************)
EXTENDS Integers, Sequences, FiniteSets

CONSTANTS
    Handlers,           \* IMysqlHandler objects the callers can push
    Ids,                \* the s64 ids callers use
    Word,               \* 2^64: an s64 id is converted to u64 before the modulo
    AsyncConnectionNum, \* _asyncConnectionNum
    ThreadCount,        \* worker threads of the queue
    Names,              \* the connection names of the configuration
    UnknownName,        \* a connection name that is not configured
    ForeignWorkers,     \* workers on which handlers of other modules run as well
    MaxSql              \* bound: statements one handler issues

ASSUME ConnectionNumAssumption == AsyncConnectionNum \in Nat \ {0}
ASSUME ThreadCountAssumption ==
    ThreadCount \in Nat /\ AsyncConnectionNum <= ThreadCount
ASSUME IdsAssumption == Ids \subseteq Int /\ Word \in Nat \ {0}
ASSUME NamesAssumption == UnknownName \notin Names
ASSUME HandlersAssumption == IsFiniteSet(Handlers)
ASSUME MaxSqlAssumption == MaxSql \in Nat
ASSUME ForeignAssumption == ForeignWorkers \subseteq 1..ThreadCount

CONSTANTS Foreign,      \* stands for a handler of another module on a worker
          None
ASSUME OwnersAssumption ==
    Foreign \notin Handlers /\ None \notin Handlers /\ Foreign # None

Workers     == 1..ThreadCount
Queues      == 1..AsyncConnectionNum
Connections == Names \X Queues
Owners      == Handlers \cup {Foreign}

NoConn == <<UnknownName, 0>>
NoJob  == [id |-> 0, conn |-> NoConn, seq |-> 0]
\* A ticket names one statement: who issued it, and which of his it was.
NoTicket == <<None, 0>>
Tickets  == (Owners \cup {None}) \X Nat
NoOutcome == [ok |-> FALSE, issued |-> 0, of |-> NoTicket]

VARIABLES
    hstate,       \* where a handler and its MysqlBase are
    job,          \* id, connection and push number of a pushed handler
    queue,        \* the kernel's FIFO of each thread
    worker,       \* who runs on each worker thread
    sqlAt,        \* the connection whose execute() a worker is inside
    issued,       \* statements issued by what the worker runs
    ret,          \* whether the worker's last statement succeeded (OnExecute's ret)
    unread,       \* per connection: the statement whose result set was not taken
    errOf,        \* per connection: the statement mysql_errno speaks about
    outcome,      \* what OnExecute left in the MysqlBase
    createBaseCount,
    releaseBaseCount,
    aborted       \* an ASSERT(false) ended the process

vars == <<hstate, job, queue, worker, sqlAt, issued, ret, unread, errOf,
          outcome, createBaseCount, releaseBaseCount, aborted>>

States == {"new", "queued", "executing", "executed", "notified", "releasing", "released"}
Pushed == States \ {"new"}
Live   == {"queued", "executing", "executed", "notified"}
Begun  == Pushed \ {"queued"}
Ended  == Begun \ {"executing"}

TypeOK ==
    /\ hstate \in [Handlers -> States]
    /\ job \in [Handlers -> [id : Ids, conn : Connections, seq : Nat] \cup {NoJob}]
    /\ queue \in [Queues -> Seq(Handlers)]
    /\ worker \in [Workers -> Owners \cup {None}]
    /\ sqlAt \in [Workers -> Connections \cup {NoConn}]
    /\ issued \in [Workers -> Nat]
    /\ ret \in [Workers -> BOOLEAN]
    /\ unread \in [Connections -> Tickets]
    /\ errOf \in [Connections -> Tickets]
    /\ outcome \in [Handlers -> [ok : BOOLEAN, issued : Nat, of : Tickets]]
    /\ createBaseCount \in Nat
    /\ releaseBaseCount \in Nat
    /\ aborted \in BOOLEAN

-----------------------------------------------------------------------------
(* Mutants: plausible slips in the definitions below. *)

\* GetConnectionThreadIdx spreads handlers over the workers by their number.
SpreadThreadIdx(id) == ((id + createBaseCount) % AsyncConnectionNum) + 1

\* GetConnectionThreadIdx forgets that index 0 is the main thread's.
ZeroBasedThreadIdx(id) == (id % Word) % AsyncConnectionNum

\* GetDBConnection hands every asynchronous thread the same connection.
SharedConnection(threadIdx, name) == IF name \in Names THEN <<name, 1>> ELSE NoConn

\* OnRelease without OnBaseRelease.
ForgetsBaseRelease(h) ==
    /\ ~aborted
    /\ hstate[h] = "notified"
    /\ hstate' = [hstate EXCEPT ![h] = "releasing"]
    /\ UNCHANGED <<job, queue, worker, sqlAt, issued, ret, unread, errOf, outcome,
                   createBaseCount, releaseBaseCount, aborted>>

\* execute() succeeds without getting rid of a result set nobody took.
KeepsUnread(t, ok, rows, taken) ==
    LET c == sqlAt[t]
    IN  /\ ~aborted
        /\ c # NoConn
        /\ sqlAt' = [sqlAt EXCEPT ![t] = NoConn]
        /\ ret' = [ret EXCEPT ![t] = ok]
        /\ unread' = [unread EXCEPT ![c] =
                         IF unread[c] = NoTicket /\ ok /\ rows /\ ~taken
                         THEN <<worker[t], issued[t]>> ELSE @]
        /\ errOf' = [errOf EXCEPT ![c] = <<worker[t], issued[t]>>]
        /\ UNCHANGED <<hstate, job, queue, worker, issued, outcome, createBaseCount,
                       releaseBaseCount, aborted>>

\* The handler's OnFail or OnSuccess is left out for handlers that issued nothing.
NotifiesOnlyIssued(h) ==
    /\ ~aborted
    /\ hstate[h] = "executed"
    /\ outcome[h].issued > 0
    /\ hstate' = [hstate EXCEPT ![h] = "notified"]
    /\ UNCHANGED <<job, queue, worker, sqlAt, issued, ret, unread, errOf, outcome,
                   createBaseCount, releaseBaseCount, aborted>>

\* OnRelease takes the base off the handler, which can then be pushed once more.
ResetsBase(h) ==
    /\ ~aborted
    /\ hstate[h] = "releasing"
    /\ hstate' = [hstate EXCEPT ![h] = "new"]
    /\ UNCHANGED <<job, queue, worker, sqlAt, issued, ret, unread, errOf, outcome,
                   createBaseCount, releaseBaseCount, aborted>>

-----------------------------------------------------------------------------
(* Which worker, and which connection. *)

GetConnectionThreadIdx(id) == ((id % Word) % AsyncConnectionNum) + 1

CheckThreadIdx(threadIdx) == 0 < threadIdx /\ threadIdx <= AsyncConnectionNum

GetDBConnection(threadIdx, name) ==
    IF name \in Names THEN <<name, threadIdx>> ELSE NoConn

-----------------------------------------------------------------------------
Init ==
    /\ hstate = [h \in Handlers |-> "new"]
    /\ job = [h \in Handlers |-> NoJob]
    /\ queue = [t \in Queues |-> <<>>]
    /\ worker = [t \in Workers |-> None]
    /\ sqlAt = [t \in Workers |-> NoConn]
    /\ issued = [t \in Workers |-> 0]
    /\ ret = [t \in Workers |-> FALSE]
    /\ unread = [c \in Connections |-> NoTicket]
    /\ errOf = [c \in Connections |-> NoTicket]
    /\ outcome = [h \in Handlers |-> NoOutcome]
    /\ createBaseCount = 0
    /\ releaseBaseCount = 0
    /\ aborted = FALSE

\* An ASSERT(false) of the code: the process ends.
Abort ==
    /\ aborted' = TRUE
    /\ UNCHANGED <<hstate, job, queue, worker, sqlAt, issued, ret, unread, errOf,
                   outcome, createBaseCount, releaseBaseCount>>

(***************************************************************************)
(* The main thread calls PushMysqlHandler, from anywhere: also from inside *)
(* the OnSuccess, OnFail or OnRelease of another handler.                  *)
(***************************************************************************)
PushMysqlHandler(h, id, name) ==
    LET threadIdx  == GetConnectionThreadIdx(id)
        connection == GetDBConnection(threadIdx, name)
    IN  /\ ~aborted
        /\ \/ /\ hstate[h] # "new" \/ connection = NoConn
              /\ Abort
           \/ /\ hstate[h] = "new" /\ connection # NoConn
              /\ hstate' = [hstate EXCEPT ![h] = "queued"]
              /\ job' = [job EXCEPT ![h] =
                            [id |-> id, conn |-> connection, seq |-> createBaseCount]]
              /\ createBaseCount' = createBaseCount + 1
              /\ queue' = [queue EXCEPT ![threadIdx] = Append(@, h)]
              /\ UNCHANGED <<worker, sqlAt, issued, ret, unread, errOf, outcome,
                             releaseBaseCount, aborted>>

\* Worker t takes the next handler of its queue and enters MysqlBase::OnExecute.
OnExecuteBegin(t) ==
    /\ ~aborted
    /\ worker[t] = None
    /\ queue[t] # <<>>
    /\ LET h == Head(queue[t])
       IN  /\ hstate' = [hstate EXCEPT ![h] = "executing"]
           /\ worker' = [worker EXCEPT ![t] = h]
    /\ queue' = [queue EXCEPT ![t] = Tail(@)]
    /\ UNCHANGED <<job, sqlAt, issued, ret, unread, errOf, outcome, createBaseCount,
                   releaseBaseCount, aborted>>

\* ExecSql calls callFun, which enters execute() on the base's connection.
CallFun(t) ==
    /\ ~aborted
    /\ worker[t] \in Handlers
    /\ sqlAt[t] = NoConn
    /\ issued[t] < MaxSql
    /\ sqlAt' = [sqlAt EXCEPT ![t] = job[worker[t]].conn]
    /\ issued' = [issued EXCEPT ![t] = @ + 1]
    /\ UNCHANGED <<hstate, job, queue, worker, ret, unread, errOf, outcome,
                   createBaseCount, releaseBaseCount, aborted>>

(***************************************************************************)
(* execute() returns.  Whatever result set was still unread is gone: with  *)
(* one pending the client library refuses every command until isActive     *)
(* has reopened the handle (module DBConnection).  A SELECT leaves its own *)
(* result set to be taken by mysql_store_result; "taken" says that the     *)
(* caller took it at once, which ExecSqlInAsyncThread with a callback does.*)
(***************************************************************************)
ExecuteReturns(t, ok, rows, taken) ==
    LET c      == sqlAt[t]
        ticket == <<worker[t], issued[t]>>
    IN  /\ ~aborted
        /\ c # NoConn
        /\ taken => worker[t] = Foreign
        /\ sqlAt' = [sqlAt EXCEPT ![t] = NoConn]
        /\ ret' = [ret EXCEPT ![t] = ok]
        /\ unread' = [unread EXCEPT ![c] = IF ok /\ rows /\ ~taken THEN ticket ELSE NoTicket]
        /\ errOf' = [errOf EXCEPT ![c] = ticket]
        /\ UNCHANGED <<hstate, job, queue, worker, issued, outcome, createBaseCount,
                       releaseBaseCount, aborted>>

(***************************************************************************)
(* The running handler escapes a string on its thread's connection.  An    *)
(* empty result makes EscapeStringEx ping: that resets mysql_errno, and    *)
(* with a result set unread it ends in a reopen that drops it.             *)
(***************************************************************************)
EscapeEmptyString(t, name) ==
    LET c == IF worker[t] = Foreign THEN GetDBConnection(t, name) ELSE job[worker[t]].conn
    IN  /\ ~aborted
        /\ worker[t] # None
        /\ sqlAt[t] = NoConn
        /\ \/ /\ worker[t] = Foreign /\ ~CheckThreadIdx(t)
              /\ Abort
           \/ /\ c \in Connections
              /\ unread' = [unread EXCEPT ![c] = NoTicket]
              /\ errOf' = [errOf EXCEPT ![c] = NoTicket]
              /\ UNCHANGED <<hstate, job, queue, worker, sqlAt, issued, ret, outcome,
                             createBaseCount, releaseBaseCount, aborted>>

\* What OnExecute keeps after ExecSql: the result set, or the error.
Store(c, ok) ==
    IF ok THEN [of |-> unread[c], left |-> NoTicket]
          ELSE [of |-> errOf[c],  left |-> unread[c]]

\* ExecSql has returned; OnExecute stores its outcome in the base and returns ret.
OnExecuteEnd(t) ==
    LET h == worker[t]
        c == job[h].conn
    IN  /\ ~aborted
        /\ h \in Handlers
        /\ sqlAt[t] = NoConn
        /\ outcome' = [outcome EXCEPT ![h] =
                          [ok |-> ret[t], issued |-> issued[t], of |-> Store(c, ret[t]).of]]
        /\ unread' = [unread EXCEPT ![c] = Store(c, ret[t]).left]
        /\ hstate' = [hstate EXCEPT ![h] = "executed"]
        /\ worker' = [worker EXCEPT ![t] = None]
        /\ issued' = [issued EXCEPT ![t] = 0]
        /\ ret' = [ret EXCEPT ![t] = FALSE]
        /\ UNCHANGED <<job, queue, sqlAt, errOf, createBaseCount,
                       releaseBaseCount, aborted>>

-----------------------------------------------------------------------------
(* Handlers of other modules, on the same workers. *)

ForeignBegin(t) ==
    /\ ~aborted
    /\ worker[t] = None
    /\ worker' = [worker EXCEPT ![t] = Foreign]
    /\ UNCHANGED <<hstate, job, queue, sqlAt, issued, ret, unread, errOf, outcome, createBaseCount,
                   releaseBaseCount, aborted>>

\* A handler on worker t calls ExecSqlInAsyncThread with its own thread index.
ExecSqlInAsyncThread(t, name) ==
    /\ ~aborted
    /\ worker[t] = Foreign
    /\ sqlAt[t] = NoConn
    /\ issued[t] < MaxSql
    /\ \/ /\ ~CheckThreadIdx(t)
          /\ Abort
       \/ /\ CheckThreadIdx(t)
          /\ GetDBConnection(t, name) # NoConn
          /\ sqlAt' = [sqlAt EXCEPT ![t] = GetDBConnection(t, name)]
          /\ issued' = [issued EXCEPT ![t] = @ + 1]
          /\ UNCHANGED <<hstate, job, queue, worker, ret, unread, errOf, outcome,
                         createBaseCount, releaseBaseCount, aborted>>

ForeignEnd(t) ==
    /\ ~aborted
    /\ worker[t] = Foreign
    /\ sqlAt[t] = NoConn
    /\ worker' = [worker EXCEPT ![t] = None]
    /\ issued' = [issued EXCEPT ![t] = 0]
    /\ ret' = [ret EXCEPT ![t] = FALSE]
    /\ UNCHANGED <<hstate, job, queue, sqlAt, unread, errOf, outcome,
                   createBaseCount, releaseBaseCount, aborted>>

-----------------------------------------------------------------------------
(* The main thread's side of a finished handler. *)

\* OnSuccess(&_result) or OnFailed(_erorCode): the base hands on its outcome.
Notify(h) ==
    /\ ~aborted
    /\ hstate[h] = "executed"
    /\ hstate' = [hstate EXCEPT ![h] = "notified"]
    /\ UNCHANGED <<job, queue, worker, sqlAt, issued, ret, unread, errOf, outcome,
                   createBaseCount, releaseBaseCount, aborted>>

\* OnRelease: the count, then the handler's OnRelease, which may push again ...
OnRelease(h) ==
    /\ ~aborted
    /\ hstate[h] = "notified"
    /\ hstate' = [hstate EXCEPT ![h] = "releasing"]
    /\ releaseBaseCount' = releaseBaseCount + 1
    /\ UNCHANGED <<job, queue, worker, sqlAt, issued, ret, unread, errOf, outcome,
                   createBaseCount, aborted>>

\* ... and DEL this once the handler's OnRelease has returned.
DeleteBase(h) ==
    /\ ~aborted
    /\ hstate[h] = "releasing"
    /\ hstate' = [hstate EXCEPT ![h] = "released"]
    /\ UNCHANGED <<job, queue, worker, sqlAt, issued, ret, unread, errOf, outcome,
                   createBaseCount, releaseBaseCount, aborted>>

-----------------------------------------------------------------------------
WorkerNext(t) ==
    \/ t \in Queues /\ OnExecuteBegin(t)
    \/ CallFun(t)
    \/ \E ok, rows, taken \in BOOLEAN : ExecuteReturns(t, ok, rows, taken)
    \/ \E name \in Names : EscapeEmptyString(t, name)
    \/ OnExecuteEnd(t)
    \/ t \in ForeignWorkers /\ ForeignBegin(t)
    \/ \E name \in Names : ExecSqlInAsyncThread(t, name)
    \/ ForeignEnd(t)

MainNext(h) ==
    \/ \E id \in Ids, name \in Names \cup {UnknownName} : PushMysqlHandler(h, id, name)
    \/ Notify(h)
    \/ OnRelease(h)
    \/ DeleteBase(h)

Next ==
    \/ \E t \in Workers : WorkerNext(t)
    \/ \E h \in Handlers : MainNext(h)

(***************************************************************************)
(* Workers and the main loop keep running.  The queue is a FIFO, so a      *)
(* worker that finishes handlers again and again comes to the one at the   *)
(* head: strong fairness of OnExecuteBegin.  execute() returns (shown in   *)
(* module DBConnection) and ExecSql returns.                               *)
(***************************************************************************)
Fairness ==
    /\ \A t \in Queues : SF_vars(OnExecuteBegin(t))
    /\ \A t \in Workers :
          /\ WF_vars(\E ok, rows, taken \in BOOLEAN : ExecuteReturns(t, ok, rows, taken))
          /\ WF_vars(OnExecuteEnd(t))
          /\ WF_vars(ForeignEnd(t))
    /\ \A h \in Handlers : WF_vars(Notify(h) \/ OnRelease(h) \/ DeleteBase(h))

Spec == Init /\ [][Next]_vars
FairSpec == Spec /\ Fairness

-----------------------------------------------------------------------------
(***************************************************************************)
(* The order IMysqlMgr.h promises: of two handlers pushed with one id the  *)
(* earlier has finished executing before the later starts, whatever the    *)
(* connection names and whatever else the workers do meanwhile.            *)
(***************************************************************************)
SameIdInOrder ==
    \A g, h \in Handlers :
        /\ hstate[g] \in Pushed /\ hstate[h] \in Begun
        /\ job[g].id = job[h].id
        /\ job[g].seq < job[h].seq
        => hstate[g] \in Ended

(***************************************************************************)
(* A DBConnection has no lock: two workers are never inside execute() on   *)
(* the same connection, pushed handlers and ExecSqlInAsyncThread together. *)
(***************************************************************************)
OneThreadPerConnection ==
    \A s, t \in Workers : sqlAt[s] # NoConn /\ sqlAt[s] = sqlAt[t] => s = t

(***************************************************************************)
(* The profile's "Create Num" and "Release Num" differ by the number of    *)
(* bases whose OnRelease has not run, also while OnRelease pushes.         *)
(***************************************************************************)
BasesAccounted ==
    createBaseCount - releaseBaseCount = Cardinality({h \in Handlers : hstate[h] \in Live})

(***************************************************************************)
(* A handler that issued a statement is told the outcome of its own last   *)
(* statement or of none, never a result set or an error left on the        *)
(* connection by whoever ran there before.                                 *)
(***************************************************************************)
OutcomeIsOwn ==
    \A h \in Handlers :
        hstate[h] \in Ended /\ outcome[h].issued > 0
            => outcome[h].of \in {<<h, outcome[h].issued>>, NoTicket}

(***************************************************************************)
(* Every handler PushMysqlHandler accepted is notified and released, or an *)
(* ASSERT ends the process first.                                          *)
(***************************************************************************)
PushedIsReleased ==
    \A h \in Handlers : hstate[h] = "queued" ~> hstate[h] = "released" \/ aborted

-----------------------------------------------------------------------------
(* The abstract service: queues, workers and connections are forgotten. *)

StageOf(state) ==
    CASE state = "queued"    -> "waiting"
      [] state = "executing" -> "running"
      [] state = "executed"  -> "done"
      [] state = "notified"  -> "told"
      [] state = "releasing" -> "released"
      [] OTHER               -> state

Service == INSTANCE HandlerService WITH
    Jobs   <- Handlers,
    Keys   <- Ids,
    stage  <- [h \in Handlers |-> StageOf(hstate[h])],
    key    <- [h \in Handlers |-> job[h].id],
    rank   <- [h \in Handlers |-> job[h].seq],
    pushes <- createBaseCount,
    dead   <- aborted

(***************************************************************************)
(* MysqlMgr implements HandlerService: handlers of one id run one after    *)
(* the other in push order, each is told its outcome once and after it     *)
(* ran, and released once and after it was told, whatever the workers do.  *)
(***************************************************************************)
ImplementsService == Service!Spec

-----------------------------------------------------------------------------
(***************************************************************************)
(* The inductive invariant: a queue holds the queued handlers of its       *)
(* thread in the order of their push numbers, a worker runs only a handler *)
(* of its own thread, and order holds per thread, which is more than per   *)
(* id.  Owners is needed for OutcomeIsOwn only.                            *)
(***************************************************************************)
Thread(h) == job[h].conn[2]

JobsPlaced ==
    \A h \in Handlers : hstate[h] # "new" =>
        /\ job[h] # NoJob
        /\ job[h].seq < createBaseCount
        /\ Thread(h) = GetConnectionThreadIdx(job[h].id)

QueuesHoldQueued ==
    \A t \in Queues : \A i \in 1..Len(queue[t]) :
        hstate[queue[t][i]] = "queued" /\ Thread(queue[t][i]) = t

QueuedAreInQueues ==
    \A h \in Handlers : hstate[h] = "queued" =>
        \E i \in 1..Len(queue[Thread(h)]) : queue[Thread(h)][i] = h

QueuesSorted ==
    \A t \in Queues : \A i, j \in 1..Len(queue[t]) :
        i < j => job[queue[t][i]].seq < job[queue[t][j]].seq

WorkersExecute ==
    /\ \A t \in Workers : worker[t] \in Handlers =>
          hstate[worker[t]] = "executing" /\ Thread(worker[t]) = t
    /\ \A h \in Handlers : hstate[h] = "executing" => worker[Thread(h)] = h

InOrder ==
    \A g, h \in Handlers :
        /\ hstate[g] \in Pushed /\ hstate[h] \in Begun
        /\ Thread(g) = Thread(h)
        /\ job[g].seq < job[h].seq
        => hstate[g] \in Ended

SqlOnOwnThread ==
    \A t \in Workers : sqlAt[t] # NoConn => sqlAt[t][2] = t /\ worker[t] # None

SqlOfRunning ==
    \A t \in Workers : sqlAt[t] # NoConn /\ worker[t] \in Handlers
        => sqlAt[t] = job[worker[t]].conn

IdleIsReset == \A t \in Workers : worker[t] = None => issued[t] = 0

ConnectionSpeaksOfOwner ==
    \A t \in Workers :
        worker[t] \in Handlers /\ sqlAt[t] = NoConn /\ issued[t] > 0
            => /\ unread[job[worker[t]].conn] \in {NoTicket, <<worker[t], issued[t]>>}
               /\ errOf[job[worker[t]].conn] \in {NoTicket, <<worker[t], issued[t]>>}

OrderInv == TypeOK /\ JobsPlaced /\ QueuesHoldQueued /\ QueuedAreInQueues
            /\ QueuesSorted /\ WorkersExecute /\ InOrder

OwnerInv == OrderInv /\ SqlOnOwnThread /\ SqlOfRunning /\ IdleIsReset
            /\ ConnectionSpeaksOfOwner /\ OutcomeIsOwn
=============================================================================
