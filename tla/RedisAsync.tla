----------------------------- MODULE RedisAsync -----------------------------
(***************************************************************************)
(* The asynchronous Redis calls: the main thread puts a command on the     *)
(* list of the connection its taskId selects (addAsyncTask) and posts that *)
(* connection's task handler to the queue; a worker cuts the list and      *)
(* sends its commands in batches (OnExecRedisTask).                        *)
(*                                                                         *)
(* Every connection's _threadIdx keeps its initial value 1, so all task    *)
(* handlers would run on worker 1 and use the context of that worker.      *)
(***************************************************************************)
EXTENDS Integers, Sequences, FiniteSets

CONSTANTS
    ConnectNum,     \* s_connectNum
    TaskIds,        \* the s64 task ids callers use
    Word,           \* 2^64: a task id is converted to u64 before the modulo
    BatchCount,     \* REDIS_ASYNC_BATCH_CMD_COUNT
    MaxTasks        \* bound: commands added

Connections == 1..ConnectNum

VARIABLES
    added,      \* commands added so far
    cmdList,    \* _threadCmdList of each connection
    postTask,   \* _postTask of each connection
    posted,     \* the queue of worker 1: connections whose handler was posted
    running,    \* the connection whose OnExecRedisTask runs, or 0
    cut,        \* what is left of the list it cut off
    sent        \* commands handed to batchExecCmd

vars == <<added, cmdList, postTask, posted, running, cut, sent>>

Init ==
    /\ added = 0 /\ sent = {}
    /\ cmdList = [c \in Connections |-> <<>>]
    /\ postTask = [c \in Connections |-> FALSE]
    /\ posted = <<>> /\ running = 0 /\ cut = <<>>

GetRedisConnectionInAsync(taskId) == ((taskId % Word) % ConnectNum) + 1

(***************************************************************************)
(* The test whether the handler is to be posted assigns, "if               *)
(* (connection._postTask = false)": it resets the flag and is never true.  *)
(***************************************************************************)
MustPost(c) == FALSE

AddAsyncTask(taskId, cmd) ==
    LET c == GetRedisConnectionInAsync(taskId)
    IN  /\ cmdList' = [cmdList EXCEPT ![c] = <<cmd>> \o @]
        /\ IF MustPost(c)
           THEN posted' = Append(posted, c) /\ postTask' = [postTask EXCEPT ![c] = TRUE]
           ELSE postTask' = [postTask EXCEPT ![c] = FALSE] /\ UNCHANGED posted
        /\ UNCHANGED <<running, cut, sent>>

\* Any Async... call: it builds a command, commits it, adds it and returns
\* REDIS_RESULT_OK.  A command is its number; what it says makes no difference here.
AsyncCall(taskId) ==
    /\ added < MaxTasks
    /\ added' = added + 1
    /\ AddAsyncTask(taskId, added + 1)

\* OnExecRedisTask cuts off the list.
CutList ==
    /\ running = 0 /\ posted # <<>>
    /\ running' = Head(posted) /\ posted' = Tail(posted)
    /\ cut' = cmdList[Head(posted)]
    /\ cmdList' = [cmdList EXCEPT ![Head(posted)] = <<>>]
    /\ UNCHANGED <<added, postTask, sent>>

\* A batch of the list goes through batchExecCmd, which does not report failures.
BatchExecCmd ==
    LET n == IF Len(cut) < BatchCount THEN Len(cut) ELSE BatchCount
    IN  /\ cut # <<>>
        /\ sent' = sent \cup {cut[i] : i \in 1..n}
        /\ cut' = SubSeq(cut, n + 1, Len(cut))
        /\ UNCHANGED <<added, cmdList, postTask, posted, running>>

\* The list is done: _postTask = false.
TaskDone ==
    /\ running # 0 /\ cut = <<>>
    /\ postTask' = [postTask EXCEPT ![running] = FALSE]
    /\ running' = 0
    /\ UNCHANGED <<added, cmdList, posted, cut, sent>>

WorkerStep == CutList \/ BatchExecCmd \/ TaskDone
Next == WorkerStep \/ \E taskId \in TaskIds : AsyncCall(taskId)

\* The worker runs the handlers posted to it.
FairSpec == Init /\ [][Next]_vars /\ WF_vars(WorkerStep)

(***************************************************************************)
(* Every command an Async... call accepted is submitted to Redis:          *)
(* IRedisMgr.h:119 says commands of one taskid run one after the other on  *)
(* one thread and are submitted through a pipeline.                        *)
(***************************************************************************)
AddedIsSent ==
    \A cmd \in 1..MaxTasks : added >= cmd ~> cmd \in sent
=============================================================================
