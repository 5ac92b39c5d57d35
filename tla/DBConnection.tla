---------------------------- MODULE DBConnection ----------------------------
(***************************************************************************)
(* One MySQL connection (logic/Core/MysqlMgr/DBConnection.cpp) and the one *)
(* thread that uses it.  Every call into the client library is a step, so  *)
(* the server may go away, come back or drop the link between any two.     *)
(*                                                                         *)
(* The client library is external.  Its handle is                          *)
(*   "up"     connected and ready for a command,                           *)
(*   "unread" connected, a result set not yet taken: every command is      *)
(*            refused as out of sync,                                      *)
(*   "cut"    the same, but the link broke since: it is noticed only when  *)
(*            the set is taken,                                            *)
(*   "lost"   the link broke: the next command reconnects first, because   *)
(*            open() sets MYSQL_OPT_RECONNECT,                             *)
(*   "closed" initialised and never connected since: every command fails.  *)
(* The caller takes a result set with MysqlResult::Init (module            *)
(* MysqlResult) or leaves it unread.                                       *)
(* A statement may reach the server and its answer still be lost, so how   *)
(* often the server ran it is tracked apart from what execute() returned.  *)
(***************************************************************************)
EXTENDS Integers, Sequences, MysqlResult

CONSTANTS
    TimeOut,      \* ticks in MINUTE * RECONNECT_TIME_OUT
    MaxExecTime,  \* bound: the execution times a StopWatch measures
    MaxCalls,     \* bound: calls made on the connection
    MaxOutages    \* bound: how often the link or the server fails

ASSUME TimeOutAssumption == TimeOut \in Nat
ASSUME BoundsAssumption ==
    MaxExecTime \in Nat /\ MaxCalls \in Nat /\ MaxOutages \in Nat

VARIABLES
    pc,           \* where the thread is
    op,           \* the public call in progress
    kind,         \* the statement: returns rows, returns none, or is in error
    handle,       \* the client library's handle
    server,       \* whether the server accepts connections
    elapsed,      \* ticks since the ping loop began
    applied,      \* times the server ran the statement of this execute()
    resultOf,     \* the call whose result set is unread, 0 for none
    set,          \* the rows of the result set taken last
    result,       \* ... and the MysqlResult made of them
    calls,        \* calls begun
    ret,          \* what isActive, and then the call, returns
    execCount, failCount, maxExecTime, minExecTime,  \* _traceInfo
    outages,      \* failures so far
    outagesBefore \* ... before this call

callVars  == <<op, kind, calls, outagesBefore>>
traceInfo == <<execCount, failCount, maxExecTime, minExecTime>>
taken     == <<set, result>>
vars == <<pc, callVars, handle, server, elapsed, applied, resultOf, taken, ret,
          traceInfo, outages>>

Kinds   == {"rows", "norows", "bad"}
Handles == {"up", "unread", "cut", "lost", "closed"}
Connected == {"up", "unread"}
Points  == {"idle", "query", "ping", "loop", "check", "reopen", "requery", "return"}

TypeOK ==
    /\ pc \in Points /\ op \in {"execute", "escape", "none"} /\ kind \in Kinds
    /\ handle \in Handles /\ server \in BOOLEAN /\ ret \in BOOLEAN
    /\ elapsed \in 0..(TimeOut + 1)
    /\ applied \in Nat /\ resultOf \in 0..calls /\ calls \in 0..MaxCalls
    /\ outages \in 0..MaxOutages /\ outagesBefore \in 0..outages
    /\ execCount \in Nat /\ failCount \in 0..execCount
    /\ maxExecTime \in 0..MaxExecTime /\ minExecTime \in 0..MaxExecTime
    /\ set \in Seq(Rows) /\ result.rows \in Seq(Rows)
    /\ result.array \in [Fields -> 0..MaxLength]

-----------------------------------------------------------------------------
(* Mutants: plausible slips in the definitions below. *)

\* InnerExecute tries again as long as the statement fails.
RetriesAgain(p) == "ping"

\* InnerExecute takes mysql_real_query's 0 for a failure the first time.
TakesZeroForFailure(p) == IF p = "query" THEN "ping" ELSE "return"

\* A connection found alive is taken for a statement executed.
ActiveIsDone == "return"

\* The ping loop has no way out but a successful ping.
NeverExpires == FALSE

\* reopen() initialises the handle and forgets to open it.
InitOnly ==
    /\ pc = "reopen"
    /\ resultOf' = 0 /\ handle' = "closed" /\ ret' = FALSE /\ pc' = "return"
    /\ UNCHANGED <<callVars, server, elapsed, applied, taken, traceInfo, outages>>

\* execute() counts a statement only when it fails.
UncountedExecute(k) ==
    /\ pc = "idle" /\ calls < MaxCalls
    /\ pc' = "query" /\ op' = "execute" /\ kind' = k
    /\ calls' = calls + 1 /\ applied' = 0 /\ outagesBefore' = outages
    /\ set' = <<>> /\ result' = NoResult
    /\ UNCHANGED <<handle, server, elapsed, resultOf, ret, traceInfo, outages>>

-----------------------------------------------------------------------------
(* The environment: the server and the network. *)

\* The link breaks, if there is one.
Broken(h) == CASE h = "up" -> "lost" [] h = "unread" -> "cut" [] OTHER -> h

LinkLost ==
    /\ outages < MaxOutages /\ handle \in Connected
    /\ outages' = outages + 1
    /\ handle' = Broken(handle)
    /\ UNCHANGED <<pc, callVars, server, elapsed, applied, resultOf, taken, ret, traceInfo>>

ServerDown ==
    /\ outages < MaxOutages /\ server
    /\ outages' = outages + 1
    /\ server' = FALSE
    /\ handle' = Broken(handle)
    /\ UNCHANGED <<pc, callVars, elapsed, applied, resultOf, taken, ret, traceInfo>>

ServerUp ==
    /\ ~server /\ server' = TRUE
    /\ UNCHANGED <<pc, callVars, handle, elapsed, applied, resultOf, taken, ret, traceInfo, outages>>

\* Time passes while isActive loops.
Tick ==
    /\ pc \in {"loop", "check"} /\ elapsed <= TimeOut
    /\ elapsed' = elapsed + 1
    /\ UNCHANGED <<pc, callVars, handle, server, applied, resultOf, taken, ret, traceInfo, outages>>

-----------------------------------------------------------------------------
(* The client library. *)

\* A command gets through: on a live link, or after the automatic reconnect.
Reachable == handle = "up" \/ (handle = "lost" /\ server)

-----------------------------------------------------------------------------
(* The calls. *)

Init ==
    /\ pc = "idle" /\ op = "none" /\ kind = "norows"
    /\ handle = "up" /\ server = TRUE
    /\ elapsed = 0 /\ applied = 0 /\ resultOf = 0 /\ calls = 0 /\ ret = FALSE
    /\ execCount = 0 /\ failCount = 0 /\ maxExecTime = 0 /\ minExecTime = 0
    /\ outages = 0 /\ outagesBefore = 0 /\ set = <<>> /\ result = NoResult

Execute(k) ==
    /\ pc = "idle" /\ calls < MaxCalls
    /\ pc' = "query" /\ op' = "execute" /\ kind' = k
    /\ calls' = calls + 1 /\ applied' = 0 /\ outagesBefore' = outages
    /\ execCount' = execCount + 1
    /\ set' = <<>> /\ result' = NoResult     \* every statement has a MysqlResult of its own
    /\ UNCHANGED <<handle, server, elapsed, resultOf, ret, failCount, maxExecTime,
                   minExecTime, outages>>

\* EscapeStringEx of an empty string: the escaped size is 0, which it takes
\* for a failure, so it checks the connection.  (Other strings change nothing.)
EscapeStringEx ==
    /\ pc = "idle" /\ calls < MaxCalls
    /\ pc' = "ping" /\ op' = "escape"
    /\ calls' = calls + 1 /\ applied' = 0 /\ outagesBefore' = outages
    /\ set' = <<>> /\ result' = NoResult
    /\ UNCHANGED <<kind, handle, server, elapsed, resultOf, ret, traceInfo, outages>>

\* The caller takes the result set (MysqlResult::Init), or it stays unread.  If
\* the link broke, the rows that had not arrived are lost and the library has
\* no set to give: Init takes that for a statement without rows.
StoreResult(rows) ==
    /\ pc = "idle" /\ handle \in {"unread", "cut"}
    /\ set' = rows
    /\ \/ result' = InitResult(rows)
       \/ handle = "cut" /\ result' = NoResult
    /\ handle' = IF handle = "unread" THEN "up" ELSE "lost"
    /\ resultOf' = 0
    /\ UNCHANGED <<pc, callVars, server, elapsed, applied, ret, traceInfo, outages>>

\* InnerExecute: where a query that succeeded, or failed, at point p leads.
AfterSuccess(p) == "return"
AfterFailure(p) == IF p = "query" THEN "ping" ELSE "return"

\* mysql_real_query answers.
QueryAnswered ==
    /\ pc \in {"query", "requery"} /\ Reachable
    /\ IF kind = "bad"
       THEN /\ handle' = "up" /\ ret' = FALSE /\ pc' = AfterFailure(pc)
            /\ UNCHANGED <<applied, resultOf>>
       ELSE /\ handle' = IF kind = "rows" THEN "unread" ELSE "up"
            /\ resultOf' = IF kind = "rows" THEN calls ELSE 0
            /\ applied' = applied + 1
            /\ ret' = TRUE /\ pc' = AfterSuccess(pc)
    /\ UNCHANGED <<callVars, server, elapsed, taken, traceInfo, outages>>

\* The link breaks under the query: before the server ran it, or after.
QueryLost ==
    /\ pc \in {"query", "requery"} /\ Reachable
    /\ outages < MaxOutages /\ outages' = outages + 1
    /\ applied' \in IF kind = "bad" THEN {applied} ELSE {applied, applied + 1}
    /\ handle' = "lost" /\ ret' = FALSE /\ pc' = AfterFailure(pc)
    /\ UNCHANGED <<callVars, server, elapsed, resultOf, taken, traceInfo>>

\* The library refuses the query, or cannot reconnect.
QueryRefused ==
    /\ pc \in {"query", "requery"} /\ ~Reachable
    /\ ret' = FALSE /\ pc' = AfterFailure(pc)
    /\ UNCHANGED <<callVars, handle, server, elapsed, applied, resultOf, taken, traceInfo, outages>>

\* isActive() returned true: execute() queries once more, EscapeStringEx returns.
AfterActive == IF op = "execute" THEN "requery" ELSE "return"

\* isActive: a ping, first alone and then in the loop.
Ping ==
    /\ pc \in {"ping", "loop"}
    /\ IF Reachable
       THEN handle' = "up" /\ ret' = TRUE /\ pc' = AfterActive /\ UNCHANGED elapsed
       ELSE /\ UNCHANGED <<handle, ret>>
            /\ pc' = IF pc = "ping" THEN "loop" ELSE "check"
            /\ elapsed' = IF pc = "ping" THEN 0 ELSE elapsed
    /\ UNCHANGED <<callVars, server, applied, resultOf, taken, traceInfo, outages>>

Expired == elapsed > TimeOut

CheckTime ==
    /\ pc = "check"
    /\ pc' = IF Expired THEN "reopen" ELSE "loop"
    /\ UNCHANGED <<callVars, handle, server, elapsed, applied, resultOf, taken, ret, traceInfo, outages>>

\* reopen(): close, init and open; open() also sets the character set.
Reopen ==
    /\ pc = "reopen"
    /\ resultOf' = 0
    /\ \/ /\ server
          /\ handle' = "up" /\ ret' = TRUE /\ pc' = AfterActive
          /\ UNCHANGED outages
       \/ /\ server /\ outages < MaxOutages       \* the character set fails
          /\ outages' = outages + 1
          /\ handle' = "up" /\ ret' = FALSE /\ pc' = "return"
       \/ /\ ~server
          /\ handle' = "closed" /\ ret' = FALSE /\ pc' = "return"
          /\ UNCHANGED outages
    /\ UNCHANGED <<callVars, server, elapsed, applied, taken, traceInfo>>

\* The end of execute() with its statistics, or of EscapeStringEx.
Return(execTime) ==
    /\ pc = "return"
    /\ pc' = "idle" /\ op' = "none"
    /\ IF op = "execute"
       THEN /\ maxExecTime' = IF execTime > maxExecTime THEN execTime ELSE maxExecTime
            /\ minExecTime' = IF execTime < minExecTime THEN execTime ELSE minExecTime
            /\ failCount' = IF ret THEN failCount ELSE failCount + 1
       ELSE UNCHANGED <<maxExecTime, minExecTime, failCount>>
    /\ UNCHANGED <<kind, calls, outagesBefore, handle, server, elapsed, applied,
                   resultOf, taken, ret, execCount, outages>>

-----------------------------------------------------------------------------
ThreadStep ==
    \/ QueryAnswered \/ QueryLost \/ QueryRefused
    \/ Ping \/ CheckTime \/ Reopen
    \/ \E execTime \in 0..MaxExecTime : Return(execTime)

Next ==
    \/ \E k \in Kinds : Execute(k)
    \/ EscapeStringEx
    \/ \E rows \in Sets : StoreResult(rows)
    \/ ThreadStep
    \/ LinkLost \/ ServerDown \/ ServerUp \/ Tick

(* The calling thread keeps running and time passes, so a call into the    *)
(* client library is assumed to return, with success or with an error:     *)
(* open() sets no read time-out, so a peer that stays silent on a live     *)
(* link would hold it.  Nothing else is assumed of the server, which may   *)
(* stay away for ever, or of the callers.                                  *)
Fairness == WF_vars(ThreadStep) /\ WF_vars(Tick)

Spec == Init /\ [][Next]_vars
FairSpec == Spec /\ Fairness

-----------------------------------------------------------------------------
(***************************************************************************)
(* InnerExecute's one retry: however the link and the server behave, the   *)
(* server runs a statement at most twice for one execute().                *)
(***************************************************************************)
AtMostTwice == applied <= 2

(***************************************************************************)
(* ... and twice only if something failed during this very call: a result  *)
(* set left unread, or a bad statement, is no reason to run one twice.     *)
(***************************************************************************)
TwiceOnlyAfterOutage == applied = 2 => outages > outagesBefore

(***************************************************************************)
(* A call leaves no result set but its own: when execute() returns true    *)
(* the server ran the statement, and its result set, if it has one, is     *)
(* there to be taken; after a failure, and after EscapeStringEx of an      *)
(* empty string, none is there, also if an earlier call left one unread.   *)
(* This is what MysqlMgr's ExecuteReturns and EscapeEmptyString rely on.   *)
(***************************************************************************)
SuccessIsOwnResult ==
    pc = "return" =>
        LET success == op = "execute" /\ ret
        IN  /\ success => applied > 0
            /\ resultOf = IF success /\ kind = "rows" THEN calls ELSE 0

(***************************************************************************)
(* MysqlResult::Init keeps every row of the set in order, unless something *)
(* failed since the statement was begun: a link lost then makes it look    *)
(* like a statement without rows, which is still reported as a success.    *)
(***************************************************************************)
RowsComplete == result.rows = set \/ outages > outagesBefore

(***************************************************************************)
(* GetBuff reports the true length of every field of the last row, so of   *)
(* the only row of a result like the one MysqlTest.cpp:187 asserts about.  *)
(* Rows before the last report the last row's lengths.                     *)
(***************************************************************************)
LastRowIsExact ==
    LET last == Len(result.rows)
    IN  last > 0 => \A f \in Fields : GetBuff(result, last, f) = set[last][f]

(***************************************************************************)
(* isActive's loop ends: every execute() and every EscapeStringEx returns, *)
(* even if the server never comes back.                                    *)
(***************************************************************************)
CallReturns == op # "none" ~> op = "none"

(***************************************************************************)
(* Once the server stays up and the link holds, a good statement succeeds, *)
(* whatever state earlier failures left the handle in.                     *)
(***************************************************************************)
Recovers ==
    pc = "query" /\ kind # "bad" /\ server /\ outages = MaxOutages
        ~> pc = "return" /\ op = "execute" /\ ret

-----------------------------------------------------------------------------
(***************************************************************************)
(* The inductive invariant.  Points of a call: how often the statement can *)
(* have run by then, and that once it ran and failed something broke.      *)
(* Handles: a result set is unread exactly while resultOf names its call,  *)
(* it is never left over at the second query, a live link means that the   *)
(* server is up, and a set whose link broke saw an outage.                 *)
(***************************************************************************)
CallPoints ==
    /\ pc = "idle" <=> op = "none"
    /\ pc \in {"query", "requery"} => op = "execute"
    /\ op # "none" => calls > 0
    /\ op = "execute" => failCount < execCount

Retrying == {"ping", "loop", "check", "reopen", "requery"}

RunsCounted ==
    /\ pc = "query" => applied = 0
    /\ pc \in Retrying => applied <= 1 /\ (applied = 1 => outages > outagesBefore)
    /\ op = "escape" => applied = 0

HandleOwnsSet ==
    /\ handle \in {"unread", "cut"} <=> resultOf # 0
    /\ pc = "requery" => handle \in {"up", "lost"}
    /\ pc = "idle" => resultOf \in {0, calls}
    /\ handle \in Connected => server
    /\ handle = "cut" /\ resultOf = calls => outages > outagesBefore

ResultOfSet ==
    \/ result = NoResult
    \/ /\ result.rows = set
       /\ set # <<>> => result.array = FetchLengths(set[Len(set)])

CallInv == TypeOK /\ CallPoints /\ RunsCounted /\ AtMostTwice /\ TwiceOnlyAfterOutage
           /\ HandleOwnsSet /\ SuccessIsOwnResult /\ RowsComplete /\ ResultOfSet
=============================================================================
