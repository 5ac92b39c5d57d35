---------------------------- MODULE MysqlConfig -----------------------------
(***************************************************************************)
(* MysqlMgr::LoadConfigFile: how many connections each configured name is  *)
(* given, from which GetConnectionThreadIdx and GetDBConnection (module    *)
(* MysqlMgr) later take a thread and a connection.  The XML reader is      *)
(* external: an attribute that is missing reads as 0.                      *)
(***************************************************************************)
EXTENDS Integers, Sequences, SequencesExt

CONSTANTS
    Names,          \* names a <connection> element may have
    MaxElements,    \* bound: <connection> elements
    MaxNum          \* bound: the two numbers of the configuration

ASSUME BoundsAssumption == MaxElements \in Nat /\ MaxNum \in Nat

Configs == [hasMysql : BOOLEAN, threadCount : (-1)..MaxNum, connectionNum : (-1)..MaxNum,
            default : Names, connections : SeqOf(Names, MaxElements)]

VARIABLES
    pc,       \* "start", "element", "open", "default", and "loaded", "false": returned
    config,
    at,       \* the <connection> element of the loop
    i,        \* the inner loop's count of connections
    connctionMap,         \* name to number of open connections; -1: not in the map
    asyncConnectionNum,   \* _asyncConnectionNum
    mainConnection        \* the name _mainConnection points to, once set

vars == <<pc, config, at, i, connctionMap, asyncConnectionNum, mainConnection>>

None == "none"
ASSUME NamesAssumption == None \notin Names

TypeOK ==
    /\ pc \in {"start", "element", "open", "default", "loaded", "false"}
    /\ config \in Configs /\ at \in 1..(MaxElements + 1) /\ i \in 0..(MaxNum + 1)
    /\ connctionMap \in [Names -> (-1)..(MaxNum + 1)]
    /\ asyncConnectionNum \in (-1)..MaxNum
    /\ mainConnection \in Names \cup {None}

-----------------------------------------------------------------------------
(* Mutants: plausible slips in the definitions below. *)

\* More connections than threads are allowed.
NotClamped(threadCount, connectionNum) ==
    (IF connectionNum < 0 THEN 1 ELSE connectionNum) + 1

\* A name that is there already is given the connections of the second element too.
Merged(name) == FALSE

-----------------------------------------------------------------------------
Init ==
    /\ pc = "start" /\ config \in Configs /\ at = 1 /\ i = 0
    /\ connctionMap = [n \in Names |-> -1]
    /\ asyncConnectionNum = 0 /\ mainConnection = None

\* Connections per name: at least 1 unless 0 is asked for, at most one per thread,
\* and one more for the main thread.
ConnectionNum(threadCount, connectionNum) ==
    LET wanted == IF connectionNum < 0 THEN 1 ELSE connectionNum
    IN  1 + IF wanted > threadCount THEN threadCount ELSE wanted

PerName == ConnectionNum(config.threadCount, config.connectionNum)
Name == config.connections[at]

ReadConfig ==
    /\ pc = "start"
    /\ pc' = IF config.hasMysql THEN "element" ELSE "false"
    /\ UNCHANGED <<config, at, i, connctionMap, asyncConnectionNum, mainConnection>>

\* A second element of a name is refused.
Duplicate(name) == connctionMap[name] # -1

NextElement ==
    /\ pc = "element"
    /\ \/ /\ at > Len(config.connections)
          /\ pc' = "default"
          /\ UNCHANGED <<i, connctionMap>>
       \/ /\ at <= Len(config.connections) /\ Duplicate(Name)
          /\ pc' = "false"
          /\ UNCHANGED <<i, connctionMap>>
       \/ /\ at <= Len(config.connections) /\ ~Duplicate(Name)
          /\ connctionMap' = [connctionMap EXCEPT ![Name] = IF @ = -1 THEN 0 ELSE @]
          /\ i' = 0 /\ pc' = "open"
    /\ UNCHANGED <<config, at, asyncConnectionNum, mainConnection>>

\* One connection of the element's name: open() works or fails.
OpenConnection ==
    /\ pc = "open" /\ i < PerName
    /\ \/ /\ connctionMap' = [connctionMap EXCEPT ![Name] = @ + 1]
          /\ i' = i + 1 /\ UNCHANGED pc
       \/ pc' = "false" /\ UNCHANGED <<i, connctionMap>>
    /\ UNCHANGED <<config, at, asyncConnectionNum, mainConnection>>

ElementDone ==
    /\ pc = "open" /\ i >= PerName
    /\ asyncConnectionNum' = PerName - 1
    /\ at' = at + 1 /\ pc' = "element"
    /\ UNCHANGED <<config, i, connctionMap, mainConnection>>

FindDefault ==
    /\ pc = "default"
    /\ \/ /\ connctionMap[config.default] # -1
          /\ mainConnection' = config.default /\ pc' = "loaded"
       \/ /\ connctionMap[config.default] = -1
          /\ pc' = "false" /\ UNCHANGED mainConnection
    /\ UNCHANGED <<config, at, i, connctionMap, asyncConnectionNum>>

Next == ReadConfig \/ NextElement \/ OpenConnection \/ ElementDone \/ FindDefault
Spec == Init /\ [][Next]_vars

-----------------------------------------------------------------------------
(***************************************************************************)
(* Once LoadConfigFile returned true, every configured name has exactly    *)
(* the connections GetDBConnection indexes: one for the main thread and    *)
(* one for each thread 1.._asyncConnectionNum, however many elements and   *)
(* whatever numbers the configuration has.                                 *)
(***************************************************************************)
IndexInRange ==
    pc = "loaded" =>
        /\ mainConnection # None
        /\ \A n \in Names : connctionMap[n] # -1 => connctionMap[n] = asyncConnectionNum + 1

(***************************************************************************)
(* What module MysqlMgr assumes, 1 <= _asyncConnectionNum <= threads, holds*)
(* unless the configuration has connectionnum 0 or no thread: then         *)
(* GetConnectionThreadIdx divides by 0 (or by -1).                         *)
(***************************************************************************)
DivisorUnlessZero ==
    pc = "loaded" /\ config.connectionNum # 0 /\ config.threadCount > 0
        => asyncConnectionNum \in 1..config.threadCount

-----------------------------------------------------------------------------
(***************************************************************************)
(* The inductive invariant: in the inner loop the element's name has as    *)
(* many connections as turns were made, and every other name in the map    *)
(* has all of its connections, with _asyncConnectionNum to match.          *)
(***************************************************************************)
Opening ==
    pc = "open" =>
        at <= Len(config.connections) /\ connctionMap[Name] = i /\ i <= PerName

OthersComplete ==
    pc # "false" =>
        \A n \in Names : connctionMap[n] # -1 =>
            \/ pc = "open" /\ n = Name
            \/ connctionMap[n] = PerName /\ asyncConnectionNum = PerName - 1

DefaultFound ==
    pc = "loaded" => mainConnection # None /\ connctionMap[config.default] # -1

ConfigInv == TypeOK /\ Opening /\ OthersComplete /\ DefaultFound
=============================================================================
