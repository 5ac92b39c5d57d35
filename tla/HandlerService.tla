--------------------------- MODULE HandlerService ---------------------------
(***************************************************************************)
(* What IMysqlMgr.h promises of PushMysqlHandler: jobs with a key.  A job  *)
(* starts only when every job pushed before it with the same key is done;  *)
(* jobs of different keys run in any order.  After it is done its owner is *)
(* told the outcome, once, and then it is released.  The service may die.  *)
(***************************************************************************)
EXTENDS Integers

CONSTANTS Jobs, Keys

VARIABLES
    stage,   \* where each job is
    key,     \* its key, once pushed
    rank,    \* its place among the pushes
    pushes,  \* how many pushes there were
    dead

vars == <<stage, key, rank, pushes, dead>>

Stages == {"new", "waiting", "running", "done", "told", "released"}

Init ==
    /\ stage = [j \in Jobs |-> "new"]
    /\ key \in [Jobs -> Int] /\ rank \in [Jobs -> Int]
    /\ pushes = 0 /\ dead = FALSE

Earlier(j) == {i \in Jobs : stage[i] # "new" /\ key[i] = key[j] /\ rank[i] < rank[j]}

Push(j, k) ==
    /\ stage[j] = "new"
    /\ stage' = [stage EXCEPT ![j] = "waiting"]
    /\ key' = [key EXCEPT ![j] = k]
    /\ rank' = [rank EXCEPT ![j] = pushes]
    /\ pushes' = pushes + 1

\* The only way to get from one stage to another.
Move(j, from, to) ==
    /\ stage[j] = from
    /\ stage' = [stage EXCEPT ![j] = to]
    /\ UNCHANGED <<key, rank, pushes>>

Start(j) ==
    /\ \A i \in Earlier(j) : stage[i] \in {"done", "told", "released"}
    /\ Move(j, "waiting", "running")

Finish(j)  == Move(j, "running", "done")
Tell(j)    == Move(j, "done", "told")
Release(j) == Move(j, "told", "released")

Die == dead' = TRUE /\ UNCHANGED <<stage, key, rank, pushes>>

Next ==
    /\ ~dead
    /\ \/ Die
       \/ /\ dead' = FALSE
          /\ \E j \in Jobs :
                \/ \E k \in Keys : Push(j, k)
                \/ Start(j) \/ Finish(j) \/ Tell(j) \/ Release(j)

Spec == Init /\ [][Next]_vars
=============================================================================
