---------------------------- MODULE BoundedQueue ----------------------------
(***************************************************************************)
(* What a byte ring promises its one producer and its one consumer: a FIFO *)
(* of at most capacity items.  What the producer has given joins the queue *)
(* as it is and at once.  Show stands for every way the consumer is given  *)
(* data, by a copy or by a view into the ring: what it sees is a prefix of *)
(* the queue, for as long as it looks.  It takes no more than it was shown *)
(* unless it was told of more; who may tell it so is for the ring to say.  *)
(***************************************************************************)
EXTENDS Integers, Sequences

CONSTANT Items

VARIABLES
    capacity, \* fixed when the queue is made
    given,    \* what the producer is about to put
    queue,    \* what was put and not taken
    shown,    \* what the consumer sees of it
    overtold  \* whether it was told that it sees more

vars == <<capacity, given, queue, shown, overtold>>

Init ==
    /\ capacity \in Nat
    /\ given = <<>> /\ queue = <<>> /\ shown = <<>> /\ overtold = FALSE

Give ==
    /\ given' \in Seq(Items)
    /\ Len(queue) + Len(given') <= capacity
    /\ UNCHANGED <<capacity, queue, shown, overtold>>

Put ==
    /\ queue' = queue \o given
    /\ given' = <<>>
    /\ UNCHANGED <<capacity, shown, overtold>>

Show ==
    /\ Len(shown') <= Len(queue)
    /\ shown' = SubSeq(queue, 1, Len(shown'))
    /\ overtold' \in BOOLEAN
    /\ UNCHANGED <<capacity, given, queue>>

Take ==
    /\ Len(queue') <= Len(queue)
    /\ queue' = SubSeq(queue, Len(queue) - Len(queue') + 1, Len(queue))
    /\ overtold \/ Len(queue) - Len(queue') <= Len(shown)
    /\ shown' = <<>> /\ overtold' = FALSE
    /\ UNCHANGED <<capacity, given>>

Next == Give \/ Put \/ Show \/ Take

Spec == Init /\ [][Next]_vars
=============================================================================
