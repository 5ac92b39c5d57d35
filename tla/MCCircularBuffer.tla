-------------------------- MODULE MCCircularBuffer --------------------------
(* An instance of CircularBuffer for TLC. *)
EXTENDS CircularBuffer

\* Every text of up to three bytes: one less than the ring holds.
MCPayloads == UNION {[1..n -> Bytes] : n \in 0..3}
=============================================================================
