--------------------------- MODULE MCScriptEngine ---------------------------
(* An instance of ScriptEngine for TLC. *)
EXTENDS ScriptEngine

\* Nothing, one value, a value behind a nil, and one more than is kept.
MCReturns ==
    {<<>>, <<"result">>, <<"nil", "result">>, [k \in 1..9 |-> "result"]}
=============================================================================
