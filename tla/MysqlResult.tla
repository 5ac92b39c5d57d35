----------------------------- MODULE MysqlResult ----------------------------
(***************************************************************************)
(* MysqlResult::Init (MysqlBase.cpp) as a function of the rows of a result *)
(* set.  Each FiledRow keeps the pointer that mysql_fetch_lengths returned.*)
(* The client library is external: a MYSQL_RES has one array of lengths,   *)
(* which mysql_fetch_lengths fills for the current row.                    *)
(*                                                                         *)
(* A row is the function from its fields to their lengths, NULL for a      *)
(* field that is SQL NULL.                                                 *)
(***************************************************************************)
EXTENDS Integers, Sequences, SequencesExt

CONSTANTS
    FieldCount,
    MaxRows,    \* bound: rows of a result set
    MaxLength   \* bound: length of a field

ASSUME FieldCountAssumption == FieldCount \in Nat /\ MaxRows \in Nat /\ MaxLength \in Nat

NULL   == -1
Fields == 1..FieldCount
Rows   == [Fields -> {NULL} \cup 0..MaxLength]
Sets   == SeqOf(Rows, MaxRows)

\* mysql_fetch_lengths after mysql_fetch_row returned r.
FetchLengths(r) == [f \in Fields |-> IF r[f] = NULL THEN 0 ELSE r[f]]

\* Before Init, and after an Init without a result set.
NoResult == [rows |-> <<>>, array |-> [f \in Fields |-> 0]]

\* Mutant: the lengths are fetched with the first row, as the pointer is the same.
EmplacesWithFirst(result, r) ==
    [rows  |-> Append(result.rows, r),
     array |-> IF result.rows = <<>> THEN FetchLengths(r) ELSE result.array]

\* One turn of the loop: the lengths of this row, then a FiledRow for it.
EmplaceRow(result, r) ==
    [rows |-> Append(result.rows, r), array |-> FetchLengths(r)]

\* Init's loop: what is there after the first n rows of the set.
Emplaced(set) ==
    LET after[n \in 0..Len(set)] ==
            IF n = 0 THEN NoResult ELSE EmplaceRow(after[n - 1], set[n])
    IN  after

\* Mutant: the row fetched before the loop is dropped by a fetch at its start.
SkipsFirst(set) ==
    LET rest == IF set = <<>> THEN set ELSE Tail(set)
    IN  Emplaced(rest)[Len(rest)]

\* MysqlResult::Init with the rows mysql_store_result took.
InitResult(set) == Emplaced(set)[Len(set)]

\* FiledRow::GetBuff of row i: the length it reports, NULL if there is no buffer.
GetBuff(result, i, f) == IF result.rows[i][f] = NULL THEN NULL ELSE result.array[f]
=============================================================================
