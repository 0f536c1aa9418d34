-------------------------------- MODULE Sums --------------------------------
(***************************************************************************)
(* The sum of an amount over a set of rows, as the back end takes it:      *)
(* rows.reduce((total, row) => total + row.amount, 0) where it has read    *)
(* them, COALESCE(SUM(column), 0) where the database adds.                 *)
(***************************************************************************)
EXTENDS Integers, FiniteSetsExt

\* f gives the amount of every row, S is the set of rows: 0 over no row.
SumOf(f, S) == MapThenSumSet(LAMBDA x : f[x], S)
=============================================================================
