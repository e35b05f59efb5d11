-------------------------- MODULE PeriodicColumns --------------------------
(***************************************************************************)
(* Assembling the masks of a composed program (utils/periodic_columns.rs), *)
(* one column at a time.  A mask is its length and the rows, from 0, where *)
(* it is one; elsewhere it is zero, and it repeats over the trace.         *)
(***************************************************************************)
EXTENDS Integers

Rows(first, last) == first .. last   \* the rows first, ..., last
Mask(length, rows) == [length |-> length, on |-> rows]
Empty == Mask(0, {})

(* append the whole of another column                                      *)
Stitch(column, other) ==
  Mask(column.length + other.length,
       column.on \cup {column.length + r : r \in other.on})

(* The value of a periodic column on a row of the trace.                   *)
On(column, row) == row % column.length \in column.on

(* extend up to length with the values another column has at those rows    *)
Fill(column, other, length) ==
  Mask(length, column.on \cup {r \in Rows(column.length, length - 1) : On(other, r)})

(* extend up to length with zeroes, with ones                              *)
PadZero(column, length) == Mask(length, column.on)
PadOne(column, length) ==
  Mask(length, column.on \cup Rows(column.length, length - 1))
=============================================================================
