------------------------------ MODULE Selection ------------------------------
(***************************************************************************)
(* The loop that goes through a slice and appends some of its entries to   *)
(* another.                                                                *)
(***************************************************************************)
LOCAL INSTANCE Integers
LOCAL INSTANCE Sequences

\* What the loop has selected after each number of entries of q: those in S.
selections(q, S) ==
  LET sel[n \in 0..Len(q)] == IF n = 0 THEN <<>>
                              ELSE IF q[n] \in S THEN Append(sel[n - 1], q[n])
                              ELSE sel[n - 1]
  IN sel

\* The entries of q that are in S, in their order.
Selected(q, S) == selections(q, S)[Len(q)]
=============================================================================
