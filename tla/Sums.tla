------------------------------- MODULE Sums -------------------------------
(***************************************************************************)
(* Sums of integers (sumAtomic of src/domain/money.js), as a recursive     *)
(* function on how many of them are added.                                 *)
(***************************************************************************)
EXTENDS Integers

(* f[1] + ... + f[n]. *)
SumTo(f, n) ==
  LET sum[i \in Nat] == IF i = 0 THEN 0 ELSE sum[i - 1] + f[i]
  IN  sum[n]
=============================================================================
