---------------------------- MODULE MCJsonStore ----------------------------
(* Small instances of JsonStore for TLC. *)
EXTENDS JsonStore

CONSTANTS t1, t2, t3

ThreeTransactions == {t1, t2, t3}
=============================================================================
