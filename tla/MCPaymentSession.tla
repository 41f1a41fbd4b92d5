-------------------------- MODULE MCPaymentSession --------------------------
(* Small instances of PaymentSession for TLC.                              *)
EXTENDS PaymentSession

CONSTANTS s1, s2, n1, n2, alice

OneSession == {s1}
TwoSessions == {s1, s2}
OnePayer == {alice}
TwoNonces == {n1, n2}

(* Every session is paid from one wallet. *)
SameWallet == [s \in Sessions |-> alice]

(* Prices in units of a cent; -1 is a CREDIT event. *)
Charges == {1, 2}
ChargesAndCredit == {1, 2, -1}
OneCharge == {1}

NonceSymmetry == {[n \in Nonces |-> IF n = n1 THEN n2 ELSE n1], [n \in Nonces |-> n]}
=============================================================================
