------------------------------ MODULE Pricing ------------------------------
(***************************************************************************)
(* The deterministic money rules: ceilDiv (src/domain/money.js) and the    *)
(* pricing engine (src/services/pricing-engine.js).  Amounts are USDC      *)
(* atomic units, BigInt in the code and unbounded integers here.           *)
(***************************************************************************)
EXTENDS Integers

(* BigInt division truncates toward zero, TLA+'s \div rounds down. *)
TruncDiv(n, d) == IF n >= 0 THEN n \div d ELSE -((-n) \div d)

(* ceilDiv; the denominator is positive. *)
CeilDiv(n, d) == IF n = 0 THEN 0 ELSE TruncDiv(n + d - 1, d)

(* Faulty variant: a credit is divided with its sign, so the rounding term *)
(* moves a negative amount toward zero.                                    *)
RateAmountSigned(quantity, numerator, denominator) ==
  CeilDiv(quantity * numerator, denominator)

(* calculateEvent for a rated event; a negative numerator is a credit. *)
RateAmount(quantity, numerator, denominator) ==
  IF numerator < 0
  THEN -CeilDiv(quantity * (-numerator), denominator)
  ELSE CeilDiv(quantity * numerator, denominator)

(* Faulty variant: the minimum is added to a small subtotal. *)
FinalChargeAddsMinimum(subtotal, minimum) ==
  IF subtotal > 0 /\ subtotal <= minimum THEN subtotal + minimum ELSE subtotal

(* calculateFinal over a ledger whose events reprice to their stored amounts. *)
FinalCharge(subtotal, minimum) ==
  IF subtotal > 0 /\ subtotal < minimum THEN minimum ELSE subtotal
=============================================================================
