----------------------------- MODULE UsdcText -----------------------------
(***************************************************************************)
(* Amounts as text (src/domain/money.js): a sign, the whole USDC, and the  *)
(* digits behind the point, none of them when there is no point.  No       *)
(* caller of formatUsdc asks for trimmed zeros.                            *)
(***************************************************************************)
EXTENDS Integers, Sequences

Scale == 1000000

(* What a digit behind the point is worth. *)
Place == <<100000, 10000, 1000, 100, 10, 1>>

Digit == 0..9

Usdc(whole, fraction) == [sign |-> "", whole |-> whole, fraction |-> fraction]

(* The texts parseUsdc does not refuse. *)
Readable(text) ==
  /\ text.sign = ""
  /\ text.whole \in Nat
  /\ text.fraction \in Seq(Digit) /\ Len(text.fraction) <= 6

(* padEnd: digits that are not written are zeros. *)
DigitAt(fraction, i) == IF i <= Len(fraction) THEN fraction[i] ELSE 0

parseUsdc(text) ==
  text.whole * Scale
    + LET worth(i) == DigitAt(text.fraction, i) * Place[i]
      IN  worth(1) + worth(2) + worth(3) + worth(4) + worth(5) + worth(6)

(* The digits of an amount below one USDC. *)
DigitsOf(n) == [i \in 1..6 |-> (n \div Place[i]) % 10]

Sign(atomic) == IF atomic < 0 THEN "-" ELSE ""
Absolute(atomic) == IF atomic < 0 THEN -atomic ELSE atomic

(* Faulty variant: the digits are not padded at the start. *)
formatUsdcUnpadded(atomic) ==
  LET digits == DigitsOf(Absolute(atomic) % Scale)
      first  == CHOOSE i \in 1..6 : /\ i = 6 \/ digits[i] # 0
                                    /\ \A j \in 1..(i - 1) : digits[j] = 0
  IN  [sign |-> Sign(atomic), whole |-> Absolute(atomic) \div Scale,
       fraction |-> SubSeq(digits, first, 6)]

formatUsdc(atomic) ==
  [sign |-> Sign(atomic), whole |-> Absolute(atomic) \div Scale,
   fraction |-> DigitsOf(Absolute(atomic) % Scale)]
=============================================================================
