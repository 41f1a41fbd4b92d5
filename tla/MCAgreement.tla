---------------------------- MODULE MCAgreement ----------------------------
(* Small instances of Agreement and its UsageLedger for TLC. *)
EXTENDS Agreement, TLC

CONSTANTS k1, k2, k3

ThreeKeys == {k1, k2, k3}
TwoKeys == {k1, k2}

(* The list of the offer has a divisible rate, a rate that rounds and a    *)
(* fractional credit; a dearer one replaces it, or one whose minimum is    *)
(* above the cap.                                                          *)
ThreePriceLists ==
  [offered |-> [baseFee |-> 1, minimum |-> 3,
                rates |-> [COMPUTE_SECONDS   |-> [numerator |-> 2, denominator |-> 1],
                           EXTERNAL_API_COST |-> [numerator |-> 4, denominator |-> 3],
                           CREDIT            |-> [numerator |-> -1, denominator |-> 2]]],
   dearer  |-> [baseFee |-> 2, minimum |-> 4,
                rates |-> [COMPUTE_SECONDS   |-> [numerator |-> 5, denominator |-> 2]]],
   minimal |-> [baseFee |-> 1, minimum |-> 6,
                rates |-> [CREDIT            |-> [numerator |-> -1, denominator |-> 1]]]]

ListsAreVersions == [l \in Lists |-> l]

KeySymmetry == Permutations(Keys)
=============================================================================
