---------------------------- MODULE Sums_proofs ----------------------------
(***************************************************************************)
(* What a sum is, by induction on how many integers are added.             *)
(***************************************************************************)
EXTENDS Sums, WellFoundedInduction, TLAPS

(* Numbers that are there have a least one. *)
LEMMA Least ==
  ASSUME NEW T, T \subseteq Nat, T # {}
  PROVE  \E n \in T : \A m \in T : n <= m
<1>1. PICK n \in T : \A m \in T : ~ (<<m, n>> \in OpToRel(<, Nat))
  BY WFMin, NatLessThanWellFounded
<1>2. ASSUME NEW m \in T PROVE n <= m
  <2>1. m \in Nat /\ n \in Nat
    OBVIOUS
  <2>2. ~ (m < n)
    BY <1>1, <2>1 DEF OpToRel
  <2> QED
    BY <2>1, <2>2
<1> QED
  BY <1>2

(* Induction over the naturals, for a set in place of a predicate. *)
LEMMA SetInduction ==
  ASSUME NEW S, 0 \in S, \A n \in Nat : n \in S => n + 1 \in S
  PROVE  \A n \in Nat : n \in S
<1> DEFINE T == Nat \ S
<1> SUFFICES ASSUME T # {} PROVE FALSE
  OBVIOUS
<1>1. T \subseteq Nat
  OBVIOUS
<1>2. PICK n \in T : \A m \in T : n <= m
  <2> HIDE DEF T
  <2> QED
    BY <1>1, Least
<1>3. n \in Nat /\ n # 0 /\ n - 1 \in Nat /\ n - 1 \notin T /\ n = (n - 1) + 1
  BY <1>2
<1> QED
  BY <1>2, <1>3
-----------------------------------------------------------------------------
(* The recursion of SumTo has a solution. *)

(* g holds the first n sums of f. *)
SumsUpTo(g, f, n) == g[0] = 0 /\ \A i \in 1..n : g[i] = g[i - 1] + f[i]

LEMMA SumsExist == \A f : \A n \in Nat : \E g : SumsUpTo(g, f, n)
<1> TAKE f
<1> DEFINE S == {n \in Nat : \E g : SumsUpTo(g, f, n)}
<1>1. 0 \in S
  <2>1. SumsUpTo([i \in {0} |-> 0], f, 0)
    BY DEF SumsUpTo
  <2> QED
    BY <2>1
<1>2. ASSUME NEW n \in Nat, n \in S PROVE n + 1 \in S
  <2>1. PICK g : SumsUpTo(g, f, n)
    BY <1>2
  <2> DEFINE h == [i \in 0..(n + 1) |-> IF i = n + 1 THEN g[n] + f[n + 1] ELSE g[i]]
  <2>2. h[0] = 0
    BY <2>1 DEF SumsUpTo
  <2>3. ASSUME NEW i \in 1..(n + 1) PROVE h[i] = h[i - 1] + f[i]
    <3>1. CASE i = n + 1
      BY <3>1
    <3>2. CASE i # n + 1
      BY <2>1, <3>2 DEF SumsUpTo
    <3> QED
      BY <3>1, <3>2
  <2>4. SumsUpTo(h, f, n + 1)
    BY <2>2, <2>3 DEF SumsUpTo
  <2> QED
    BY <2>4
<1> HIDE DEF S
<1>3. \A n \in Nat : n \in S
  BY <1>1, <1>2, SetInduction
<1> QED
  BY <1>3 DEF S

LEMMA SumsUnique ==
  ASSUME NEW f, NEW m \in Nat, NEW n \in Nat, m <= n,
         NEW g, SumsUpTo(g, f, m), NEW h, SumsUpTo(h, f, n)
  PROVE  \A i \in 0..m : g[i] = h[i]
<1> DEFINE S == {i \in Nat : i <= m => g[i] = h[i]}
<1>1. 0 \in S
  BY DEF SumsUpTo
<1>2. ASSUME NEW i \in Nat, i \in S PROVE i + 1 \in S
  <2> SUFFICES ASSUME i + 1 <= m PROVE g[i + 1] = h[i + 1]
    OBVIOUS
  <2>1. g[i] = h[i]
    BY <1>2
  <2>2. i + 1 \in 1..m /\ i + 1 \in 1..n /\ (i + 1) - 1 = i
    OBVIOUS
  <2> QED
    BY <2>1, <2>2 DEF SumsUpTo
<1> HIDE DEF S
<1>3. \A i \in Nat : i \in S
  BY <1>1, <1>2, SetInduction
<1> QED
  BY <1>3 DEF S

SumsOf(f) == CHOOSE s : s = [i \in Nat |-> IF i = 0 THEN 0 ELSE s[i - 1] + f[i]]

LEMMA SumsEquation ==
  ASSUME NEW f
  PROVE  SumsOf(f) = [i \in Nat |-> IF i = 0 THEN 0 ELSE SumsOf(f)[i - 1] + f[i]]
<1> DEFINE G(n) == CHOOSE g : SumsUpTo(g, f, n)
           F == [n \in Nat |-> G(n)[n]]
<1>1. \A n \in Nat : SumsUpTo(G(n), f, n)
  BY SumsExist
<1>2. ASSUME NEW i \in Nat PROVE F[i] = IF i = 0 THEN 0 ELSE F[i - 1] + f[i]
  <2>1. CASE i = 0
    BY <1>1, <2>1 DEF SumsUpTo
  <2>2. CASE i # 0
    <3>1. i - 1 \in Nat /\ i \in 1..i /\ i - 1 <= i /\ i - 1 \in 0..(i - 1)
      BY <2>2
    <3>2. G(i)[i] = G(i)[i - 1] + f[i]
      BY <1>1, <3>1 DEF SumsUpTo
    <3>3. G(i - 1)[i - 1] = G(i)[i - 1]
      <4> HIDE DEF G
      <4> QED
        BY <1>1, <3>1, SumsUnique
    <3> QED
      BY <2>2, <3>1, <3>2, <3>3
  <2> QED
    BY <2>1, <2>2
<1> HIDE DEF F
<1>3. F = [i \in Nat |-> IF i = 0 THEN 0 ELSE F[i - 1] + f[i]]
  <2>1. F = [i \in Nat |-> F[i]]
    BY DEF F
  <2> QED
    BY <1>2, <2>1
<1> QED
  BY <1>3 DEF SumsOf

LEMMA SumToIs == ASSUME NEW f, NEW n PROVE SumTo(f, n) = SumsOf(f)[n]
BY DEF SumTo, SumsOf

(* The sum of none is zero; one more adds itself. *)
LEMMA SumStep ==
  ASSUME NEW f
  PROVE  /\ SumTo(f, 0) = 0
         /\ \A n \in Nat : SumTo(f, n + 1) = SumTo(f, n) + f[n + 1]
<1>1. \A i \in Nat : SumsOf(f)[i] = IF i = 0 THEN 0 ELSE SumsOf(f)[i - 1] + f[i]
  BY SumsEquation
<1>2. \A n \in Nat : n + 1 \in Nat /\ n + 1 # 0 /\ (n + 1) - 1 = n
  OBVIOUS
<1> QED
  BY <1>1, <1>2, SumToIs
-----------------------------------------------------------------------------
(* What the sums of ledgers need, by the same induction. *)

(* Integers add up to an integer, naturals to a natural. *)
LEMMA SumInt ==
  ASSUME NEW f, NEW n \in Nat, \A i \in 1..n : f[i] \in Int
  PROVE  \A m \in 0..n : SumTo(f, m) \in Int
<1> DEFINE S == {m \in Nat : m <= n => SumTo(f, m) \in Int}
<1>1. 0 \in S
  BY SumStep
<1>2. ASSUME NEW m \in Nat, m \in S PROVE m + 1 \in S
  <2> SUFFICES ASSUME m + 1 <= n PROVE SumTo(f, m + 1) \in Int
    OBVIOUS
  <2>1. SumTo(f, m) \in Int /\ m + 1 \in 1..n
    BY <1>2
  <2> QED
    BY <2>1, SumStep
<1> HIDE DEF S
<1>3. \A m \in Nat : m \in S
  BY <1>1, <1>2, SetInduction
<1> QED
  BY <1>3 DEF S

LEMMA SumNat ==
  ASSUME NEW f, NEW n \in Nat, \A i \in 1..n : f[i] \in Nat
  PROVE  \A m \in 0..n : SumTo(f, m) \in Nat /\ SumTo(f, m) <= SumTo(f, n)
<1>1. \A m \in 0..n : SumTo(f, m) \in Int
  BY SumInt
<1>2. \A m \in 0..n : SumTo(f, m) \in Nat
  <2> DEFINE S == {m \in Nat : m <= n => SumTo(f, m) \in Nat}
  <2>1. 0 \in S
    BY SumStep
  <2>2. ASSUME NEW m \in Nat, m \in S PROVE m + 1 \in S
    <3> SUFFICES ASSUME m + 1 <= n PROVE SumTo(f, m + 1) \in Nat
      OBVIOUS
    <3>1. SumTo(f, m) \in Nat /\ m + 1 \in 1..n
      BY <2>2
    <3> QED
      BY <3>1, SumStep
  <2> HIDE DEF S
  <2>3. \A m \in Nat : m \in S
    BY <2>1, <2>2, SetInduction
  <2> QED
    BY <2>3 DEF S
<1>3. ASSUME NEW m \in 0..n PROVE SumTo(f, m) <= SumTo(f, n)
  <2> DEFINE S == {k \in Nat : m + k <= n => SumTo(f, m) <= SumTo(f, m + k)}
  <2>1. 0 \in S
    BY <1>1
  <2>2. ASSUME NEW k \in Nat, k \in S PROVE k + 1 \in S
    <3> SUFFICES ASSUME m + (k + 1) <= n PROVE SumTo(f, m) <= SumTo(f, m + (k + 1))
      OBVIOUS
    <3>1. /\ SumTo(f, m) <= SumTo(f, m + k) /\ m + k \in Nat /\ m + k \in 0..n
          /\ (m + k) + 1 \in 1..n /\ m + (k + 1) = (m + k) + 1
      BY <2>2
    <3>2. SumTo(f, (m + k) + 1) = SumTo(f, m + k) + f[(m + k) + 1]
      BY <3>1, SumStep
    <3>3. f[(m + k) + 1] \in Nat /\ SumTo(f, m) \in Int /\ SumTo(f, m + k) \in Int
      BY <3>1, <1>1
    <3> QED
      BY <3>1, <3>2, <3>3
  <2> HIDE DEF S
  <2>3. \A k \in Nat : k \in S
    BY <2>1, <2>2, SetInduction
  <2>4. n - m \in Nat /\ m + (n - m) = n
    OBVIOUS
  <2> QED
    BY <2>3, <2>4 DEF S
<1> QED
  BY <1>2, <1>3

(* Equal terms have equal sums. *)
LEMMA SumSame ==
  ASSUME NEW f, NEW g, NEW n \in Nat, \A i \in 1..n : f[i] = g[i]
  PROVE  SumTo(f, n) = SumTo(g, n)
<1> DEFINE S == {m \in Nat : m <= n => SumTo(f, m) = SumTo(g, m)}
<1>1. 0 \in S
  BY SumStep
<1>2. ASSUME NEW m \in Nat, m \in S PROVE m + 1 \in S
  <2> SUFFICES ASSUME m + 1 <= n PROVE SumTo(f, m + 1) = SumTo(g, m + 1)
    OBVIOUS
  <2>1. SumTo(f, m) = SumTo(g, m) /\ m + 1 \in 1..n
    BY <1>2
  <2> QED
    BY <2>1, SumStep
<1> HIDE DEF S
<1>3. \A m \in Nat : m \in S
  BY <1>1, <1>2, SetInduction
<1> QED
  BY <1>3 DEF S

(* One term more: the sum of the first n stays, and it is added. *)
LEMMA SumAppended ==
  ASSUME NEW f, NEW g, NEW n \in Nat, \A i \in 1..n : f[i] = g[i]
  PROVE  SumTo(g, n + 1) = SumTo(f, n) + g[n + 1]
BY SumSame, SumStep

(* A sum changes by what one of its terms changes. *)
LEMMA SumChanged ==
  ASSUME NEW f, NEW g, NEW n \in Nat, NEW k \in 1..n,
         \A i \in 1..n : f[i] \in Int, g[k] \in Int,
         \A i \in 1..n : i # k => f[i] = g[i]
  PROVE  SumTo(g, n) = SumTo(f, n) - f[k] + g[k]
<1> DEFINE S == {m \in Nat : m <= n => SumTo(g, m) = IF m < k THEN SumTo(f, m)
                                                  ELSE SumTo(f, m) - f[k] + g[k]}
<1>1. 0 \in S
  BY SumStep
<1>2. ASSUME NEW m \in Nat, m \in S PROVE m + 1 \in S
  <2> SUFFICES ASSUME m + 1 <= n
               PROVE  SumTo(g, m + 1) = IF m + 1 < k THEN SumTo(f, m + 1)
                                        ELSE SumTo(f, m + 1) - f[k] + g[k]
    OBVIOUS
  <2>1. m + 1 \in 1..n /\ SumTo(f, m) \in Int
    BY SumInt
  <2>2. /\ SumTo(f, m + 1) = SumTo(f, m) + f[m + 1]
        /\ SumTo(g, m + 1) = SumTo(g, m) + g[m + 1]
    BY SumStep
  <2>3. CASE m + 1 < k
    <3>1. SumTo(g, m) = SumTo(f, m) /\ g[m + 1] = f[m + 1]
      BY <1>2, <2>1, <2>3
    <3> QED
      BY <3>1, <2>2, <2>3
  <2>4. CASE m + 1 = k
    <3>1. SumTo(g, m) = SumTo(f, m) /\ f[k] \in Int
      BY <1>2, <2>4
    <3> QED
      BY <3>1, <2>1, <2>2, <2>4
  <2>5. CASE m + 1 > k
    <3>1. SumTo(g, m) = SumTo(f, m) - f[k] + g[k] /\ g[m + 1] = f[m + 1]
      BY <1>2, <2>1, <2>5
    <3>2. f[k] \in Int /\ f[m + 1] \in Int
      BY <2>1
    <3> QED
      BY <3>1, <3>2, <2>1, <2>2, <2>5
  <2> QED
    BY <2>3, <2>4, <2>5
<1> HIDE DEF S
<1>3. \A m \in Nat : m \in S
  BY <1>1, <1>2, SetInduction
<1> QED
  BY <1>3 DEF S

LEMMA SumZero ==
  ASSUME NEW f, NEW n \in Nat, \A i \in 1..n : f[i] = 0
  PROVE  SumTo(f, n) = 0
<1> DEFINE S == {m \in Nat : m <= n => SumTo(f, m) = 0}
<1>1. 0 \in S
  BY SumStep
<1>2. ASSUME NEW m \in Nat, m \in S PROVE m + 1 \in S
  <2> SUFFICES ASSUME m + 1 <= n PROVE SumTo(f, m + 1) = 0
    OBVIOUS
  <2>1. SumTo(f, m) = 0 /\ m + 1 \in 1..n
    BY <1>2
  <2> QED
    BY <2>1, SumStep
<1> HIDE DEF S
<1>3. \A m \in Nat : m \in S
  BY <1>1, <1>2, SetInduction
<1> QED
  BY <1>3 DEF S

(* Ones count. *)
LEMMA SumOnes ==
  ASSUME NEW f, NEW n \in Nat, \A i \in 1..n : f[i] = 1
  PROVE  SumTo(f, n) = n
<1> DEFINE S == {m \in Nat : m <= n => SumTo(f, m) = m}
<1>1. 0 \in S
  BY SumStep
<1>2. ASSUME NEW m \in Nat, m \in S PROVE m + 1 \in S
  <2> SUFFICES ASSUME m + 1 <= n PROVE SumTo(f, m + 1) = m + 1
    OBVIOUS
  <2>1. SumTo(f, m) = m /\ m + 1 \in 1..n
    BY <1>2
  <2> QED
    BY <2>1, SumStep
<1> HIDE DEF S
<1>3. \A m \in Nat : m \in S
  BY <1>1, <1>2, SetInduction
<1> QED
  BY <1>3 DEF S

LEMMA SumOpposite ==
  ASSUME NEW f, NEW g, NEW n \in Nat, \A i \in 1..n : f[i] \in Int /\ g[i] = -f[i]
  PROVE  SumTo(g, n) = -SumTo(f, n)
<1> DEFINE S == {m \in Nat : m <= n => SumTo(g, m) = -SumTo(f, m)}
<1>1. 0 \in S
  BY SumStep
<1>2. ASSUME NEW m \in Nat, m \in S PROVE m + 1 \in S
  <2> SUFFICES ASSUME m + 1 <= n PROVE SumTo(g, m + 1) = -SumTo(f, m + 1)
    OBVIOUS
  <2>1. SumTo(g, m) = -SumTo(f, m) /\ m + 1 \in 1..n /\ SumTo(f, m) \in Int
    BY <1>2, SumInt
  <2> QED
    BY <2>1, SumStep
<1> HIDE DEF S
<1>3. \A m \in Nat : m \in S
  BY <1>1, <1>2, SetInduction
<1> QED
  BY <1>3 DEF S

LEMMA Distributes ==
  ASSUME NEW a \in Int, NEW b \in Int, NEW k \in Int
  PROVE  (a + b) * k = a * k + b * k
OBVIOUS

(* Terms within the bounds of a rate and its rounding add up within the    *)
(* bounds of their sums.                                                   *)
LEMMA SumBetween ==
  ASSUME NEW c, NEW g, NEW h, NEW n \in Nat, NEW r \in Nat, NEW d \in Nat, NEW e \in Nat,
         \A i \in 1..n : /\ c[i] \in Int /\ g[i] \in Int /\ h[i] \in Int
                        /\ g[i] * r <= c[i] * d /\ c[i] * d <= g[i] * r + h[i] * e
  PROVE  /\ SumTo(g, n) * r <= SumTo(c, n) * d
         /\ SumTo(c, n) * d <= SumTo(g, n) * r + SumTo(h, n) * e
<1> DEFINE Within(m) == /\ SumTo(g, m) * r <= SumTo(c, m) * d
                        /\ SumTo(c, m) * d <= SumTo(g, m) * r + SumTo(h, m) * e
           S == {m \in Nat : m <= n => Within(m)}
<1>1. 0 \in S
  BY SumStep
<1>2. ASSUME NEW m \in Nat, m \in S PROVE m + 1 \in S
  <2> SUFFICES ASSUME m + 1 <= n PROVE Within(m + 1)
    OBVIOUS
  <2>1. m + 1 \in 1..n /\ m \in 0..n /\ Within(m)
    BY <1>2
  <2>2. SumTo(c, m) \in Int /\ SumTo(g, m) \in Int /\ SumTo(h, m) \in Int
    BY <2>1, SumInt
  <2> DEFINE C == SumTo(c, m)
             G == SumTo(g, m)
             H == SumTo(h, m)
             ci == c[m + 1]
             gi == g[m + 1]
             hi == h[m + 1]
  <2>3. /\ ci \in Int /\ gi \in Int /\ hi \in Int
        /\ gi * r <= ci * d /\ ci * d <= gi * r + hi * e
    BY <2>1
  <2>4. /\ SumTo(c, m + 1) = C + ci /\ SumTo(g, m + 1) = G + gi /\ SumTo(h, m + 1) = H + hi
    BY SumStep
  <2>5. /\ G * r <= C * d /\ C * d <= G * r + H * e
    BY <2>1
  <2>6. C \in Int /\ G \in Int /\ H \in Int
    BY <2>2
  <2> HIDE DEF C, G, H, ci, gi, hi
  <2>7. (C + ci) * d = C * d + ci * d /\ (G + gi) * r = G * r + gi * r
        /\ (H + hi) * e = H * e + hi * e
    BY <2>3, <2>6, Distributes
  <2>8. /\ G * r + gi * r <= C * d + ci * d
        /\ C * d + ci * d <= (G * r + gi * r) + (H * e + hi * e)
    <3>1. /\ G * r \in Int /\ C * d \in Int /\ H * e \in Int
          /\ gi * r \in Int /\ ci * d \in Int /\ hi * e \in Int
      BY <2>3, <2>6
    <3> QED
      BY <3>1, <2>3, <2>5
  <2> QED
    BY <2>4, <2>7, <2>8
<1> HIDE DEF S, Within
<1>3. \A m \in Nat : m \in S
  BY <1>1, <1>2, SetInduction
<1>4. Within(n)
  BY <1>3 DEF S
<1> QED
  BY <1>4 DEF Within
-----------------------------------------------------------------------------
(* Sums by kind (explain of the pricing engine). *)

(* The terms of a kind, and a kind's sum at the first term of the kind. *)
OfKind(v, kind, k, m) == SumTo([j \in 1..m |-> IF kind[j] = k THEN v[j] ELSE 0], m)

IsFirst(kind, i) == \A j \in 1..i - 1 : kind[j] # kind[i]

Grouped(v, kind, m) ==
  SumTo([i \in 1..m |-> IF IsFirst(kind, i) THEN OfKind(v, kind, kind[i], m) ELSE 0], m)

LEMMA OfKindStep ==
  ASSUME NEW v, NEW kind, NEW k, NEW m \in Nat
  PROVE  OfKind(v, kind, k, m + 1) =
           OfKind(v, kind, k, m) + (IF kind[m + 1] = k THEN v[m + 1] ELSE 0)
<1> DEFINE f == [j \in 1..m |-> IF kind[j] = k THEN v[j] ELSE 0]
           g == [j \in 1..m + 1 |-> IF kind[j] = k THEN v[j] ELSE 0]
<1>1. \A i \in 1..m : f[i] = g[i]
  OBVIOUS
<1>2. g[m + 1] = IF kind[m + 1] = k THEN v[m + 1] ELSE 0
  OBVIOUS
<1> HIDE DEF f, g
<1>3. SumTo(g, m + 1) = SumTo(f, m) + g[m + 1]
  BY <1>1, SumAppended
<1> QED
  BY <1>2, <1>3 DEF OfKind, f, g

LEMMA OfKindInt ==
  ASSUME NEW v, NEW kind, NEW k, NEW m \in Nat, \A i \in 1..m : v[i] \in Int
  PROVE  OfKind(v, kind, k, m) \in Int
<1> DEFINE f == [j \in 1..m |-> IF kind[j] = k THEN v[j] ELSE 0]
<1>1. \A i \in 1..m : f[i] \in Int
  OBVIOUS
<1> HIDE DEF f
<1>2. SumTo(f, m) \in Int
  BY <1>1, SumInt
<1> QED
  BY <1>2 DEF OfKind, f

(* What is left of a sum when its terms are grouped by kind is all of it. *)
LEMMA GroupsAddUp ==
  ASSUME NEW v, NEW kind, NEW n \in Nat, \A i \in 1..n : v[i] \in Int
  PROVE  Grouped(v, kind, n) = SumTo(v, n)
<1> DEFINE S == {m \in Nat : m <= n => Grouped(v, kind, m) = SumTo(v, m)}
<1>1. 0 \in S
  BY SumStep DEF Grouped
<1>2. ASSUME NEW m \in Nat, m \in S PROVE m + 1 \in S
  <2> SUFFICES ASSUME m + 1 <= n PROVE Grouped(v, kind, m + 1) = SumTo(v, m + 1)
    OBVIOUS
  <2> DEFINE f == [i \in 1..m |-> IF IsFirst(kind, i) THEN OfKind(v, kind, kind[i], m) ELSE 0]
             g == [i \in 1..m + 1 |->
                     IF IsFirst(kind, i) THEN OfKind(v, kind, kind[i], m + 1) ELSE 0]
  <2>1. /\ Grouped(v, kind, m) = SumTo(f, m) /\ Grouped(v, kind, m + 1) = SumTo(g, m + 1)
    BY DEF Grouped
  <2>2. SumTo(f, m) = SumTo(v, m) /\ m + 1 \in 1..n /\ v[m + 1] \in Int
    BY <1>2, <2>1
  <2>3. SumTo(v, m) \in Int /\ SumTo(v, m + 1) = SumTo(v, m) + v[m + 1]
    BY SumInt, SumStep
  <2>4. \A i \in 1..m : f[i] = IF IsFirst(kind, i) THEN OfKind(v, kind, kind[i], m) ELSE 0
    OBVIOUS
  <2>5. \A i \in 1..m + 1 :
          g[i] = IF IsFirst(kind, i) THEN OfKind(v, kind, kind[i], m + 1) ELSE 0
    OBVIOUS
  <2> HIDE DEF f, g
  <2>6. ASSUME NEW i \in 1..m, kind[i] # kind[m + 1] PROVE f[i] = g[i]
    <3>1. OfKind(v, kind, kind[i], m + 1) = OfKind(v, kind, kind[i], m) + 0
      BY <2>6, OfKindStep
    <3>2. OfKind(v, kind, kind[i], m) \in Int
      BY OfKindInt
    <3> QED
      BY <3>1, <3>2, <2>4, <2>5
  <2>7. CASE IsFirst(kind, m + 1)
    <3>1. \A i \in 1..m : kind[i] # kind[m + 1]
      BY <2>7 DEF IsFirst
    <3>2. SumTo(g, m + 1) = SumTo(f, m) + g[m + 1]
      BY <3>1, <2>6, SumAppended
    <3>3. OfKind(v, kind, kind[m + 1], m) = 0
      <4> DEFINE z == [j \in 1..m |-> IF kind[j] = kind[m + 1] THEN v[j] ELSE 0]
      <4>1. \A j \in 1..m : z[j] = 0
        BY <3>1
      <4> HIDE DEF z
      <4>2. SumTo(z, m) = 0
        BY <4>1, SumZero
      <4> QED
        BY <4>2 DEF OfKind, z
    <3>4. g[m + 1] = v[m + 1]
      BY <2>2, <2>5, <2>7, <3>3, OfKindStep
    <3> QED
      BY <2>1, <2>2, <2>3, <3>2, <3>4
  <2>8. CASE ~IsFirst(kind, m + 1)
    <3> DEFINE T == {j \in 1..m : kind[j] = kind[m + 1]}
    <3>1. T \subseteq Nat /\ T # {}
      BY <2>8 DEF IsFirst
    <3>2. PICK q \in T : \A j \in T : q <= j
      <4> HIDE DEF T
      <4> QED
        BY <3>1, Least
    <3>3. q \in 1..m /\ kind[q] = kind[m + 1] /\ IsFirst(kind, q)
      BY <3>2 DEF IsFirst
    <3>4. ASSUME NEW i \in 1..m, i # q PROVE f[i] = g[i]
      <4>1. CASE kind[i] # kind[m + 1]
        BY <4>1, <2>6
      <4>2. CASE kind[i] = kind[m + 1]
        <5>1. q < i
          BY <3>2, <3>4, <4>2
        <5>2. ~IsFirst(kind, i)
          BY <5>1, <3>3, <4>2 DEF IsFirst
        <5> QED
          BY <5>2, <2>4, <2>5
      <4> QED
        BY <4>1, <4>2
    <3>5. \A i \in 1..m : f[i] \in Int
      BY <2>4, OfKindInt
    <3>6. g[q] = f[q] + v[m + 1]
      BY <3>3, <2>4, <2>5, OfKindStep
    <3>7. g[q] \in Int
      BY <3>3, <3>5, <3>6, <2>2
    <3>8. SumTo(g, m) = SumTo(f, m) - f[q] + g[q]
      BY <3>3, <3>4, <3>5, <3>7, SumChanged
    <3>9. SumTo(g, m + 1) = SumTo(g, m) + g[m + 1] /\ g[m + 1] = 0
      BY <2>5, <2>8, SumStep
    <3>10. f[q] \in Int
      BY <3>3, <3>5
    <3> QED
      BY <2>1, <2>2, <2>3, <3>6, <3>8, <3>9, <3>10
  <2> QED
    BY <2>7, <2>8
<1> HIDE DEF S
<1>3. \A m \in Nat : m \in S
  BY <1>1, <1>2, SetInduction
<1> QED
  BY <1>3 DEF S
=============================================================================
