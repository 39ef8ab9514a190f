----------------------------- MODULE SumsProofs -----------------------------
(***************************************************************************)
(* Lemmas on the sums of module Sums.  They are proved by induction, which *)
(* is stated here without an operator parameter: a nonempty set of natural *)
(* numbers has a least element.                                            *)
(***************************************************************************)
EXTENDS Sums, WellFoundedInduction, TLAPS

(* A nonempty set of natural numbers has a least element. *)
LEMMA LeastElement ==
  ASSUME NEW T, T \subseteq Nat, T # {}
  PROVE  \E x \in T : \A y \in T : x <= y
<1>1. PICK x \in T : \A y \in T : ~(<<y, x>> \in OpToRel(<, Nat))
  BY NatLessThanWellFounded, WFMin
<1>2. \A y \in T : ~(y < x)
  BY <1>1 DEF OpToRel
<1>3. QED
  BY <1>2

(* Induction over Nat: a set of numbers with 0 and all successors is Nat. *)
LEMMA Induction ==
  ASSUME NEW S, 0 \in S, \A n \in Nat : n \in S => n + 1 \in S
  PROVE  \A n \in Nat : n \in S
<1>1. SUFFICES ASSUME Nat \ S # {} PROVE FALSE
  OBVIOUS
<1>2. PICK x \in Nat \ S : \A y \in Nat \ S : x <= y
  BY <1>1, LeastElement
<1>3. x # 0 /\ x - 1 \in Nat
  BY <1>2
<1>4. x - 1 \in S
  BY <1>2, <1>3
<1>5. x \in S
  BY <1>3, <1>4
<1>6. QED
  BY <1>2, <1>5

-----------------------------------------------------------------------------
(* s is the function of partial sums that SumTo(f, n) defines. *)
IsPartialSums(s, f, n) ==
  s = [i \in 0 .. n |-> IF i = 0 THEN 0 ELSE s[i - 1] + f[i]]

(* Partial sums of integers exist, up to every length. *)
LEMMA PartialSumsExist ==
  ASSUME NEW m \in Nat, NEW f, \A i \in 1 .. m : f[i] \in Int
  PROVE  \E s \in [0 .. m -> Int] : IsPartialSums(s, f, m)
<1> DEFINE S == {n \in Nat : n <= m =>
                   \E s \in [0 .. n -> Int] : IsPartialSums(s, f, n)}
<1>1. 0 \in S
  <2>1. [i \in 0 .. 0 |-> 0] \in [0 .. 0 -> Int]
    OBVIOUS
  <2>2. IsPartialSums([i \in 0 .. 0 |-> 0], f, 0)
    BY DEF IsPartialSums
  <2>3. QED
    BY <2>1, <2>2
<1>2. ASSUME NEW n \in Nat, n \in S PROVE n + 1 \in S
  <2>1. SUFFICES ASSUME n + 1 <= m
                 PROVE  \E s \in [0 .. n + 1 -> Int] :
                          IsPartialSums(s, f, n + 1)
    OBVIOUS
  <2>2. PICK s \in [0 .. n -> Int] : IsPartialSums(s, f, n)
    BY <1>2, <2>1
  <2> DEFINE r == [i \in 0 .. n + 1 |-> IF i = n + 1 THEN s[n] + f[i] ELSE s[i]]
  <2>3. r \in [0 .. n + 1 -> Int]
    BY <2>1
  <2>4. \A i \in 0 .. n : s[i] = IF i = 0 THEN 0 ELSE s[i - 1] + f[i]
    BY <2>2 DEF IsPartialSums
  <2>5. \A i \in 0 .. n + 1 : r[i] = IF i = 0 THEN 0 ELSE r[i - 1] + f[i]
    BY <2>4
  <2>6. IsPartialSums(r, f, n + 1)
    BY <2>5 DEF IsPartialSums
  <2>7. QED
    BY <2>3, <2>6
<1>3. m \in S
  <2> HIDE DEF S
  <2>1. QED
    BY <1>1, <1>2, Induction
<1>4. QED
  BY <1>3

(* The recursive definition of SumTo denotes its partial sums. *)
LEMMA SumToIsPartialSum ==
  ASSUME NEW m \in Nat, NEW f, \A i \in 1 .. m : f[i] \in Int
  PROVE  \E s : IsPartialSums(s, f, m) /\ SumTo(f, m) = s[m]
<1> DEFINE s == CHOOSE s : IsPartialSums(s, f, m)
<1>1. IsPartialSums(s, f, m)
  BY PartialSumsExist
<1>2. SumTo(f, m) = s[m]
  BY DEF SumTo, IsPartialSums
<1>3. QED
  BY <1>1, <1>2

(* Partial sums agree as far as their summands do. *)
LEMMA PartialSumsAgree ==
  ASSUME NEW m \in Nat, NEW n \in Nat, m <= n, NEW f, NEW g,
         \A i \in 1 .. m : f[i] = g[i],
         NEW s, IsPartialSums(s, f, m), NEW t, IsPartialSums(t, g, n)
  PROVE  s[m] = t[m]
<1> DEFINE S == {i \in Nat : i <= m => s[i] = t[i]}
<1>1. \A i \in 0 .. m : s[i] = IF i = 0 THEN 0 ELSE s[i - 1] + f[i]
  BY DEF IsPartialSums
<1>2. \A i \in 0 .. n : t[i] = IF i = 0 THEN 0 ELSE t[i - 1] + g[i]
  BY DEF IsPartialSums
<1>3. 0 \in S
  BY <1>1, <1>2
<1>4. ASSUME NEW i \in Nat, i \in S PROVE i + 1 \in S
  <2>1. SUFFICES ASSUME i + 1 <= m PROVE s[i + 1] = t[i + 1]
    OBVIOUS
  <2>2. s[i] = t[i] /\ f[i + 1] = g[i + 1]
    BY <1>4, <2>1
  <2>3. QED
    BY <1>1, <1>2, <2>1, <2>2
<1>5. m \in S
  <2> HIDE DEF S
  <2>1. QED
    BY <1>3, <1>4, Induction
<1>6. QED
  BY <1>5

-----------------------------------------------------------------------------
(* The empty sum. *)
LEMMA SumToZero ==
  ASSUME NEW f
  PROVE  SumTo(f, 0) = 0
<1>1. PICK s : IsPartialSums(s, f, 0) /\ SumTo(f, 0) = s[0]
  BY SumToIsPartialSum
<1>2. QED
  BY <1>1 DEF IsPartialSums

(* Sums of lists that agree are equal. *)
LEMMA SumToAgree ==
  ASSUME NEW m \in Nat, NEW f, NEW g,
         \A i \in 1 .. m : f[i] \in Int /\ f[i] = g[i]
  PROVE  SumTo(f, m) = SumTo(g, m)
<1>1. PICK s : IsPartialSums(s, f, m) /\ SumTo(f, m) = s[m]
  BY SumToIsPartialSum
<1>2. \A i \in 1 .. m : g[i] \in Int
  OBVIOUS
<1>3. PICK t : IsPartialSums(t, g, m) /\ SumTo(g, m) = t[m]
  BY <1>2, SumToIsPartialSum
<1>4. QED
  BY <1>1, <1>3, PartialSumsAgree

(* One summand more. *)
LEMMA SumToNext ==
  ASSUME NEW n \in Nat, NEW f, \A i \in 1 .. n + 1 : f[i] \in Int
  PROVE  SumTo(f, n + 1) = SumTo(f, n) + f[n + 1]
<1>1. PICK s : IsPartialSums(s, f, n) /\ SumTo(f, n) = s[n]
  BY SumToIsPartialSum
<1>2. PICK t : IsPartialSums(t, f, n + 1) /\ SumTo(f, n + 1) = t[n + 1]
  BY SumToIsPartialSum
<1>3. s[n] = t[n]
  <2>1. n <= n + 1
    OBVIOUS
  <2>2. QED
    BY <1>1, <1>2, <2>1, PartialSumsAgree
<1>4. t[n + 1] = t[n] + f[n + 1]
  BY <1>2 DEF IsPartialSums
<1>5. QED
  BY <1>1, <1>2, <1>3, <1>4

(* A sum of integers is an integer. *)
LEMMA SumToInt ==
  ASSUME NEW m \in Nat, NEW f, \A i \in 1 .. m : f[i] \in Int
  PROVE  SumTo(f, m) \in Int
<1> DEFINE S == {n \in Nat : n <= m => SumTo(f, n) \in Int}
<1>1. 0 \in S
  BY SumToZero
<1>2. ASSUME NEW n \in Nat, n \in S PROVE n + 1 \in S
  <2>1. SUFFICES ASSUME n + 1 <= m PROVE SumTo(f, n + 1) \in Int
    OBVIOUS
  <2>2. \A i \in 1 .. n + 1 : f[i] \in Int
    BY <2>1
  <2>3. SumTo(f, n + 1) = SumTo(f, n) + f[n + 1]
    BY <2>2, SumToNext
  <2>4. QED
    BY <1>2, <2>1, <2>2, <2>3
<1>3. m \in S
  <2> HIDE DEF S
  <2>1. QED
    BY <1>1, <1>2, Induction
<1>4. QED
  BY <1>3

(* A list that is nowhere larger has no larger sum, and a part of it that  *)
(* leaves out summands that are not negative has no larger sum either.     *)
LEMMA SumToMonotone ==
  ASSUME NEW m \in Nat, NEW f, NEW g,
         \A i \in 1 .. m : f[i] \in Int /\ g[i] \in Int /\ f[i] <= g[i]
  PROVE  SumTo(f, m) <= SumTo(g, m)
<1> DEFINE S == {n \in Nat : n <= m => SumTo(f, n) <= SumTo(g, n)}
<1>1. 0 \in S
  BY SumToZero
<1>2. ASSUME NEW n \in Nat, n \in S PROVE n + 1 \in S
  <2>1. SUFFICES ASSUME n + 1 <= m
                 PROVE  SumTo(f, n + 1) <= SumTo(g, n + 1)
    OBVIOUS
  <2>2. \A i \in 1 .. n + 1 : f[i] \in Int /\ g[i] \in Int /\ f[i] <= g[i]
    BY <2>1
  <2>3. /\ SumTo(f, n + 1) = SumTo(f, n) + f[n + 1]
        /\ SumTo(g, n + 1) = SumTo(g, n) + g[n + 1]
    BY <2>2, SumToNext
  <2>4. SumTo(f, n) \in Int /\ SumTo(g, n) \in Int
    BY <2>2, SumToInt
  <2>5. QED
    BY <1>2, <2>1, <2>2, <2>3, <2>4
<1>3. m \in S
  <2> HIDE DEF S
  <2>1. QED
    BY <1>1, <1>2, Induction
<1>4. QED
  BY <1>3

(* A list that is the sum of two others, place by place. *)
LEMMA SumToPlus ==
  ASSUME NEW m \in Nat, NEW f, NEW g, NEW h,
         \A i \in 1 .. m : f[i] \in Int /\ g[i] \in Int /\ h[i] = f[i] + g[i]
  PROVE  SumTo(h, m) = SumTo(f, m) + SumTo(g, m)
<1> DEFINE S == {n \in Nat : n <= m => SumTo(h, n) = SumTo(f, n) + SumTo(g, n)}
<1>1. 0 \in S
  BY SumToZero
<1>2. ASSUME NEW n \in Nat, n \in S PROVE n + 1 \in S
  <2>1. SUFFICES ASSUME n + 1 <= m
                 PROVE  SumTo(h, n + 1) = SumTo(f, n + 1) + SumTo(g, n + 1)
    OBVIOUS
  <2>2. \A i \in 1 .. n + 1 : f[i] \in Int /\ g[i] \in Int /\ h[i] \in Int
    BY <2>1
  <2>3. /\ SumTo(f, n + 1) = SumTo(f, n) + f[n + 1]
        /\ SumTo(g, n + 1) = SumTo(g, n) + g[n + 1]
        /\ SumTo(h, n + 1) = SumTo(h, n) + h[n + 1]
    BY <2>2, SumToNext
  <2>4. SumTo(f, n) \in Int /\ SumTo(g, n) \in Int
    BY <2>2, SumToInt
  <2>5. /\ SumTo(h, n) = SumTo(f, n) + SumTo(g, n)
        /\ h[n + 1] = f[n + 1] + g[n + 1]
    BY <1>2, <2>1
  <2>6. QED
    BY <2>2, <2>3, <2>4, <2>5
<1>3. m \in S
  <2> HIDE DEF S
  <2>1. QED
    BY <1>1, <1>2, Induction
<1>4. QED
  BY <1>3

(* Changing one summand changes the sum by the difference. *)
LEMMA SumToUpdate ==
  ASSUME NEW m \in Nat, NEW f, NEW g, NEW j \in 1 .. m,
         \A i \in 1 .. m : f[i] \in Int /\ g[i] \in Int,
         \A i \in 1 .. m : i # j => f[i] = g[i]
  PROVE  SumTo(g, m) = SumTo(f, m) - f[j] + g[j]
<1> DEFINE S == {n \in Nat : n <= m =>
                   SumTo(g, n) = SumTo(f, n)
                     + IF j <= n THEN g[j] - f[j] ELSE 0}
<1>1. 0 \in S
  BY SumToZero
<1>2. ASSUME NEW n \in Nat, n \in S PROVE n + 1 \in S
  <2>1. SUFFICES ASSUME n + 1 <= m
                 PROVE  SumTo(g, n + 1) = SumTo(f, n + 1)
                          + IF j <= n + 1 THEN g[j] - f[j] ELSE 0
    OBVIOUS
  <2>2. \A i \in 1 .. n + 1 : f[i] \in Int /\ g[i] \in Int
    BY <2>1
  <2>3. /\ SumTo(f, n + 1) = SumTo(f, n) + f[n + 1]
        /\ SumTo(g, n + 1) = SumTo(g, n) + g[n + 1]
    BY <2>2, SumToNext
  <2>4. SumTo(f, n) \in Int /\ SumTo(g, n) \in Int
    BY <2>2, SumToInt
  <2>5. SumTo(g, n) = SumTo(f, n) + IF j <= n THEN g[j] - f[j] ELSE 0
    BY <1>2, <2>1
  <2>6. CASE n + 1 = j
    BY <2>2, <2>3, <2>4, <2>5, <2>6
  <2>7. CASE n + 1 # j
    <3>1. g[n + 1] = f[n + 1] /\ (j <= n + 1 <=> j <= n)
      BY <2>1, <2>7
    <3>2. QED
      BY <2>2, <2>3, <2>4, <2>5, <3>1
  <2>8. QED
    BY <2>6, <2>7
<1>3. m \in S
  <2> HIDE DEF S
  <2>1. QED
    BY <1>1, <1>2, Induction
<1>4. SumTo(f, m) \in Int
  BY SumToInt
<1>5. QED
  BY <1>3, <1>4

(* Taking the last thing out of an order: the thing in the last place      *)
(* moves to where it was.                                                  *)
WithoutLast(q, n, j) == [k \in 1 .. n |-> IF k = j THEN q[n + 1] ELSE q[k]]

LEMMA RearrangementWithoutLast ==
  ASSUME NEW n \in Nat, NEW q \in Rearrangements(n + 1),
         NEW j \in 1 .. n + 1, q[j] = n + 1
  PROVE  WithoutLast(q, n, j) \in Rearrangements(n)
<1> DEFINE r == WithoutLast(q, n, j)
<1>1. \A k \in 1 .. n + 1 : q[k] \in 1 .. n + 1
  BY DEF Rearrangements
<1>2. \A v \in 1 .. n + 1 : \E k \in 1 .. n + 1 :
        q[k] = v /\ \A i \in 1 .. n + 1 : q[i] = v => i = k
  BY DEF Rearrangements
<1>3. \A a, b \in 1 .. n + 1 : q[a] = q[b] => a = b
  BY <1>1, <1>2
<1>4. \A k \in 1 .. n : r[k] = IF k = j THEN q[n + 1] ELSE q[k]
  BY DEF WithoutLast
<1>5. ASSUME NEW k \in 1 .. n PROVE r[k] \in 1 .. n
  <2>1. k \in 1 .. n + 1 /\ n + 1 \in 1 .. n + 1 /\ k # n + 1
    OBVIOUS
  <2>2. r[k] \in 1 .. n + 1
    BY <1>1, <1>4, <2>1
  <2>3. r[k] # q[j]
    <3>1. CASE k = j
      BY <1>3, <1>4, <2>1, <3>1
    <3>2. CASE k # j
      BY <1>3, <1>4, <2>1, <3>2
    <3>3. QED
      BY <3>1, <3>2
  <2>4. QED
    BY <2>2, <2>3
<1>6. r \in [1 .. n -> 1 .. n]
  BY <1>5 DEF WithoutLast
<1>7. ASSUME NEW v \in 1 .. n
      PROVE  \E k \in 1 .. n :
               r[k] = v /\ \A i \in 1 .. n : r[i] = v => i = k
  <2>0. v \in 1 .. n + 1 /\ v # n + 1
    OBVIOUS
  <2>1. PICK k \in 1 .. n + 1 :
          q[k] = v /\ \A i \in 1 .. n + 1 : q[i] = v => i = k
    BY <1>2, <2>0
  <2>2. k # j
    BY <2>0, <2>1
  <2>3. \A i \in 1 .. n : i \in 1 .. n + 1 /\ i # n + 1
    OBVIOUS
  <2>4. CASE k = n + 1
    <3>1. j \in 1 .. n /\ r[j] = v
      BY <1>4, <2>1, <2>2, <2>4
    <3>2. \A i \in 1 .. n : r[i] = v => i = j
      BY <1>4, <2>1, <2>3, <2>4
    <3>3. QED
      BY <3>1, <3>2
  <2>5. CASE k # n + 1
    <3>1. k \in 1 .. n /\ r[k] = v
      BY <1>4, <2>1, <2>2, <2>5
    <3>2. \A i \in 1 .. n : r[i] = v => i = k
      BY <1>4, <2>1, <2>3, <2>5
    <3>3. QED
      BY <3>1, <3>2
  <2>6. QED
    BY <2>4, <2>5
<1>8. QED
  BY <1>6, <1>7 DEF Rearrangements

(* The order of the summands does not matter. *)
LEMMA SumToRearranged ==
  ASSUME NEW m \in Nat, NEW f, \A i \in 1 .. m : f[i] \in Int,
         NEW p \in Rearrangements(m)
  PROVE  SumTo([k \in 1 .. m |-> f[p[k]]], m) = SumTo(f, m)
<1> DEFINE Rearranged(q, n) == SumTo([k \in 1 .. n |-> f[q[k]]], n)
           S == {n \in Nat : n <= m => \A q \in Rearrangements(n) :
                   Rearranged(q, n) = SumTo(f, n)}
<1>1. 0 \in S
  BY SumToZero
<1>2. ASSUME NEW n \in Nat, n \in S PROVE n + 1 \in S
  <2>1. SUFFICES ASSUME n + 1 <= m, NEW q \in Rearrangements(n + 1)
                 PROVE  SumTo([k \in 1 .. n + 1 |-> f[q[k]]], n + 1)
                          = SumTo(f, n + 1)
    OBVIOUS
  <2> DEFINE g == [k \in 1 .. n + 1 |-> f[q[k]]]
  <2>2. q \in [1 .. n + 1 -> 1 .. n + 1]
    BY DEF Rearrangements
  <2>3. \A i \in 1 .. n + 1 : f[i] \in Int /\ g[i] \in Int
    BY <2>1, <2>2
  <2>4. PICK j \in 1 .. n + 1 :
          q[j] = n + 1 /\ \A i \in 1 .. n + 1 : q[i] = n + 1 => i = j
    BY DEF Rearrangements
  <2> DEFINE r == WithoutLast(q, n, j)
             h == [k \in 1 .. n |-> f[r[k]]]
  <2>5. r \in Rearrangements(n)
    BY <2>4, RearrangementWithoutLast
  <2>6. /\ r \in [1 .. n -> 1 .. n]
        /\ \A k \in 1 .. n : r[k] = IF k = j THEN q[n + 1] ELSE q[k]
    BY <2>5 DEF Rearrangements, WithoutLast
  <2> HIDE DEF r
  <2>7. SumTo(h, n) = SumTo(f, n)
    <3>1. Rearranged(r, n) = SumTo(f, n)
      <4> HIDE DEF Rearranged
      <4>1. QED
        BY <1>2, <2>1, <2>5
    <3>2. QED
      BY <3>1
  <2>8. /\ SumTo(f, n + 1) = SumTo(f, n) + f[n + 1]
        /\ SumTo(g, n + 1) = SumTo(g, n) + g[n + 1]
    <3> HIDE DEF g
    <3>1. QED
      BY <2>3, SumToNext
  <2>9. /\ SumTo(f, n) \in Int
        /\ SumTo(g, n) \in Int
    <3> HIDE DEF g
    <3>1. \A i \in 1 .. n : f[i] \in Int /\ g[i] \in Int
      BY <2>3
    <3>2. QED
      BY <3>1, SumToInt
  <2>10. CASE j = n + 1
    <3>1. \A i \in 1 .. n : h[i] \in Int /\ h[i] = g[i]
      BY <2>3, <2>6, <2>10
    <3>2. SumTo(h, n) = SumTo(g, n)
      <4> HIDE DEF g, h
      <4>1. QED
        BY <3>1, SumToAgree
    <3>3. g[n + 1] = f[n + 1]
      BY <2>4, <2>10
    <3>4. QED
      BY <2>7, <2>8, <3>2, <3>3
  <2>11. CASE j # n + 1
    <3>1. j \in 1 .. n
      BY <2>11
    <3>2. \A i \in 1 .. n : /\ g[i] \in Int /\ h[i] \in Int
                            /\ i # j => g[i] = h[i]
      <4>1. ASSUME NEW i \in 1 .. n
            PROVE  /\ g[i] \in Int
                   /\ h[i] \in Int
                   /\ i # j => g[i] = h[i]
        <5>1. i \in 1 .. n + 1 /\ i \in 1 .. m /\ r[i] \in 1 .. n /\ r[i] \in 1 .. m
          BY <2>1, <2>6
        <5>2. h[i] = f[r[i]] /\ g[i] = f[q[i]] /\ (i # j => r[i] = q[i])
          BY <2>6, <5>1
        <5> HIDE DEF g, h
        <5>3. QED
          BY <2>3, <5>1, <5>2
      <4> HIDE DEF g, h
      <4>2. QED
        BY <4>1
    <3>3. SumTo(h, n) = SumTo(g, n) - g[j] + h[j]
      <4> HIDE DEF g, h
      <4>1. \A i \in 1 .. n : g[i] \in Int /\ h[i] \in Int
        BY <3>2
      <4>2. \A i \in 1 .. n : i # j => g[i] = h[i]
        BY <3>2
      <4>3. QED
        BY <3>1, <4>1, <4>2, SumToUpdate
    <3>4. g[j] = f[n + 1] /\ h[j] = g[n + 1]
      BY <2>4, <2>6, <3>1
    <3>5. f[n + 1] \in Int /\ g[n + 1] \in Int
      BY <2>3
    <3>6. QED
      <4> HIDE DEF g, h
      <4>1. SumTo(g, n) + g[n + 1] = SumTo(h, n) + f[n + 1]
        BY <2>9, <3>3, <3>4, <3>5
      <4>2. QED
        BY <2>7, <2>8, <4>1 DEF g, h
  <2>12. QED
    BY <2>10, <2>11
<1>3. m \in S
  <2> HIDE DEF S
  <2>1. QED
    BY <1>1, <1>2, Induction
<1>4. QED
  BY <1>3

-----------------------------------------------------------------------------
(* Summands that are 0 at the end add nothing. *)
LEMMA SumToZeroTail ==
  ASSUME NEW m \in Nat, NEW n \in Nat, m <= n, NEW f,
         \A i \in 1 .. n : f[i] \in Int,
         \A i \in m + 1 .. n : f[i] = 0
  PROVE  SumTo(f, n) = SumTo(f, m)
<1> DEFINE S == {i \in Nat : m <= i /\ i <= n => SumTo(f, i) = SumTo(f, m)}
<1>1. 0 \in S
  <2>1. m <= 0 => m = 0
    OBVIOUS
  <2>2. QED
    BY <2>1
<1>2. ASSUME NEW i \in Nat, i \in S PROVE i + 1 \in S
  <2>1. SUFFICES ASSUME m <= i + 1, i + 1 <= n
                 PROVE  SumTo(f, i + 1) = SumTo(f, m)
    OBVIOUS
  <2>2. CASE m = i + 1
    BY <2>2
  <2>3. CASE m <= i
    <3>1. SumTo(f, i) = SumTo(f, m)
      BY <1>2, <2>1, <2>3
    <3>2. \A k \in 1 .. i + 1 : f[k] \in Int
      BY <2>1
    <3>3. SumTo(f, i + 1) = SumTo(f, i) + f[i + 1]
      BY <3>2, SumToNext
    <3>4. SumTo(f, i) \in Int
      BY <3>2, SumToInt
    <3>5. f[i + 1] = 0
      BY <2>1, <2>3
    <3>6. QED
      BY <3>1, <3>3, <3>4, <3>5
  <2>4. QED
    BY <2>1, <2>2, <2>3
<1>3. n \in S
  <2> HIDE DEF S
  <2>1. QED
    BY <1>1, <1>2, Induction
<1>4. QED
  BY <1>3

(* A longer sum of natural numbers is no smaller, and none is negative. *)
LEMMA SumToGrows ==
  ASSUME NEW m \in Nat, NEW n \in Nat, m <= n, NEW f,
         \A i \in 1 .. n : f[i] \in Nat
  PROVE  SumTo(f, m) \in Nat /\ SumTo(f, n) \in Nat /\ SumTo(f, m) <= SumTo(f, n)
<1> DEFINE g == [i \in 1 .. n |-> IF i <= m THEN f[i] ELSE 0]
           z == [i \in 1 .. n |-> 0]
<1>0. /\ \A i \in 1 .. n : g[i] \in Int /\ f[i] \in Int /\ g[i] <= f[i]
      /\ \A i \in 1 .. n : z[i] \in Int /\ g[i] \in Int /\ z[i] <= g[i]
      /\ \A i \in m + 1 .. n : g[i] = 0
      /\ \A i \in 1 .. m : g[i] \in Int /\ g[i] = f[i]
      /\ \A i \in 0 + 1 .. n : z[i] = 0
  OBVIOUS
<1> HIDE DEF g, z
<1>1. SumTo(g, n) <= SumTo(f, n)
  BY <1>0, SumToMonotone
<1>2. SumTo(z, n) <= SumTo(g, n)
  BY <1>0, SumToMonotone
<1>3. SumTo(z, n) = 0
  <2>1. 0 <= n
    OBVIOUS
  <2>2. QED
    BY <1>0, <2>1, SumToZeroTail, SumToZero
<1>4. SumTo(g, n) = SumTo(g, m)
  BY <1>0, SumToZeroTail
<1>5. SumTo(g, m) = SumTo(f, m)
  BY <1>0, SumToAgree
<1>6. SumTo(g, n) \in Int /\ SumTo(f, n) \in Int
  BY <1>0, SumToInt
<1>7. QED
  BY <1>1, <1>2, <1>3, <1>4, <1>5, <1>6

-----------------------------------------------------------------------------
(* The sum over selected positions, as the selection grows by a decision. *)
LEMMA SelSumAppend ==
  ASSUME NEW sel \in Seq(BOOLEAN), NEW b \in BOOLEAN, NEW f,
         \A i \in 1 .. Len(sel) + 1 : f[i] \in Int
  PROVE  SelSum(f, Append(sel, b))
           = SelSum(f, sel) + IF b THEN f[Len(sel) + 1] ELSE 0
<1> DEFINE n == Len(sel)
           g == Masked(f, sel)
           h == Masked(f, Append(sel, b))
<1>1. n \in Nat /\ Len(Append(sel, b)) = n + 1
  OBVIOUS
<1>2. \A i \in 1 .. n : g[i] \in Int /\ g[i] = h[i]
  BY DEF Masked
<1>3. \A i \in 1 .. n + 1 : h[i] \in Int
  BY DEF Masked
<1>4. h[n + 1] = IF b THEN f[n + 1] ELSE 0
  BY DEF Masked
<1> HIDE DEF g, h
<1>5. SumTo(h, n + 1) = SumTo(h, n) + h[n + 1]
  BY <1>1, <1>3, SumToNext
<1>6. SumTo(g, n) = SumTo(h, n)
  BY <1>1, <1>2, SumToAgree
<1>7. QED
  BY <1>1, <1>4, <1>5, <1>6 DEF SelSum, g, h

(* A selection and the same one continued without taking anything more. *)
LEMMA SelSumPadded ==
  ASSUME NEW sel \in Seq(BOOLEAN), NEW pad \in Seq(BOOLEAN), NEW f,
         Len(sel) <= Len(pad),
         \A i \in 1 .. Len(pad) : f[i] \in Int,
         \A i \in 1 .. Len(sel) : pad[i] = sel[i],
         \A i \in Len(sel) + 1 .. Len(pad) : ~pad[i]
  PROVE  SelSum(f, pad) = SelSum(f, sel)
<1> DEFINE m == Len(sel)
           n == Len(pad)
           g == Masked(f, sel)
           h == Masked(f, pad)
<1>1. m \in Nat /\ n \in Nat /\ m <= n
  OBVIOUS
<1>2. \A i \in 1 .. m : g[i] \in Int /\ g[i] = h[i]
  BY DEF Masked
<1>3. \A i \in 1 .. n : h[i] \in Int
  BY DEF Masked
<1>4. \A i \in m + 1 .. n : h[i] = 0
  BY DEF Masked
<1> HIDE DEF g, h
<1>5. SumTo(h, n) = SumTo(h, m)
  BY <1>1, <1>3, <1>4, SumToZeroTail
<1>6. SumTo(g, m) = SumTo(h, m)
  BY <1>1, <1>2, SumToAgree
<1>7. QED
  BY <1>5, <1>6 DEF SelSum, g, h

(* The selection in which the last position taken is left out instead. *)
LEMMA SelSumLeaveOut ==
  ASSUME NEW sel \in Seq(BOOLEAN), NEW out \in Seq(BOOLEAN), NEW f,
         Len(out) \in 1 .. Len(sel), sel[Len(out)], ~out[Len(out)],
         \A i \in 1 .. Len(sel) : f[i] \in Int,
         \A i \in 1 .. Len(out) - 1 : out[i] = sel[i],
         \A i \in Len(out) + 1 .. Len(sel) : ~sel[i]
  PROVE  SelSum(f, out) = SelSum(f, sel) - f[Len(out)]
<1> DEFINE k == Len(out) - 1
           n == Len(sel)
           g == Masked(f, sel)
           h == Masked(f, out)
<1>1. k \in Nat /\ n \in Nat /\ k + 1 <= n /\ Len(out) = k + 1
  OBVIOUS
<1>2. \A i \in 1 .. n : g[i] \in Int
  BY DEF Masked
<1>3. \A i \in (k + 1) + 1 .. n : g[i] = 0
  BY DEF Masked
<1>4. \A i \in 1 .. k + 1 : h[i] \in Int
  BY DEF Masked
<1>5. \A i \in 1 .. k : g[i] \in Int /\ g[i] = h[i]
  BY DEF Masked
<1>6. g[k + 1] = f[k + 1] /\ h[k + 1] = 0 /\ f[k + 1] \in Int
  BY DEF Masked
<1>7. \A i \in 1 .. k + 1 : g[i] \in Int
  BY <1>1, <1>2
<1> HIDE DEF k, n, g, h
<1>8. SumTo(g, n) = SumTo(g, k + 1)
  BY <1>1, <1>2, <1>3, SumToZeroTail
<1>9. /\ SumTo(g, k + 1) = SumTo(g, k) + g[k + 1]
      /\ SumTo(h, k + 1) = SumTo(h, k) + h[k + 1]
  BY <1>1, <1>4, <1>7, SumToNext
<1>10. SumTo(g, k) = SumTo(h, k) /\ SumTo(g, k) \in Int
  BY <1>1, <1>5, SumToAgree, SumToInt
<1>11. SumTo(h, k + 1) = SumTo(g, n) - f[k + 1]
  BY <1>6, <1>8, <1>9, <1>10
<1>12. QED
  BY <1>1, <1>11 DEF SelSum, g, h, n

(* A selection among natural numbers takes at most all of them. *)
LEMMA SelSumBounds ==
  ASSUME NEW sel \in Seq(BOOLEAN), NEW f,
         \A i \in 1 .. Len(sel) : f[i] \in Nat
  PROVE  SelSum(f, sel) \in Nat /\ SelSum(f, sel) <= SumTo(f, Len(sel))
<1> DEFINE n == Len(sel)
           g == Masked(f, sel)
<1>1. n \in Nat /\ n <= n
  OBVIOUS
<1>2. /\ \A i \in 1 .. n : g[i] \in Nat
      /\ \A i \in 1 .. n : g[i] \in Int /\ f[i] \in Int /\ g[i] <= f[i]
  BY DEF Masked
<1> HIDE DEF g
<1>3. SumTo(g, n) \in Nat
  BY <1>1, <1>2, SumToGrows
<1>4. SumTo(g, n) <= SumTo(f, n)
  BY <1>1, <1>2, SumToMonotone
<1>5. QED
  BY <1>3, <1>4 DEF SelSum, g

-----------------------------------------------------------------------------
(* Flags on a list of n things. *)
FlagLists(n) == [1 .. n -> BOOLEAN]

LEMMA FlagsLen ==
  ASSUME NEW n \in Nat, NEW sel \in FlagLists(n)
  PROVE  Len(sel) = n
BY DEF FlagLists

(* A sum is about the flagged positions only. *)
LEMMA SelSumAgree ==
  ASSUME NEW n \in Nat, NEW sel \in FlagLists(n), NEW f, NEW g,
         \A i \in 1 .. n : sel[i] => f[i] \in Int /\ f[i] = g[i]
  PROVE  SelSum(f, sel) = SelSum(g, sel)
<1>1. Len(sel) = n
  BY FlagsLen
<1>2. \A i \in 1 .. n : /\ Masked(f, sel)[i] \in Int
                        /\ Masked(f, sel)[i] = Masked(g, sel)[i]
  BY <1>1 DEF Masked
<1>3. SumTo(Masked(f, sel), n) = SumTo(Masked(g, sel), n)
  BY <1>2, SumToAgree
<1>4. QED
  BY <1>1, <1>3 DEF SelSum

LEMMA SelSumInt ==
  ASSUME NEW n \in Nat, NEW sel \in FlagLists(n), NEW f,
         \A i \in 1 .. n : sel[i] => f[i] \in Int
  PROVE  SelSum(f, sel) \in Int
<1>1. Len(sel) = n
  BY FlagsLen
<1>2. \A i \in 1 .. n : Masked(f, sel)[i] \in Int
  BY <1>1 DEF Masked
<1>3. SumTo(Masked(f, sel), n) \in Int
  BY <1>2, SumToInt
<1>4. QED
  BY <1>1, <1>3 DEF SelSum

LEMMA SelSumNat ==
  ASSUME NEW n \in Nat, NEW sel \in FlagLists(n), NEW f,
         \A i \in 1 .. n : sel[i] => f[i] \in Nat
  PROVE  SelSum(f, sel) \in Nat
<1>1. Len(sel) = n /\ n <= n
  BY FlagsLen
<1>2. \A i \in 1 .. n : Masked(f, sel)[i] \in Nat
  BY <1>1 DEF Masked
<1>3. SumTo(Masked(f, sel), n) \in Nat
  BY <1>1, <1>2, SumToGrows
<1>4. QED
  BY <1>1, <1>3 DEF SelSum

LEMMA SelSumMonotone ==
  ASSUME NEW n \in Nat, NEW sel \in FlagLists(n), NEW f, NEW g,
         \A i \in 1 .. n : sel[i] => f[i] \in Int /\ g[i] \in Int /\ f[i] <= g[i]
  PROVE  SelSum(f, sel) <= SelSum(g, sel)
<1>1. Len(sel) = n
  BY FlagsLen
<1>2. \A i \in 1 .. n : /\ Masked(f, sel)[i] \in Int
                        /\ Masked(g, sel)[i] \in Int
                        /\ Masked(f, sel)[i] <= Masked(g, sel)[i]
  BY <1>1 DEF Masked
<1>3. SumTo(Masked(f, sel), n) <= SumTo(Masked(g, sel), n)
  BY <1>2, SumToMonotone
<1>4. QED
  BY <1>1, <1>3 DEF SelSum

(* Two selections that share nothing, taken together. *)
LEMMA SelSumUnion ==
  ASSUME NEW n \in Nat, NEW f, \A i \in 1 .. n : f[i] \in Int,
         NEW a \in FlagLists(n), NEW b \in FlagLists(n), NEW c \in FlagLists(n),
         \A i \in 1 .. n : (c[i] <=> a[i] \/ b[i]) /\ ~(a[i] /\ b[i])
  PROVE  SelSum(f, c) = SelSum(f, a) + SelSum(f, b)
<1>1. Len(a) = n /\ Len(b) = n /\ Len(c) = n
  BY FlagsLen
<1>2. \A i \in 1 .. n : /\ Masked(f, a)[i] \in Int
                        /\ Masked(f, b)[i] \in Int
                        /\ Masked(f, c)[i] = Masked(f, a)[i] + Masked(f, b)[i]
  BY <1>1 DEF Masked, FlagLists
<1>3. SumTo(Masked(f, c), n) = SumTo(Masked(f, a), n) + SumTo(Masked(f, b), n)
  BY <1>2, SumToPlus
<1>4. QED
  BY <1>1, <1>3 DEF SelSum

(* Amounts of which a part is taken off, place by place. *)
LEMMA SelSumMinus ==
  ASSUME NEW n \in Nat, NEW sel \in FlagLists(n), NEW f, NEW g, NEW h,
         \A i \in 1 .. n :
           sel[i] => f[i] \in Int /\ g[i] \in Int /\ h[i] = f[i] - g[i]
  PROVE  SelSum(h, sel) = SelSum(f, sel) - SelSum(g, sel)
<1>1. Len(sel) = n
  BY FlagsLen
<1>2. \A i \in 1 .. n :
        /\ Masked(h, sel)[i] \in Int
        /\ Masked(g, sel)[i] \in Int
        /\ Masked(f, sel)[i] = Masked(h, sel)[i] + Masked(g, sel)[i]
  BY <1>1 DEF Masked
<1>3. SumTo(Masked(f, sel), n) = SumTo(Masked(h, sel), n) + SumTo(Masked(g, sel), n)
  BY <1>2, SumToPlus
<1>4. SelSum(h, sel) \in Int /\ SelSum(g, sel) \in Int
  BY SelSumInt
<1>5. QED
  BY <1>1, <1>3, <1>4 DEF SelSum

(* Nothing is flagged. *)
NoFlags(n) == [k \in 1 .. n |-> FALSE]

LEMMA SelSumOfNone ==
  ASSUME NEW n \in Nat, NEW f
  PROVE  SelSum(f, NoFlags(n)) = 0
<1> DEFINE sel == NoFlags(n)
           g == Masked(f, sel)
<1>1. sel \in FlagLists(n) /\ Len(sel) = n
  BY FlagsLen DEF FlagLists, NoFlags
<1>2. \A i \in 1 .. n : g[i] \in Int /\ g[i] = 0
  BY <1>1 DEF Masked, NoFlags
<1> HIDE DEF g
<1>3. SumTo(g, n) = SumTo(g, 0)
  BY <1>2, SumToZeroTail
<1>4. SumTo(g, 0) = 0
  BY SumToZero
<1>5. QED
  BY <1>1, <1>3, <1>4 DEF SelSum, g

(* One more place is flagged. *)
LEMMA SelSumInclude ==
  ASSUME NEW n \in Nat, NEW sel \in FlagLists(n), NEW f, \A i \in 1 .. n : f[i] \in Int,
         NEW j \in 1 .. n, ~sel[j]
  PROVE  SelSum(f, [sel EXCEPT ![j] = TRUE]) = SelSum(f, sel) + f[j]
<1> DEFINE new == [sel EXCEPT ![j] = TRUE]
           g == Masked(f, sel)
           h == Masked(f, new)
<1>1. new \in FlagLists(n)
  BY DEF FlagLists
<1>2. Len(sel) = n /\ Len(new) = n
  BY <1>1, FlagsLen
<1>3. \A i \in 1 .. n : /\ g[i] = IF sel[i] THEN f[i] ELSE 0
                        /\ h[i] = IF new[i] THEN f[i] ELSE 0
  BY <1>2 DEF Masked
<1>4. new[j] = TRUE /\ \A i \in 1 .. n : i # j => new[i] = sel[i]
  BY DEF FlagLists
<1> HIDE DEF new, g, h
<1>5. \A i \in 1 .. n : g[i] \in Int /\ h[i] \in Int
  BY <1>3
<1>6. \A i \in 1 .. n : i # j => g[i] = h[i]
  BY <1>3, <1>4
<1>7. g[j] = 0 /\ h[j] = f[j]
  BY <1>3, <1>4
<1>8. SumTo(h, n) = SumTo(g, n) - g[j] + h[j]
  BY <1>5, <1>6, SumToUpdate
<1>9. SumTo(g, n) \in Int
  BY <1>5, SumToInt
<1>10. SumTo(h, n) = SumTo(g, n) + f[j]
  BY <1>7, <1>8, <1>9
<1>11. QED
  BY <1>2, <1>10 DEF SelSum, new, g, h

(* A flag moves to another place of the same value. *)
LEMMA SelSumMoved ==
  ASSUME NEW n \in Nat, NEW sel \in FlagLists(n), NEW f, \A i \in 1 .. n : f[i] \in Int,
         NEW j \in 1 .. n, NEW k \in 1 .. n, ~sel[j], sel[k], f[j] = f[k],
         NEW moved \in FlagLists(n), moved[j], ~moved[k],
         \A i \in 1 .. n : i # j /\ i # k => moved[i] = sel[i]
  PROVE  SelSum(f, moved) = SelSum(f, sel)
<1> DEFINE both == [i \in 1 .. n |-> sel[i] /\ i # k]
<1>1. both \in FlagLists(n) /\ ~both[j] /\ ~both[k]
  BY DEF FlagLists
<1>2. sel = [both EXCEPT ![k] = TRUE]
  BY DEF FlagLists
<1>3. moved = [both EXCEPT ![j] = TRUE]
  BY DEF FlagLists
<1> HIDE DEF both
<1>4. SelSum(f, sel) = SelSum(f, both) + f[k]
  <2>1. SelSum(f, [both EXCEPT ![k] = TRUE]) = SelSum(f, both) + f[k]
    BY <1>1, SelSumInclude
  <2>2. QED
    BY <1>2, <2>1
<1>5. SelSum(f, moved) = SelSum(f, both) + f[j]
  <2>1. SelSum(f, [both EXCEPT ![j] = TRUE]) = SelSum(f, both) + f[j]
    BY <1>1, SelSumInclude
  <2>2. QED
    BY <1>3, <2>1
<1>6. QED
  BY <1>4, <1>5

(* A selection that goes on from another one adds at most all that is left. *)
LEMMA SelSumExtended ==
  ASSUME NEW n \in Nat, NEW sel \in FlagLists(n), NEW branch \in Seq(BOOLEAN),
         Len(branch) <= n, \A i \in 1 .. Len(branch) : sel[i] = branch[i],
         NEW f, \A i \in 1 .. n : f[i] \in Nat
  PROVE  /\ SelSum(f, sel) \in Nat /\ SelSum(f, branch) \in Nat
         /\ SelSum(f, branch) <= SelSum(f, sel)
         /\ SelSum(f, sel) - SelSum(f, branch) <= SumTo(f, n) - SumTo(f, Len(branch))
<1> DEFINE m == Len(branch)
           g == Masked(f, sel)
           h == [i \in 1 .. n |-> f[i] - g[i]]
<1>1. Len(sel) = n /\ m \in Nat /\ m <= n
  BY FlagsLen
<1>2. \A i \in 1 .. n : g[i] = IF sel[i] THEN f[i] ELSE 0
  BY <1>1 DEF Masked
<1>3. \A i \in 1 .. n : g[i] \in Nat /\ h[i] \in Nat /\ f[i] = g[i] + h[i]
  <2> HIDE DEF g
  <2>1. QED
    BY <1>2
<1>4. SelSum(f, sel) = SumTo(g, n)
  BY <1>1 DEF SelSum
<1>5. SelSum(f, branch) = SumTo(g, m)
  <2>1. \A i \in 1 .. m : /\ Masked(f, branch)[i] = IF branch[i] THEN f[i] ELSE 0
                          /\ i \in 1 .. n
    BY <1>1 DEF Masked
  <2> HIDE DEF g, m
  <2>2. \A i \in 1 .. m : Masked(f, branch)[i] \in Int /\ Masked(f, branch)[i] = g[i]
    BY <1>1, <1>2, <2>1 DEF m
  <2>3. SumTo(Masked(f, branch), m) = SumTo(g, m)
    BY <1>1, <2>2, SumToAgree
  <2>4. QED
    BY <2>3 DEF SelSum, m
<1> HIDE DEF g, h, m
<1>6. /\ SumTo(g, m) \in Nat /\ SumTo(g, n) \in Nat /\ SumTo(g, m) <= SumTo(g, n)
      /\ SumTo(h, m) \in Nat /\ SumTo(h, n) \in Nat /\ SumTo(h, m) <= SumTo(h, n)
  BY <1>1, <1>3, SumToGrows
<1>7. SumTo(f, n) = SumTo(g, n) + SumTo(h, n)
  <2>1. \A i \in 1 .. n : g[i] \in Int /\ h[i] \in Int /\ f[i] = g[i] + h[i]
    BY <1>3
  <2>2. QED
    BY <1>1, <2>1, SumToPlus
<1>8. SumTo(f, m) = SumTo(g, m) + SumTo(h, m)
  <2>1. \A i \in 1 .. m : g[i] \in Int /\ h[i] \in Int /\ f[i] = g[i] + h[i]
    BY <1>1, <1>3
  <2>2. QED
    BY <1>1, <2>1, SumToPlus
<1>9. QED
  BY <1>4, <1>5, <1>6, <1>7, <1>8 DEF m

(* Everything is flagged. *)
AllFlags(n) == [k \in 1 .. n |-> TRUE]

LEMMA SelSumOfAll ==
  ASSUME NEW n \in Nat, NEW f, \A i \in 1 .. n : f[i] \in Int
  PROVE  SelSum(f, AllFlags(n)) = SumTo(f, n)
<1> DEFINE sel == AllFlags(n)
           g == Masked(f, sel)
<1>1. sel \in FlagLists(n) /\ Len(sel) = n
  BY FlagsLen DEF FlagLists, AllFlags
<1>2. \A i \in 1 .. n : g[i] \in Int /\ g[i] = f[i]
  BY <1>1 DEF Masked, AllFlags
<1> HIDE DEF g
<1>3. SumTo(g, n) = SumTo(f, n)
  BY <1>2, SumToAgree
<1>4. QED
  BY <1>1, <1>3 DEF SelSum, g

(* A selection from a list of distinct positions, as flags on what the     *)
(* positions are of.                                                       *)
Distinct(g, n) == \A j, k \in 1 .. n : g[j] = g[k] => j = k

Flagged(m, g, b, n) == [v \in 1 .. m |-> \E k \in 1 .. n : b[k] /\ g[k] = v]

LEMMA SelSumThrough ==
  ASSUME NEW m \in Nat, NEW n \in Nat, NEW g, \A k \in 1 .. n : g[k] \in 1 .. m,
         Distinct(g, n), NEW b \in FlagLists(n),
         NEW f, \A v \in 1 .. m : f[v] \in Int,
         NEW c, \A k \in 1 .. n : c[k] = f[g[k]]
  PROVE  SelSum(c, b) = SelSum(f, Flagged(m, g, b, n))
<1> DEFINE h == Masked(c, b)
           S == {j \in Nat : j <= n => SumTo(h, j) = SelSum(f, Flagged(m, g, b, j))}
<1>0. Len(b) = n
  BY FlagsLen
<1>1. \A k \in 1 .. n : h[k] = (IF b[k] THEN f[g[k]] ELSE 0) /\ h[k] \in Int
  BY <1>0 DEF Masked
<1>2. \A j \in Nat : Flagged(m, g, b, j) \in FlagLists(m)
  BY DEF Flagged, FlagLists
<1> HIDE DEF h
<1>3. 0 \in S
  <2>1. SumTo(h, 0) = 0
    BY SumToZero
  <2>2. Flagged(m, g, b, 0) = NoFlags(m)
    BY DEF Flagged, NoFlags
  <2>3. QED
    BY <2>1, <2>2, SelSumOfNone
<1>4. ASSUME NEW j \in Nat, j \in S, j + 1 <= n PROVE j + 1 \in S
  <2> DEFINE old == Flagged(m, g, b, j)
             new == Flagged(m, g, b, j + 1)
  <2>1. SumTo(h, j + 1) = SumTo(h, j) + h[j + 1]
    <3>1. \A k \in 1 .. j + 1 : h[k] \in Int
      BY <1>1, <1>4
    <3>2. QED
      BY <3>1, SumToNext
  <2>2. SumTo(h, j) = SelSum(f, old)
    BY <1>4
  <2>3. j + 1 \in 1 .. n /\ h[j + 1] = (IF b[j + 1] THEN f[g[j + 1]] ELSE 0)
        /\ g[j + 1] \in 1 .. m
    BY <1>1, <1>4
  <2>4. old \in FlagLists(m)
    BY <1>2
  <2>5. \A v \in 1 .. m : /\ old[v] = \E k \in 1 .. j : b[k] /\ g[k] = v
                          /\ new[v] = \E k \in 1 .. j + 1 : b[k] /\ g[k] = v
    BY DEF Flagged
  <2>6. \A v : (\E k \in 1 .. j + 1 : b[k] /\ g[k] = v)
                 <=> (\E k \in 1 .. j : b[k] /\ g[k] = v) \/ (b[j + 1] /\ g[j + 1] = v)
    <3>1. 1 .. j + 1 = (1 .. j) \cup {j + 1}
      OBVIOUS
    <3>2. QED
      BY <3>1, Zenon
  <2>7. SelSum(f, old) \in Int
    BY <2>4, SelSumInt
  <2>8. CASE b[j + 1]
    <3>1. ~old[g[j + 1]]
      <4>1. ASSUME NEW k \in 1 .. j, g[k] = g[j + 1] PROVE FALSE
        BY <2>3, <4>1 DEF Distinct
      <4>2. QED
        BY <2>3, <2>5, <4>1
    <3>2. new = [old EXCEPT ![g[j + 1]] = TRUE]
      <4>1. ASSUME NEW v \in 1 .. m
            PROVE  new[v] = [old EXCEPT ![g[j + 1]] = TRUE][v]
        <5>1. CASE v = g[j + 1]
          BY <2>3, <2>4, <2>5, <2>6, <2>8, <5>1 DEF FlagLists
        <5>2. CASE v # g[j + 1]
          <6>1. [old EXCEPT ![g[j + 1]] = TRUE][v] = old[v]
            <7> HIDE DEF old
            <7>1. QED
              BY <2>4, <5>2 DEF FlagLists
          <6>2. new[v] = old[v]
            BY <2>5, <2>6, <5>2, Zenon
          <6>3. QED
            BY <6>1, <6>2
        <5>3. QED
          BY <5>1, <5>2
      <4>2. new = [v \in 1 .. m |-> new[v]]
        BY DEF Flagged
      <4>3. [old EXCEPT ![g[j + 1]] = TRUE]
              = [v \in 1 .. m |-> [old EXCEPT ![g[j + 1]] = TRUE][v]]
        BY <2>4 DEF FlagLists
      <4> HIDE DEF old, new
      <4>4. QED
        BY <4>1, <4>2, <4>3
    <3> HIDE DEF old, new
    <3>3. SelSum(f, new) = SelSum(f, old) + f[g[j + 1]]
      BY <2>3, <2>4, <3>1, <3>2, SelSumInclude
    <3>4. SumTo(h, j + 1) = SelSum(f, new)
      BY <2>1, <2>2, <2>3, <2>8, <3>3
    <3>5. QED
      BY <3>4 DEF new
  <2>9. CASE ~b[j + 1]
    <3>1. \A v \in 1 .. m : new[v] = old[v]
      BY <2>5, <2>6, <2>9, Zenon
    <3>2. new = [v \in 1 .. m |-> new[v]] /\ old = [v \in 1 .. m |-> old[v]]
      BY DEF Flagged
    <3> HIDE DEF old, new
    <3>3. new = old
      BY <3>1, <3>2
    <3>4. SumTo(h, j + 1) = SelSum(f, new)
      BY <2>1, <2>2, <2>3, <2>7, <2>9, <3>3
    <3>5. QED
      BY <3>4 DEF new
  <2>10. QED
    BY <2>8, <2>9
<1>5. \A j \in Nat : j \in S => j + 1 \in S
  BY <1>4
<1> HIDE DEF S
<1>6. n \in S
  BY <1>3, <1>5, Induction
<1>7. SumTo(h, n) = SelSum(f, Flagged(m, g, b, n))
  BY <1>6 DEF S
<1>8. QED
  BY <1>0, <1>7 DEF SelSum, h

(* An order takes each place once.                                         *)
LEMMA InjectiveOrder ==
  ASSUME NEW n \in Nat, NEW p \in Rearrangements(n)
  PROVE  /\ \A k \in 1 .. n : p[k] \in 1 .. n
         /\ Distinct(p, n)
<1>1. \A k \in 1 .. n : p[k] \in 1 .. n
  BY DEF Rearrangements
<1>2. \A v \in 1 .. n : \E k \in 1 .. n :
        p[k] = v /\ \A j \in 1 .. n : p[j] = v => j = k
  BY DEF Rearrangements
<1>3. ASSUME NEW j \in 1 .. n, NEW k \in 1 .. n, p[j] = p[k] PROVE j = k
  <2>1. PICK x \in 1 .. n : \A y \in 1 .. n : p[y] = p[k] => y = x
    BY <1>1, <1>2
  <2>2. QED
    BY <1>3, <2>1
<1>4. QED
  BY <1>1, <1>3 DEF Distinct
=============================================================================
