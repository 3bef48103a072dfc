------------------------ MODULE TourCatalogueProofs ------------------------
(***************************************************************************)
(* Proofs about TourCatalogue, and about the amounts of Money it is built  *)
(* from.                                                                   *)
(*                                                                         *)
(* The first part shows that the arithmetic on digits is exact.  It needs  *)
(* induction over numbers and rows of digits: Descent states it for a set  *)
(* instead of a predicate, and follows from a least element (Least).  The  *)
(* second part shows that IndInv is inductive: what a request holds between*)
(* its statements (Knows) stays true while others write.                   *)
(***************************************************************************)
EXTENDS TourCatalogue, SequenceTheorems, FiniteSetTheorems, TLAPS

-----------------------------------------------------------------------------
(* Induction.                                                              *)

(* A set of naturals that is not empty has a least element: the sets 0 .. n *)
(* are finite, and finite sets are well-founded by strict inclusion.       *)
LEMMA Least ==
  ASSUME NEW T, T \subseteq Nat, T # {}
  PROVE  \E n \in T : \A m \in T : n <= m
<1>1. PICK below : below = StrictSubsetOrdering(Nat)
  OBVIOUS
<1>2. IsWellFoundedOn(below, FiniteSubsetsOf(Nat))
  BY <1>1, FS_StrictSubsetOrderingWellFounded
<1>3. PICK F : F = {0 .. n : n \in T}
  OBVIOUS
<1>4. F \subseteq FiniteSubsetsOf(Nat) /\ F # {}
  <2>1. ASSUME NEW n \in T
        PROVE  0 .. n \in FiniteSubsetsOf(Nat)
    <3>1. n \in Nat /\ 0 .. n \subseteq Nat
      OBVIOUS
    <3>2. IsFiniteSet(0 .. n)
      BY <3>1, FS_Interval
    <3> QED
      BY <3>1, <3>2 DEF FiniteSubsetsOf
  <2> QED
    BY <1>3, <2>1
<1>5. PICK x \in F : \A y \in F : ~(<<y, x>> \in below)
  BY <1>2, <1>4, WFMin
<1>6. PICK n \in T : x = 0 .. n
  BY <1>3
<1>7. ASSUME NEW m \in T, m < n
      PROVE  FALSE
  <2>1. 0 .. m \in F /\ 0 .. m \subseteq 0 .. n /\ 0 .. m # 0 .. n
    BY <1>3, <1>7
  <2>2. <<0 .. m, 0 .. n>> \in below
    BY <1>1, <2>1 DEF StrictSubsetOrdering
  <2> QED
    BY <1>5, <1>6, <2>1, <2>2
<1> QED
  BY <1>7

(* Strong induction, for a set T in place of a predicate.                  *)
LEMMA Descent ==
  ASSUME NEW T, \A n \in Nat : (\A m \in Nat : m < n => m \in T) => n \in T
  PROVE  Nat \subseteq T
<1>1. CASE Nat \ T = {}
  BY <1>1
<1>2. CASE Nat \ T # {}
  <2>1. PICK n \in Nat \ T : \A m \in Nat \ T : n <= m
    BY <1>2, Least
  <2> QED
    BY <2>1
<1> QED
  BY <1>1, <1>2

(* A function on the naturals may be defined by primitive recursion.       *)
LEMMA Recursion ==
  ASSUME NEW g \in [Nat \X Nat -> Nat]
  PROVE  \A n \in Nat : \E f \in [0 .. n -> Nat] :
           f[0] = 0 /\ \A i \in 1 .. n : f[i] = g[<<i, f[i - 1]>>]
<1> DEFINE Good(f, n) == f[0] = 0 /\ \A i \in 1 .. n : f[i] = g[<<i, f[i - 1]>>]
           T == {n \in Nat : \E f \in [0 .. n -> Nat] : Good(f, n)}
<1>1. ASSUME NEW n \in Nat, \A m \in Nat : m < n => m \in T
      PROVE  n \in T
  <2>1. CASE n = 0
    <3>1. PICK f : f = [i \in 0 .. 0 |-> 0]
      OBVIOUS
    <3>2. f \in [0 .. 0 -> Nat] /\ Good(f, 0)
      BY <3>1
    <3> QED
      BY <2>1, <3>2
  <2>2. CASE n # 0
    <3>1. n - 1 \in Nat /\ n - 1 \in T
      <4> HIDE DEF T
      <4> QED
        BY <1>1, <2>2
    <3>2. PICK f \in [0 .. n - 1 -> Nat] : Good(f, n - 1)
      BY <3>1
    <3>3. PICK e : e = g[<<n, f[n - 1]>>]
      OBVIOUS
    <3>4. e \in Nat
      BY <3>1, <3>2, <3>3
    <3>5. PICK h : h = [i \in 0 .. n |-> IF i = n THEN e ELSE f[i]]
      OBVIOUS
    <3>6. h \in [0 .. n -> Nat]
      BY <3>5, <3>4, <3>2
    <3>7. h[n] = e /\ h[n - 1] = f[n - 1] /\ h[0] = f[0]
      BY <2>2, <3>1, <3>5
    <3>8. ASSUME NEW i \in 1 .. n
          PROVE  h[i] = g[<<i, h[i - 1]>>]
      <4>1. CASE i = n
        BY <3>3, <3>7, <4>1
      <4>2. CASE i # n
        <5>1. i \in 1 .. n - 1 /\ h[i] = f[i] /\ h[i - 1] = f[i - 1]
          BY <3>5, <4>2
        <5> QED
          BY <3>2, <5>1
      <4> QED
        BY <4>1, <4>2
    <3>9. Good(h, n)
      BY <3>2, <3>7, <3>8
    <3> HIDE DEF Good
    <3> QED
      BY <3>6, <3>9
  <2> QED
    BY <2>1, <2>2
<1> HIDE DEF T
<1>2. Nat \subseteq T
  BY <1>1, Descent
<1> QED
  BY <1>2 DEF T

-----------------------------------------------------------------------------
(* Values of rows of digits.                                               *)

(* v holds the values of the first digits of s: none, one, ..., n of them. *)
Partial(v, s, n) ==
  /\ v \in [0 .. n -> Nat]
  /\ v[0] = 0
  /\ \A i \in 1 .. n : v[i] = 10 * v[i - 1] + s[i]

(* After k digits t has those of s, n of them.                             *)
Continues(t, k, s, n) == \A i \in 1 .. n : t[i + k] = s[i]

(* Every row of digits has its partial values.                             *)
LEMMA PartialExists ==
  ASSUME NEW s \in Seq(Nat)
  PROVE  \E v : Partial(v, s, Len(s))
<1>1. PICK g : g = [p \in Nat \X Nat |-> 10 * p[2] + (IF p[1] \in 1 .. Len(s) THEN s[p[1]] ELSE 0)]
  OBVIOUS
<1>2. \A i \in Nat, x \in Nat :
        /\ g[<<i, x>>] \in Nat
        /\ i \in 1 .. Len(s) => g[<<i, x>>] = 10 * x + s[i]
  BY <1>1
<1>3. g \in [Nat \X Nat -> Nat]
  BY <1>1
<1>4. Len(s) \in Nat
  OBVIOUS
<1>5. PICK v \in [0 .. Len(s) -> Nat] :
        v[0] = 0 /\ \A i \in 1 .. Len(s) : v[i] = g[<<i, v[i - 1]>>]
  BY <1>3, <1>4, Recursion
<1>6. ASSUME NEW i \in 1 .. Len(s)
      PROVE  v[i] = 10 * v[i - 1] + s[i]
  <2>1. i \in Nat /\ v[i - 1] \in Nat
    BY <1>4
  <2> QED
    BY <1>2, <1>5, <2>1
<1> QED
  BY <1>5, <1>6 DEF Partial

(* The first digits alone decide, and digits of zero in front do not count.*)
LEMMA PartialUnique ==
  ASSUME NEW s, NEW t, NEW v, NEW w, NEW n \in Nat, NEW m \in Nat, NEW k \in Nat,
         Partial(v, s, n), Partial(w, t, m), n + k <= m, w[k] = 0,
         Continues(t, k, s, n)
  PROVE  w[n + k] = v[n]
<1> DEFINE T == {i \in Nat : i <= n => w[i + k] = v[i]}
<1>1. ASSUME NEW i \in Nat, \A j \in Nat : j < i => j \in T
      PROVE  i \in T
  <2>1. CASE i = 0
    BY <2>1 DEF Partial
  <2>2. CASE i # 0 /\ i <= n
    <3>1. i - 1 \in Nat /\ i - 1 \in T /\ i \in 1 .. n
      BY <1>1, <2>2
    <3>2. w[i - 1 + k] = v[i - 1]
      BY <3>1
    <3>3. v[i] = 10 * v[i - 1] + s[i]
      BY <3>1 DEF Partial
    <3>4. i + k \in 1 .. m /\ (i + k) - 1 = i - 1 + k
      BY <3>1
    <3>5. w[i + k] = 10 * w[i - 1 + k] + t[i + k]
      BY <3>4 DEF Partial
    <3> QED
      BY <3>1, <3>2, <3>3, <3>5 DEF Continues
  <2> QED
    BY <2>1, <2>2
<1> HIDE DEF T
<1>2. Nat \subseteq T
  BY <1>1, Descent
<1> QED
  BY <1>2 DEF T

(* The value of a row of digits is the last of its partial values.         *)
LEMMA ValueIsPartial ==
  ASSUME NEW s \in Seq(Nat)
  PROVE  \E v : Partial(v, s, Len(s)) /\ Value(s) = v[Len(s)]
<1>1. Len(s) \in Nat
  OBVIOUS
<1>2. PICK v : Partial(v, s, Len(s))
  BY PartialExists
<1> DEFINE Is(x) == x = [n \in 0 .. Len(s) |-> IF n = 0 THEN 0 ELSE 10 * x[n - 1] + s[n]]
<1>3. Is(v)
  BY <1>1, <1>2 DEF Partial
<1>4. PICK w : w = CHOOSE x : Is(x)
  OBVIOUS
<1>5. Is(w)
  <2> HIDE DEF Is
  <2> QED
    BY <1>3, <1>4
<1>6. Value(s) = w[Len(s)]
  BY <1>4 DEF Value
<1>7. w[0] = 0 /\ \A i \in 1 .. Len(s) : w[i] = 10 * w[i - 1] + s[i]
  BY <1>1, <1>5
<1> DEFINE T == {i \in Nat : i <= Len(s) => w[i] = v[i]}
<1>8. ASSUME NEW i \in Nat, \A j \in Nat : j < i => j \in T
      PROVE  i \in T
  <2>1. CASE i = 0
    BY <1>2, <1>7, <2>1 DEF Partial
  <2>2. CASE i # 0 /\ i <= Len(s)
    <3>1. i - 1 \in Nat /\ i - 1 \in T /\ i \in 1 .. Len(s)
      BY <1>8, <2>2
    <3>2. v[i] = 10 * v[i - 1] + s[i]
      BY <1>2, <3>1 DEF Partial
    <3> HIDE DEF Is
    <3> QED
      BY <1>1, <1>7, <3>1, <3>2
  <2> QED
    BY <2>1, <2>2
<1> HIDE DEF T, Is
<1>9. Nat \subseteq T
  BY <1>8, Descent
<1> QED
  BY <1>1, <1>2, <1>6, <1>9 DEF T

(* The value of a row of digits is a natural number.                       *)
LEMMA ValueType ==
  ASSUME NEW s \in Seq(Nat)
  PROVE  Value(s) \in Nat
<1>1. PICK v : Partial(v, s, Len(s)) /\ Value(s) = v[Len(s)]
  BY ValueIsPartial
<1> QED
  BY <1>1 DEF Partial

(* Digits appended and zeros in front.                                     *)
LEMMA ValueAppend ==
  ASSUME NEW s \in Seq(Nat), NEW d \in Nat
  PROVE  Value(Append(s, d)) = 10 * Value(s) + d
<1>1. PICK t : t = Append(s, d)
  OBVIOUS
<1>2. t \in Seq(Nat) /\ Len(t) = Len(s) + 1 /\ t[Len(t)] = d /\ \A i \in 1 .. Len(s) : t[i] = s[i]
  BY <1>1
<1>3. PICK v : Partial(v, s, Len(s)) /\ Value(s) = v[Len(s)]
  BY ValueIsPartial
<1>4. PICK w : Partial(w, t, Len(t)) /\ Value(t) = w[Len(t)]
  BY <1>2, ValueIsPartial
<1>5. Len(s) \in Nat /\ Len(t) \in Nat /\ 0 \in Nat
  BY <1>2
<1>6. w[0] = 0
  BY <1>4 DEF Partial
<1>7. w[Len(s) + 0] = v[Len(s)]
  <2>1. Len(s) + 0 <= Len(t) /\ Continues(t, 0, s, Len(s))
    BY <1>2, <1>5 DEF Continues
  <2> QED
    BY <1>3, <1>4, <1>5, <1>6, <2>1, PartialUnique
<1>8. w[Len(t)] = 10 * w[Len(t) - 1] + t[Len(t)]
  <2>1. Len(t) \in 1 .. Len(t)
    BY <1>2, <1>5
  <2> QED
    BY <1>4, <2>1 DEF Partial
<1> QED
  BY <1>1, <1>2, <1>3, <1>4, <1>5, <1>7, <1>8

(* Digits of zero in front do not count.                                   *)
LEMMA ValueZeros ==
  ASSUME NEW s \in Seq(Nat), NEW z \in Seq(Nat), \A i \in 1 .. Len(z) : z[i] = 0
  PROVE  Value(z \o s) = Value(s)
<1>1. PICK t : t = z \o s
  OBVIOUS
<1>2. /\ t \in Seq(Nat) /\ Len(t) = Len(z) + Len(s)
      /\ \A i \in 1 .. Len(s) : t[i + Len(z)] = s[i]
      /\ \A i \in 1 .. Len(z) : t[i] = 0
  BY <1>1
<1>3. PICK v : Partial(v, s, Len(s)) /\ Value(s) = v[Len(s)]
  BY ValueIsPartial
<1>4. PICK w : Partial(w, t, Len(t)) /\ Value(t) = w[Len(t)]
  BY <1>2, ValueIsPartial
<1>5. Len(s) \in Nat /\ Len(t) \in Nat /\ Len(z) \in Nat
  BY <1>2
<1> DEFINE T == {i \in Nat : i <= Len(z) => w[i] = 0}
<1>6. ASSUME NEW i \in Nat, \A j \in Nat : j < i => j \in T
      PROVE  i \in T
  <2>1. CASE i = 0
    BY <1>4, <2>1 DEF Partial
  <2>2. CASE i # 0 /\ i <= Len(z)
    <3>1. i - 1 \in Nat /\ i - 1 \in T /\ i \in 1 .. Len(z) /\ i \in 1 .. Len(t)
      BY <1>2, <1>5, <1>6, <2>2
    <3>2. w[i] = 10 * w[i - 1] + t[i]
      BY <1>4, <3>1 DEF Partial
    <3> QED
      BY <1>2, <3>1, <3>2
  <2> QED
    BY <2>1, <2>2
<1> HIDE DEF T
<1>7. Nat \subseteq T
  BY <1>6, Descent
<1>8. w[Len(z)] = 0
  BY <1>5, <1>7 DEF T
<1>9. w[Len(s) + Len(z)] = v[Len(s)]
  <2>1. PICK n, m, k : n = Len(s) /\ m = Len(t) /\ k = Len(z)
    OBVIOUS
  <2>2. n \in Nat /\ m \in Nat /\ k \in Nat /\ n + k <= m /\ w[k] = 0
    BY <1>2, <1>5, <1>8, <2>1
  <2>3. Partial(v, s, n) /\ Partial(w, t, m) /\ Continues(t, k, s, n)
    BY <1>2, <1>3, <1>4, <2>1 DEF Continues
  <2>4. w[n + k] = v[n]
    BY <2>2, <2>3, PartialUnique
  <2> QED
    BY <2>1, <2>4
<1> QED
  BY <1>1, <1>2, <1>3, <1>4, <1>5, <1>9

(* Two digits appended.                                                    *)
LEMMA ValuePair ==
  ASSUME NEW s \in Seq(Nat), NEW a \in Nat, NEW b \in Nat
  PROVE  Value(s \o <<a, b>>) = 100 * Value(s) + 10 * a + b
<1>1. Append(s, a) \in Seq(Nat)
  OBVIOUS
<1>2. s \o <<a, b>> = Append(Append(s, a), b)
  OBVIOUS
<1>3. Value(s) \in Nat
  BY ValueType
<1>4. Value(Append(s, a)) = 10 * Value(s) + a
  BY ValueAppend
<1>5. Value(Append(Append(s, a), b)) = 10 * Value(Append(s, a)) + b
  BY <1>1, ValueAppend
<1>6. PICK x, y, z : x = Value(s) /\ y = Value(Append(s, a)) /\ z = Value(s \o <<a, b>>)
  OBVIOUS
<1>7. x \in Nat /\ y = 10 * x + a /\ z = 10 * y + b
  BY <1>2, <1>3, <1>4, <1>5, <1>6
<1>8. z = 100 * x + 10 * a + b
  BY <1>7
<1> QED
  BY <1>6, <1>8

(* No digits are worth nothing.                                            *)
LEMMA ValueEmpty == Value(<<>>) = 0
<1>1. <<>> \in Seq(Nat) /\ Len(<<>>) = 0
  OBVIOUS
<1>2. PICK v : Partial(v, <<>>, Len(<<>>)) /\ Value(<<>>) = v[Len(<<>>)]
  BY <1>1, ValueIsPartial
<1> QED
  BY <1>1, <1>2 DEF Partial

-----------------------------------------------------------------------------
(* Digits of a number.                                                     *)

(* Division by ten.                                                        *)
LEMMA Division ==
  ASSUME NEW n \in Nat
  PROVE  /\ n \div 10 \in Nat /\ n % 10 \in Nat /\ n = 10 * (n \div 10) + (n % 10)
         /\ n >= 10 => n \div 10 < n
OBVIOUS

(* f holds the digits of i; and of the numbers up to n.                    *)
Rule(f, i) ==
  /\ i < 10 => f[i] = <<i>>
  /\ i >= 10 => f[i] = Append(f[i \div 10], i % 10)

DigitsTo(f, n) == f \in [0 .. n -> Seq(Nat)] /\ \A i \in 0 .. n : Rule(f, i)

(* The digits of the numbers up to n exist,                                *)
LEMMA DigitsExist ==
  \A n \in Nat : \E f : DigitsTo(f, n)
<1> DEFINE T == {n \in Nat : \E f : DigitsTo(f, n)}
<1>1. ASSUME NEW n \in Nat, \A m \in Nat : m < n => m \in T
      PROVE  n \in T
  <2>1. CASE n = 0
    <3>1. PICK f : f = [i \in 0 .. 0 |-> <<0>>]
      OBVIOUS
    <3>2. f \in [0 .. 0 -> Seq(Nat)] /\ f[0] = <<0>>
      BY <3>1
    <3>3. DigitsTo(f, 0)
      BY <3>2 DEF DigitsTo, Rule
    <3> QED
      BY <2>1, <3>3
  <2>2. CASE n # 0
    <3>1. n - 1 \in Nat /\ n - 1 \in T
      <4> HIDE DEF T
      <4> QED
        BY <1>1, <2>2
    <3>2. PICK f : DigitsTo(f, n - 1)
      BY <3>1
    <3>3. PICK e : e = IF n < 10 THEN <<n>> ELSE Append(f[n \div 10], n % 10)
      OBVIOUS
    <3>4. e \in Seq(Nat)
      <4>1. CASE n < 10
        BY <3>3, <4>1
      <4>2. CASE n >= 10
        <5>1. n \div 10 \in 0 .. n - 1 /\ n % 10 \in Nat
          BY <4>2, Division
        <5>2. f[n \div 10] \in Seq(Nat)
          BY <3>2, <5>1 DEF DigitsTo
        <5> QED
          BY <3>3, <4>2, <5>1, <5>2
      <4> QED
        BY <4>1, <4>2
    <3>5. PICK h : h = [i \in 0 .. n |-> IF i = n THEN e ELSE f[i]]
      OBVIOUS
    <3>6. f \in [0 .. n - 1 -> Seq(Nat)]
      BY <3>2 DEF DigitsTo
    <3>7. h \in [0 .. n -> Seq(Nat)]
      BY <3>4, <3>5, <3>6
    <3>8. h[n] = e /\ \A i \in 0 .. n - 1 : h[i] = f[i]
      BY <3>5
    <3>9. ASSUME NEW i \in 0 .. n
          PROVE  Rule(h, i)
      <4>1. i >= 10 => i \div 10 \in 0 .. n - 1 /\ i \div 10 < i
        BY Division
      <4>2. i >= 10 => h[i \div 10] = f[i \div 10]
        BY <3>8, <4>1
      <4>3. CASE i = n
        <5>1. CASE i < 10
          <6>1. h[i] = <<i>>
            BY <3>3, <3>8, <4>3, <5>1
          <6> QED
            BY <5>1, <6>1 DEF Rule
        <5>2. CASE i >= 10
          <6>1. h[i] = Append(f[i \div 10], i % 10)
            <7>1. ~(n < 10)
              BY <4>3, <5>2
            <7>2. e = Append(f[n \div 10], n % 10)
              BY <3>3, <7>1, Zenon
            <7> QED
              BY <3>8, <4>3, <7>2, Zenon
          <6>2. h[i] = Append(h[i \div 10], i % 10)
            BY <4>2, <5>2, <6>1
          <6> QED
            BY <5>2, <6>2 DEF Rule
        <5> QED
          BY <5>1, <5>2
      <4>4. CASE i # n
        <5>1. i \in 0 .. n - 1
          BY <4>4
        <5>2. Rule(f, i)
          BY <3>2, <5>1 DEF DigitsTo
        <5> QED
          BY <3>8, <4>2, <5>1, <5>2 DEF Rule
      <4> QED
        BY <4>3, <4>4
    <3>10. DigitsTo(h, n)
      BY <3>7, <3>9 DEF DigitsTo
    <3> QED
      BY <3>10
  <2> QED
    BY <2>1, <2>2
<1> HIDE DEF T
<1>2. Nat \subseteq T
  BY <1>1, Descent
<1> QED
  BY <1>2 DEF T

(* and no two rows of them are different,                                  *)
LEMMA DigitsUnique ==
  ASSUME NEW f, NEW g, NEW n \in Nat, NEW m \in Nat, DigitsTo(f, n), DigitsTo(g, m)
  PROVE  \A k \in Nat : k <= n /\ k <= m => f[k] = g[k]
<1> DEFINE T == {k \in Nat : k <= n /\ k <= m => f[k] = g[k]}
<1>1. ASSUME NEW k \in Nat, \A j \in Nat : j < k => j \in T
      PROVE  k \in T
  <2>1. CASE k <= n /\ k <= m
    <3>1. Rule(f, k) /\ Rule(g, k)
      BY <2>1 DEF DigitsTo
    <3>2. k >= 10 => k \div 10 \in Nat /\ k \div 10 < k
      BY Division
    <3>3. k >= 10 => f[k \div 10] = g[k \div 10]
      BY <1>1, <2>1, <3>2
    <3>4. CASE k < 10
      BY <3>1, <3>4 DEF Rule
    <3>5. CASE k >= 10
      <4>1. f[k] = Append(f[k \div 10], k % 10) /\ g[k] = Append(g[k \div 10], k % 10)
        BY <3>1, <3>5 DEF Rule
      <4>2. f[k] = g[k]
        BY <3>3, <3>5, <4>1
      <4> QED
        BY <4>2
    <3> QED
      BY <3>4, <3>5
  <2> QED
    BY <2>1
<1> HIDE DEF T
<1>2. Nat \subseteq T
  BY <1>1, Descent
<1> QED
  BY <1>2 DEF T

(* so that Digits follows its recursive definition.                        *)
LEMMA DigitsDefined ==
  ASSUME NEW n \in Nat
  PROVE  /\ Digits[n] \in Seq(Nat)
         /\ Rule(Digits, n)
<1> DEFINE Is(x) ==
      x = [i \in Nat |-> IF i < 10 THEN <<i>> ELSE Append(x[i \div 10], i % 10)]
           To(i) == CHOOSE f : DigitsTo(f, i)
<1>1. \A i \in Nat : DigitsTo(To(i), i)
  BY DigitsExist
<1>2. PICK d : d = [i \in Nat |-> To(i)[i]]
  OBVIOUS
<1> HIDE DEF To
<1>3. ASSUME NEW i \in Nat
      PROVE  Rule(d, i)
  <2>1. Rule(To(i), i)
    BY <1>1 DEF DigitsTo
  <2>2. ASSUME i >= 10
        PROVE  To(i)[i \div 10] = d[i \div 10]
    <3>1. i \div 10 \in Nat /\ i \div 10 <= i
      BY <2>2, Division
    <3>2. PICK j \in Nat : j = i \div 10
      BY <3>1
    <3>3. DigitsTo(To(i), i) /\ DigitsTo(To(j), j)
      BY <1>1
    <3>4. To(i)[j] = To(j)[j]
      BY <3>1, <3>2, <3>3, DigitsUnique
    <3> QED
      BY <1>2, <3>2, <3>4
  <2> QED
    BY <1>2, <2>1, <2>2 DEF Rule
<1>4. Is(d)
  <2>1. ASSUME NEW i \in Nat
        PROVE  d[i] = IF i < 10 THEN <<i>> ELSE Append(d[i \div 10], i % 10)
    <3>1. CASE i < 10
      BY <1>3, <3>1 DEF Rule
    <3>2. CASE i >= 10
      <4>1. d[i] = Append(d[i \div 10], i % 10)
        BY <1>3, <3>2 DEF Rule
      <4> QED
        BY <3>2, <4>1
    <3> QED
      BY <3>1, <3>2
  <2>2. DOMAIN d = Nat /\ d = [i \in Nat |-> d[i]]
    BY <1>2
  <2> QED
    BY <2>1, <2>2
<1>5. PICK e : e = CHOOSE x : Is(x)
  OBVIOUS
<1>6. Is(e)
  <2> HIDE DEF Is
  <2> QED
    BY <1>4, <1>5
<1>7. Digits = e
  BY <1>5 DEF Digits
<1>8. \A i \in Nat : Rule(Digits, i)
  BY <1>6, <1>7 DEF Rule
<1> DEFINE T == {i \in Nat : Digits[i] \in Seq(Nat)}
<1>9. ASSUME NEW i \in Nat, \A j \in Nat : j < i => j \in T
      PROVE  i \in T
  <2>1. CASE i < 10
    <3>1. Digits[i] = <<i>> /\ <<i>> \in Seq(Nat)
      <4> HIDE DEF T, Is
      <4> QED
        BY <1>8, <2>1 DEF Rule
    <3> QED
      BY <3>1
  <2>2. CASE i >= 10
    <3>1. i \div 10 \in T /\ i % 10 \in Nat
      <4> HIDE DEF T
      <4> QED
        BY <1>9, <2>2, Division
    <3>2. Digits[i] = Append(Digits[i \div 10], i % 10)
      <4> HIDE DEF T, Is
      <4> QED
        BY <1>8, <2>2 DEF Rule
    <3> HIDE DEF Is
    <3>3. \A s \in Seq(Nat), x \in Nat : Append(s, x) \in Seq(Nat)
      OBVIOUS
    <3>4. Digits[i] \in Seq(Nat)
      BY <3>1, <3>2, <3>3
    <3> QED
      BY <3>4
  <2> QED
    BY <2>1, <2>2
<1> HIDE DEF T
<1>10. Nat \subseteq T
  BY <1>9, Descent
<1> QED
  BY <1>8, <1>10 DEF T

(* The digits of a number are worth that number.                           *)
LEMMA ValueOfDigits ==
  \A n \in Nat : Value(Digits[n]) = n /\ Len(Digits[n]) >= 1
<1> DEFINE T == {n \in Nat : Value(Digits[n]) = n /\ Len(Digits[n]) >= 1}
<1>1. ASSUME NEW n \in Nat, \A m \in Nat : m < n => m \in T
      PROVE  n \in T
  <2>1. CASE n < 10
    <3>1. <<>> \in Seq(Nat) /\ <<n>> = Append(<<>>, n)
      OBVIOUS
    <3>2. Value(Append(<<>>, n)) = 10 * Value(<<>>) + n
      BY <3>1, ValueAppend
    <3>3. Digits[n] = <<n>> /\ Len(<<n>>) = 1
      BY <2>1, DigitsDefined DEF Rule
    <3> QED
      <4>1. Value(<<n>>) = n /\ Len(<<n>>) >= 1
        BY <3>1, <3>2, <3>3, ValueEmpty
      <4>2. Value(Digits[n]) = n /\ Len(Digits[n]) >= 1
        BY <3>3, <4>1
      <4> QED
        BY <4>2
  <2>2. CASE n >= 10
    <3>1. PICK m, d : m = n \div 10 /\ d = n % 10
      OBVIOUS
    <3>2. m \in Nat /\ d \in Nat /\ n = 10 * m + d /\ m < n
      BY <2>2, <3>1, Division
    <3>3. m \in T
      <4> HIDE DEF T
      <4> QED
        BY <1>1, <3>2
    <3>4. Digits[m] \in Seq(Nat)
      BY <3>2, DigitsDefined
    <3>5. Digits[n] = Append(Digits[m], d)
      BY <2>2, <3>1, DigitsDefined DEF Rule
    <3>6. Value(Digits[n]) = 10 * Value(Digits[m]) + d
      BY <3>2, <3>4, <3>5, ValueAppend
    <3>7. Len(Digits[n]) = Len(Digits[m]) + 1
      BY <3>2, <3>4, <3>5
    <3> QED
      BY <3>2, <3>3, <3>6, <3>7
  <2> QED
    BY <2>1, <2>2
<1> HIDE DEF T
<1>2. Nat \subseteq T
  BY <1>1, Descent
<1> QED
  BY <1>2 DEF T

-----------------------------------------------------------------------------
(* Amounts.                                                                *)

(* A number of minor units, as its major units and two digits.             *)
LEMMA Hundreds ==
  ASSUME NEW p \in Nat
  PROVE  /\ p \div 100 \in Nat /\ (p % 100) \div 10 \in Nat /\ p % 10 \in Nat
         /\ p = 100 * (p \div 100) + 10 * ((p % 100) \div 10) + (p % 10)
OBVIOUS

(* A fraction of two digits is kept.                                       *)
LEMMA FractionOfTwo ==
  ASSUME NEW a \in Nat, NEW b \in Nat
  PROVE  Fraction(<<a, b>>) = <<a, b>>
<1>1. PICK s, t, u : s = <<a, b>> /\ t = <<0, 0>> /\ u = s \o t
  OBVIOUS
<1>2. /\ s \in Seq(Nat) /\ Len(s) = 2 /\ s[1] = a /\ s[2] = b
      /\ t \in Seq(Nat) /\ Len(t) = 2
  BY <1>1
<1>3. u[1] = a /\ u[2] = b
  <2>1. 1 \in 1 .. Len(s) + Len(t) /\ 2 \in 1 .. Len(s) + Len(t)
    BY <1>2
  <2>2. \A i \in 1 .. Len(s) + Len(t) : u[i] = IF i <= Len(s) THEN s[i] ELSE t[i - Len(s)]
    BY <1>1, <1>2, ConcatProperties
  <2> QED
    BY <1>2, <2>1, <2>2
<1>4. PICK f : f = SubSeq(u, 1, 2)
  OBVIOUS
<1>5. f \in Seq(Nat) /\ Len(f) = 2 /\ f[1] = a /\ f[2] = b
  <2>1. \A i \in 1 .. 2 : u[i] \in Nat
    BY <1>3
  <2> QED
    BY <1>3, <1>4, <2>1, SubSeqProperties
<1>6. f = <<a, b>>
  BY <1>5
<1> QED
  BY <1>1, <1>4, <1>6 DEF Fraction, FractionDigits

(* Two digits alone.                                                       *)
LEMMA ValueOfTwo ==
  ASSUME NEW a \in Nat, NEW b \in Nat
  PROVE  Value(<<a, b>>) = 10 * a + b
<1>1. <<>> \in Seq(Nat) /\ <<>> \o <<a, b>> = <<a, b>>
  OBVIOUS
<1>2. Value(<<>> \o <<a, b>>) = 100 * Value(<<>>) + 10 * a + b
  BY <1>1, ValuePair
<1> QED
  BY <1>1, <1>2, ValueEmpty

(* PostgreSQL reads what it wrote.                                         *)
LEMMA TextIsExact ==
  ASSUME NEW p \in Nat
  PROVE  /\ Numeric(Text(p)) = p
         /\ Value(Text(p).major \o Fraction(Text(p).fraction)) = p
<1>1. PICK m, a, b : m = p \div 100 /\ a = (p % 100) \div 10 /\ b = p % 10
  OBVIOUS
<1>2. m \in Nat /\ a \in Nat /\ b \in Nat /\ p = 100 * m + 10 * a + b
  BY <1>1, Hundreds
<1>3. Text(p).major = Digits[m] /\ Text(p).fraction = <<a, b>>
  BY <1>1 DEF Text
<1>4. Digits[m] \in Seq(Nat) /\ Value(Digits[m]) = m
  BY <1>2, DigitsDefined, ValueOfDigits
<1>5. Fraction(<<a, b>>) = <<a, b>> /\ Value(<<a, b>>) = 10 * a + b
  BY <1>2, FractionOfTwo, ValueOfTwo
<1>6. Value(Digits[m] \o <<a, b>>) = 100 * Value(Digits[m]) + 10 * a + b
  BY <1>2, <1>4, ValuePair
<1>7. Numeric(Text(p)) = m * 100 + (10 * a + b)
  BY <1>3, <1>4, <1>5 DEF Numeric
<1> QED
  BY <1>2, <1>3, <1>4, <1>5, <1>6, <1>7

(* Padding adds zeros in front, until there are three digits.              *)
LEMMA PaddedIsExact ==
  ASSUME NEW s \in Seq(Nat), Len(s) >= 1
  PROVE  /\ Padded(s) \in Seq(Nat) /\ Len(Padded(s)) >= 3
         /\ Value(Padded(s)) = Value(s)
<1>1. PICK z : z = SubSeq(<<0, 0, 0>>, Len(s) + 1, 3)
  OBVIOUS
<1>2. z \in Seq(Nat) /\ (\A i \in 1 .. Len(z) : z[i] = 0) /\ Len(z) + Len(s) >= 3
  <2>1. PICK n \in Nat : n = Len(s) + 1
    OBVIOUS
  <2>2. PICK k : k = <<0, 0, 0>>
    OBVIOUS
  <2>3. \A i \in n .. 3 : k[i] = 0
    BY <2>1, <2>2
  <2>4. z = SubSeq(k, n, 3)
    BY <1>1, <2>1, <2>2
  <2>5. /\ z \in Seq(Nat)
        /\ Len(z) = IF n <= 3 THEN 3 - n + 1 ELSE 0
        /\ \A i \in 1 .. 3 - n + 1 : z[i] = k[n + i - 1]
    BY <2>3, <2>4, SubSeqProperties
  <2> QED
    BY <2>1, <2>3, <2>5
<1>3. Padded(s) = z \o s
  BY <1>1 DEF Padded, MinimumDigits, FractionDigits
<1>4. z \o s \in Seq(Nat) /\ Len(z \o s) = Len(z) + Len(s)
  BY <1>2
<1>5. Value(z \o s) = Value(s)
  BY <1>2, ValueZeros
<1> QED
  BY <1>2, <1>3, <1>4, <1>5

(* BookingsService.calculateTotal, which works on the text of the price,   *)
(* returns the text of the exact product, for every price and quantity:    *)
(* also for those below a unit, where the digits must be padded.           *)
THEOREM TotalIsExact ==
  ASSUME NEW p \in Nat, NEW q \in Nat
  PROVE  Numeric(CalculateTotal(Text(p), q)) = p * q
<1>1. PICK total : total = Padded(Digits[p * q])
  OBVIOUS
<1>2. total \in Seq(Nat) /\ Len(total) >= 3 /\ Value(total) = p * q
  <2>1. PICK n \in Nat : n = p * q
    OBVIOUS
  <2>2. Digits[n] \in Seq(Nat) /\ Value(Digits[n]) = n /\ Len(Digits[n]) >= 1
    BY DigitsDefined, ValueOfDigits
  <2> QED
    BY <1>1, <2>1, <2>2, PaddedIsExact
<1>3. PICK point, len \in Nat : len = Len(total) /\ point = len - 2
  BY <1>2
<1>4. PICK major : major = SubSeq(total, 1, point)
  OBVIOUS
<1>5. PICK fraction : fraction = SubSeq(total, point + 1, len)
  OBVIOUS
<1>6. CalculateTotal(Text(p), q) = [major |-> major, fraction |-> fraction]
  <2>1. Value(Text(p).major \o Fraction(Text(p).fraction)) = p
    BY TextIsExact
  <2> QED
    BY <1>1, <1>3, <1>4, <1>5, <2>1 DEF CalculateTotal, FractionDigits
<1>7. PICK a, b \in Nat : a = total[len - 1] /\ b = total[len]
  BY <1>2, <1>3
<1>8. fraction = <<a, b>> /\ major \in Seq(Nat) /\ total = major \o <<a, b>>
  <2>1. point \in Nat /\ point <= len /\ len = point + 2 /\ \A i \in 1 .. len : total[i] \in Nat
    BY <1>2, <1>3
  <2>2. major \in Seq(Nat) /\ Len(major) = point /\ \A i \in 1 .. point : major[i] = total[i]
    BY <1>4, <2>1, SubSeqProperties
  <2>3. fraction \in Seq(Nat) /\ Len(fraction) = 2 /\ fraction[1] = a /\ fraction[2] = b
    BY <1>5, <1>7, <2>1, SubSeqProperties
  <2>4. fraction = <<a, b>>
    BY <2>3
  <2>5. PICK both : both = major \o <<a, b>>
    OBVIOUS
  <2>6. /\ both \in Seq(Nat) /\ Len(both) = point + 2
        /\ \A i \in 1 .. point : both[i] = major[i]
        /\ both[point + 1] = a /\ both[point + 2] = b
    <3>1. PICK t : t = <<a, b>>
      OBVIOUS
    <3>2. t \in Seq(Nat) /\ Len(t) = 2 /\ t[1] = a /\ t[2] = b
      BY <3>1
    <3>3. /\ both \in Seq(Nat) /\ Len(both) = point + 2
          /\ \A i \in 1 .. point + 2 : both[i] = IF i <= point THEN major[i] ELSE t[i - point]
      BY <2>2, <2>5, <3>1, <3>2, ConcatProperties
    <3>4. point + 1 \in 1 .. point + 2 /\ point + 2 \in 1 .. point + 2 /\ 1 .. point \subseteq 1 .. point + 2
      BY <2>1
    <3>5. both[point + 1] = t[1] /\ both[point + 2] = t[2]
      <4>1. PICK i, j : i = point + 1 /\ j = point + 2
        OBVIOUS
      <4>2. i \in 1 .. point + 2 /\ ~(i <= point) /\ i - point = 1
        BY <2>1, <4>1
      <4>3. j \in 1 .. point + 2 /\ ~(j <= point) /\ j - point = 2
        BY <2>1, <4>1
      <4>4. both[i] = t[i - point] /\ both[j] = t[j - point]
        BY <3>3, <4>2, <4>3
      <4> QED
        BY <4>1, <4>2, <4>3, <4>4
    <3>6. \A i \in 1 .. point : both[i] = major[i]
      BY <2>1, <3>3, <3>4
    <3> QED
      BY <3>2, <3>3, <3>5, <3>6
  <2>7. ASSUME NEW i \in 1 .. Len(total)
        PROVE  total[i] = both[i]
    <3>1. Len(total) = point + 2 /\ total[point + 1] = a /\ total[point + 2] = b
      BY <1>3, <1>7, <2>1
    <3>2. CASE i \in 1 .. point
      BY <2>2, <2>6, <3>2
    <3>3. CASE i = point + 1 \/ i = point + 2
      BY <2>6, <3>1, <3>3
    <3> QED
      BY <2>1, <3>1, <3>2, <3>3
  <2>8. total = both
    BY <1>2, <1>3, <2>1, <2>6, <2>7, SeqEqual
  <2> QED
    BY <2>2, <2>4, <2>5, <2>8
<1>9. Fraction(fraction) = fraction /\ Value(fraction) = 10 * a + b
  BY <1>8, FractionOfTwo, ValueOfTwo
<1>10. Value(total) = 100 * Value(major) + 10 * a + b
  BY <1>8, ValuePair
<1>11. Numeric(CalculateTotal(Text(p), q)) = Value(major) * 100 + (10 * a + b)
  BY <1>6, <1>9 DEF Numeric
<1>12. Value(major) \in Nat
  BY <1>8, ValueType
<1>13. PICK x \in Nat : x = Value(major)
  BY <1>12
<1>14. x * 100 + (10 * a + b) = 100 * x + 10 * a + b
  OBVIOUS
<1> QED
  BY <1>2, <1>10, <1>11, <1>13, <1>14

-----------------------------------------------------------------------------
(* Rows and columns.                                                       *)

(* The columns of a tour.                                                  *)
LEMMA TourRows ==
  ASSUME NEW row \in Tour
  PROVE  /\ DOMAIN row = {"category", "price", "status"}
         /\ row["category"] = row.category /\ row["price"] = row.price
         /\ row["status"] = row.status
         /\ row.category \in Categories /\ row.price \in Prices /\ row.status \in TourStatus
BY DEF Tour

(* What an edit of a tour may name.                                        *)
LEMMA EditColumns ==
  ASSUME NEW input \in TourEdits
  PROVE  /\ DOMAIN input \subseteq {"category", "price", "status"}
         /\ "category" \in DOMAIN input => input["category"] \in Categories
         /\ "price" \in DOMAIN input => input["price"] \in Prices
         /\ "status" \in DOMAIN input => input["status"] \in TourStatus
<1>1. CASE input \in TourInputs
  BY <1>1, CatalogueAssumption DEF TourColumns
<1>2. CASE input = [status |-> "ARCHIVED"]
  BY <1>2 DEF TourStatus
<1> QED
  BY <1>1, <1>2 DEF TourEdits

(* The row with the columns of an input: what the input does not name is as it *)
(* was.                                                                    *)
LEMMA AppliedRow ==
  ASSUME NEW row \in Tour, NEW input \in TourEdits
  PROVE  /\ Applied(row, input) \in Tour
         /\ Applied(row, input).category =
              IF "category" \in DOMAIN input THEN input["category"] ELSE row.category
         /\ Applied(row, input).status =
              IF "status" \in DOMAIN input THEN input["status"] ELSE row.status
         /\ \A k \in DOMAIN row \ DOMAIN input : Applied(row, input)[k] = row[k]
<1>1. PICK a : a = Applied(row, input)
  OBVIOUS
<1>2. a = [k \in {"category", "price", "status"} |->
             IF k \in DOMAIN input THEN input[k] ELSE row[k]]
  BY <1>1, TourRows DEF Applied
<1>3. /\ a.category = IF "category" \in DOMAIN input THEN input["category"] ELSE row.category
      /\ a.price = IF "price" \in DOMAIN input THEN input["price"] ELSE row.price
      /\ a.status = IF "status" \in DOMAIN input THEN input["status"] ELSE row.status
  BY <1>2, TourRows
<1>4. a \in Tour
  BY <1>2, <1>3, TourRows, EditColumns DEF Tour
<1>5. \A k \in DOMAIN row \ DOMAIN input : a[k] = row[k]
  BY <1>2, TourRows
<1> QED
  BY <1>1, <1>3, <1>4, <1>5

(* The row with some columns of a copy: a column in which both agree is as it *)
(* was.                                                                    *)
LEMMA UpdatedRow ==
  ASSUME NEW row \in Tour, NEW copy \in Tour, NEW columns
  PROVE  /\ Updated(row, copy, columns) \in Tour
         /\ Updated(row, copy, columns).category \in {row.category, copy.category}
         /\ Updated(row, copy, columns).status \in {row.status, copy.status}
         /\ \A k \in DOMAIN row : copy[k] = row[k] => Updated(row, copy, columns)[k] = row[k]
<1>1. PICK a : a = Updated(row, copy, columns)
  OBVIOUS
<1>2. a = [k \in {"category", "price", "status"} |->
             IF k \in columns THEN copy[k] ELSE row[k]]
  BY <1>1, TourRows DEF Updated
<1>3. /\ a.category \in {row.category, copy.category}
      /\ a.price \in {row.price, copy.price}
      /\ a.status \in {row.status, copy.status}
  BY <1>2, TourRows
<1>4. a \in Tour
  BY <1>2, <1>3, TourRows DEF Tour
<1>5. \A k \in DOMAIN row : copy[k] = row[k] => a[k] = row[k]
  BY <1>2, TourRows
<1> QED
  BY <1>1, <1>3, <1>4, <1>5

(* The same of categories.                                                 *)
LEMMA CategoryRows ==
  ASSUME NEW row \in Category, NEW input \in CategoryInputs
  PROVE  /\ Applied(row, input) \in Category
         /\ \A k \in DOMAIN row \ DOMAIN input : Applied(row, input)[k] = row[k]
<1>1. DOMAIN row = {"status"} /\ row["status"] \in CategoryStatus
  BY DEF Category
<1>2. input = NoColumn \/ (DOMAIN input = {"status"} /\ input["status"] \in CategoryStatus)
  BY DEF CategoryInputs
<1>3. DOMAIN NoColumn = {}
  BY DEF NoColumn
<1>4. PICK a : a = Applied(row, input)
  OBVIOUS
<1>5. a = [k \in {"status"} |-> IF k \in DOMAIN input THEN input[k] ELSE row[k]]
  BY <1>1, <1>4 DEF Applied
<1>6. a.status \in CategoryStatus
  BY <1>1, <1>2, <1>3, <1>5
<1>7. a \in Category /\ \A k \in DOMAIN row \ DOMAIN input : a[k] = row[k]
  BY <1>1, <1>5, <1>6 DEF Category
<1> QED
  BY <1>4, <1>7

(* The same of categories.                                                 *)
LEMMA UpdatedCategory ==
  ASSUME NEW row \in Category, NEW copy \in Category, NEW columns
  PROVE  /\ Updated(row, copy, columns) \in Category
         /\ \A k \in DOMAIN row : copy[k] = row[k] => Updated(row, copy, columns)[k] = row[k]
<1>1. /\ DOMAIN row = {"status"} /\ row["status"] \in CategoryStatus
      /\ copy["status"] \in CategoryStatus
  BY DEF Category
<1>2. PICK a : a = Updated(row, copy, columns)
  OBVIOUS
<1>3. a = [k \in {"status"} |-> IF k \in columns THEN copy[k] ELSE row[k]]
  BY <1>1, <1>2 DEF Updated
<1>4. a.status \in CategoryStatus
  BY <1>1, <1>3
<1>5. a \in Category /\ \A k \in DOMAIN row : copy[k] = row[k] => a[k] = row[k]
  BY <1>1, <1>3, <1>4 DEF Category
<1> QED
  BY <1>2, <1>5

-----------------------------------------------------------------------------
(* What grows: rows are not removed, and histories are kept.               *)
Grows ==
  /\ DOMAIN category \subseteq DOMAIN category'
  /\ DOMAIN tour \subseteq DOMAIN tour'
  /\ checked \subseteq checked'
  /\ offered \subseteq offered'

(* What was checked stays checked.                                         *)
LEMMA VettedStays ==
  ASSUME checked \subseteq checked', NEW t, NEW row, NEW input
  PROVE  /\ Vetted(t, row) => Vetted(t, row)'
         /\ AlmostVetted(t, row, input) => AlmostVetted(t, row, input)'
<1>1. ASSUME NEW c, CategoryChecked(t, c)
      PROVE  CategoryChecked(t, c)'
  BY <1>1 DEF CategoryChecked
<1>2. MayPublish(t) => MayPublish(t)'
  BY DEF MayPublish
<1>3. Vetted(t, row) => Vetted(t, row)'
  BY <1>1, <1>2 DEF Vetted
<1>4. AlmostVetted(t, row, input) => AlmostVetted(t, row, input)'
  BY <1>1, <1>2 DEF AlmostVetted
<1> QED
  BY <1>3, <1>4

(* What a request knows stays true, unless another one writes the tour it  *)
(* holds or creates the tour it is to create.                              *)
LEMMA KnowsStays ==
  ASSUME NEW x, Knows(x), Grows,
         x.op = "images" /\ x.stage \in {"recheck", "commit"} => tour'[x.id] = tour[x.id],
         x.op = "create" => x.id \notin DOMAIN tour'
  PROVE  Knows(x)'
<1>1. \A t, row, input : /\ Vetted(t, row) => Vetted(t, row)'
                         /\ AlmostVetted(t, row, input) => AlmostVetted(t, row, input)'
  BY VettedStays DEF Grows
<1>2. CASE x = Idle
  BY <1>2 DEF Knows
<1>3. CASE EditsCategory(x)
  <2>1. EditsCategory(x)'
    BY <1>3 DEF EditsCategory, Grows
  <2> QED
    BY <2>1 DEF Knows
<1>4. CASE CreatesTour(x)
  <2>1. CreatesTour(x)'
    BY <1>1, <1>4 DEF CreatesTour
  <2> QED
    BY <2>1 DEF Knows
<1>5. CASE EditsTour(x)
  <2>1. EditsTour(x)'
    BY <1>1, <1>5 DEF EditsTour, Grows
  <2> QED
    BY <2>1 DEF Knows
<1>6. CASE EditsImages(x)
  <2>1. EditsImages(x)'
    BY <1>1, <1>6 DEF EditsImages, Grows
  <2> QED
    BY <2>1 DEF Knows
<1>7. CASE AddsDeparture(x)
  <2>1. AddsDeparture(x)'
    BY <1>7 DEF AddsDeparture, Grows
  <2> QED
    BY <2>1 DEF Knows
<1>8. CASE Books(x)
  <2>1. Books(x)'
    BY <1>8 DEF Books, Grows
  <2> QED
    BY <2>1 DEF Knows
<1> QED
  BY <1>2, <1>3, <1>4, <1>5, <1>6, <1>7, <1>8 DEF Knows

(* A request that begins or goes on leaves one holder of each lock, and one*)
(* creator of each tour.                                                   *)
LEMMA OneWriterStays ==
  ASSUME OneWriter, tx \in [Requests -> Request], NEW r \in Requests, NEW x,
         tx' = [tx EXCEPT ![r] = x],
         x.op = "images" /\ x.stage \in {"recheck", "commit"} =>
           HoldsTour(r, x.id) \/ \A s \in Requests : ~HoldsTour(s, x.id),
         x.op = "create" =>
           (tx[r].op = "create" /\ tx[r].id = x.id) \/ \A s \in Requests : tx[s].id # x.id
  PROVE  OneWriter'
<1>1. tx'[r] = x /\ \A s \in Requests \ {r} : tx'[s] = tx[s]
  OBVIOUS
<1>2. ASSUME NEW s \in Requests \ {r}, NEW t \in Tours, HoldsTour(r, t)', HoldsTour(s, t)'
      PROVE  FALSE
  <2>1. HoldsTour(s, t)
    BY <1>1, <1>2 DEF HoldsTour
  <2>2. x.op = "images" /\ x.stage \in {"recheck", "commit"} /\ x.id = t
    BY <1>1, <1>2 DEF HoldsTour
  <2> QED
    BY <2>1, <2>2 DEF OneWriter
<1>3. ASSUME NEW s \in Requests \ {r}, tx'[r].op = "create", tx'[s].op = "create",
             tx'[r].id = tx'[s].id
      PROVE  FALSE
  BY <1>1, <1>3 DEF OneWriter
<1>4. ASSUME NEW s \in Requests, NEW u \in Requests, NEW t \in Tours,
             HoldsTour(s, t)', HoldsTour(u, t)'
      PROVE  s = u
  <2>1. CASE s # r /\ u # r
    <3>1. HoldsTour(s, t) /\ HoldsTour(u, t)
      BY <1>1, <1>4, <2>1 DEF HoldsTour
    <3> QED
      BY <3>1 DEF OneWriter
  <2> QED
    BY <1>2, <1>4, <2>1
<1>5. ASSUME NEW s \in Requests, NEW u \in Requests,
             tx'[s].op = "create", tx'[u].op = "create", tx'[s].id = tx'[u].id
      PROVE  s = u
  BY <1>1, <1>3, <1>5 DEF OneWriter
<1> QED
  BY <1>4, <1>5 DEF OneWriter

-----------------------------------------------------------------------------
(* Steps.                                                                  *)

TablesTyped ==
  /\ DOMAIN category \subseteq Categories /\ category \in [DOMAIN category -> Category]
  /\ DOMAIN tour \subseteq Tours /\ tour \in [DOMAIN tour -> Tour]
  /\ departing \subseteq DOMAIN tour
  /\ booking \subseteq [tour : Tours, quantity : Quantities,
                        unitPrice : 0 .. MaxAmount, totalAmount : 0 .. MaxAmount]
  /\ checked \subseteq Tours \X Categories \X BOOLEAN
  /\ offered \subseteq Tours \X Prices

(* The type invariant is about the tables and the requests.                *)
LEMMA Typed ==
  /\ TypeOK <=> TablesTyped /\ tx \in [Requests -> Request]
  /\ TypeOK' <=> TablesTyped' /\ tx' \in [Requests -> Request]
BY DEF TypeOK, TablesTyped

AllVetted == \A t \in DOMAIN tour : Vetted(t, tour[t])

(* A step of one request keeps the invariant if what it leaves the request *)
(* with is true and the tables are right.                                  *)
LEMMA StepKeeps ==
  ASSUME IndInv, NEW r \in Requests, NEW x \in Request, tx' = [tx EXCEPT ![r] = x], Knows(x)',
         TablesTyped', AllVetted', OffersRemembered', BookedAsOffered', Grows,
         \A s \in Requests \ {r} : HoldsTour(s, tx[s].id) => tour'[tx[s].id] = tour[tx[s].id],
         \A s \in Requests \ {r} : tx[s].op = "create" => tx[s].id \notin DOMAIN tour',
         x.op = "images" /\ x.stage \in {"recheck", "commit"} =>
           HoldsTour(r, x.id) \/ \A s \in Requests : ~HoldsTour(s, x.id),
         x.op = "create" =>
           (tx[r].op = "create" /\ tx[r].id = x.id) \/ \A s \in Requests : tx[s].id # x.id
  PROVE  IndInv'
<1>1. tx \in [Requests -> Request] /\ OneWriter
  BY Typed DEF IndInv, NothingUnchecked
<1>2. tx' \in [Requests -> Request] /\ tx'[r] = x /\ \A s \in Requests \ {r} : tx'[s] = tx[s]
  BY <1>1
<1>3. NothingUnchecked'
  BY <1>2, Typed DEF NothingUnchecked, AllVetted
<1>4. OneWriter'
  BY <1>1, OneWriterStays
<1>5. ASSUME NEW s \in Requests
      PROVE  Knows(tx[s])'
  <2>1. CASE s = r
    BY <1>2, <2>1
  <2>2. CASE s # r
    <3>1. PICK y : y = tx[s]
      OBVIOUS
    <3>2. Knows(y) /\ tx'[s] = y
      BY <1>2, <2>2, <3>1 DEF IndInv
    <3>3. y.op = "images" /\ y.stage \in {"recheck", "commit"} => tour'[y.id] = tour[y.id]
      BY <2>2, <3>1 DEF HoldsTour
    <3>4. y.op = "create" => y.id \notin DOMAIN tour'
      BY <2>2, <3>1
    <3>5. Knows(y)'
      BY <3>2, <3>3, <3>4, KnowsStays
    <3> QED
      BY <3>2, <3>5
  <2> QED
    BY <2>1, <2>2
<1> QED
  BY <1>3, <1>4, <1>5 DEF IndInv

(* A tour that is to be created does not exist.                            *)
LEMMA CreatedIsNew ==
  ASSUME IndInv, NEW s \in Requests, tx[s].op = "create"
  PROVE  tx[s].id \in Tours \ DOMAIN tour
<1>1. PICK y : y = tx[s]
  OBVIOUS
<1>2. Knows(y) /\ y.op = "create"
  BY <1>1 DEF IndInv
<1>3. CreatesTour(y)
  BY <1>2 DEF Knows, Idle, EditsCategory, EditsTour, EditsImages, AddsDeparture, Books
<1> QED
  BY <1>1, <1>3 DEF CreatesTour

(* Steps that only change the request, or record a check.                  *)
LEMMA QuietStep ==
  ASSUME IndInv, NEW r \in Requests, NEW x \in Request, tx' = [tx EXCEPT ![r] = x], Knows(x)',
         UNCHANGED <<category, tour, departing, booking, offered>>,
         checked \subseteq checked', checked' \subseteq Tours \X Categories \X BOOLEAN,
         x.op = "images" /\ x.stage \in {"recheck", "commit"} =>
           HoldsTour(r, x.id) \/ \A s \in Requests : ~HoldsTour(s, x.id),
         x.op = "create" =>
           (tx[r].op = "create" /\ tx[r].id = x.id) \/ \A s \in Requests : tx[s].id # x.id
  PROVE  IndInv'
<1>1. TablesTyped /\ AllVetted /\ OffersRemembered /\ BookedAsOffered
  BY Typed DEF IndInv, NothingUnchecked, AllVetted
<1>2. TablesTyped'
  BY <1>1 DEF TablesTyped
<1>3. Grows
  BY DEF Grows
<1>4. \A t, row : Vetted(t, row) => Vetted(t, row)'
  BY VettedStays
<1>5. AllVetted'
  BY <1>1, <1>4 DEF AllVetted
<1>6. OffersRemembered' /\ BookedAsOffered'
  BY <1>1 DEF OffersRemembered, BookedAsOffered
<1>7. \A s \in Requests : tx[s].op = "create" => tx[s].id \notin DOMAIN tour'
  BY CreatedIsNew
<1> QED
  BY <1>2, <1>3, <1>5, <1>6, <1>7, StepKeeps

(* What an idle request is.                                                *)
LEMMA IdleRequest ==
  Idle \in Request /\ Knows(Idle)' /\ Idle.op = "none"
<1>1. Idle \in Request /\ Idle.op = "none"
  BY DEF Idle, Request
<1> QED
  BY <1>1 DEF Knows

(* A request that ends without writing.                                    *)
LEMMA EndStep ==
  ASSUME IndInv, NEW r \in Requests, End(r),
         UNCHANGED <<category, tour, departing, booking, checked, offered>>
  PROVE  IndInv'
<1>1. checked \subseteq Tours \X Categories \X BOOLEAN
  BY Typed DEF IndInv, NothingUnchecked, TablesTyped
<1>2. PICK x : x = Idle
  OBVIOUS
<1>3. x \in Request /\ Knows(x)' /\ x.op = "none" /\ tx' = [tx EXCEPT ![r] = x]
  BY <1>2, IdleRequest DEF End
<1> QED
  BY <1>1, <1>3, QuietStep

(* A tour is written by a request that ends with it: the row brings nothing*)
(* unchecked, and nobody else holds the tour or is to create it.           *)
LEMMA TourStep ==
  ASSUME IndInv, NEW r \in Requests, End(r), NEW t \in Tours, NEW row \in Tour,
         Vetted(t, row), SetTour(t, row), UNCHANGED <<category, departing, booking, checked>>,
         \A s \in Requests \ {r} :
           ~HoldsTour(s, t) /\ ~(tx[s].op = "create" /\ tx[s].id = t)
  PROVE  IndInv'
<1>1. TablesTyped /\ AllVetted /\ OffersRemembered /\ BookedAsOffered
  BY Typed DEF IndInv, NothingUnchecked, AllVetted
<1>2. /\ tour' \in [DOMAIN tour \cup {t} -> Tour] /\ DOMAIN tour' = DOMAIN tour \cup {t}
      /\ tour'[t] = row /\ \A u \in DOMAIN tour \ {t} : tour'[u] = tour[u]
  BY <1>1 DEF SetTour, Put, TablesTyped
<1>3. /\ offered \subseteq offered'
      /\ offered' \subseteq offered \cup {<<t, row.price>>}
      /\ row.status = "PUBLISHED" => <<t, row.price>> \in offered'
  BY DEF SetTour
<1>4. TablesTyped'
  BY <1>1, <1>2, <1>3, TourRows DEF TablesTyped
<1>5. Grows
  BY <1>2, <1>3 DEF Grows
<1>6. \A u, y : Vetted(u, y) => Vetted(u, y)'
  BY VettedStays
<1>7. AllVetted'
  BY <1>1, <1>2, <1>6 DEF AllVetted
<1>8. OffersRemembered'
  BY <1>1, <1>2, <1>3 DEF OffersRemembered
<1>9. BookedAsOffered'
  BY <1>1, <1>3 DEF BookedAsOffered
<1>10. ASSUME NEW s \in Requests \ {r}, HoldsTour(s, tx[s].id)
       PROVE  tour'[tx[s].id] = tour[tx[s].id]
  <2>1. PICK y : y = tx[s]
    OBVIOUS
  <2>2. Knows(y) /\ y.op = "images"
    BY <1>10, <2>1 DEF IndInv, HoldsTour
  <2>3. EditsImages(y)
    BY <2>2 DEF Knows, Idle, EditsCategory, EditsTour, CreatesTour, AddsDeparture, Books
  <2>4. tx[s].id \in DOMAIN tour /\ tx[s].id # t
    BY <1>10, <2>1, <2>3 DEF EditsImages
  <2> QED
    BY <1>2, <2>4
<1>11. \A s \in Requests \ {r} : tx[s].op = "create" => tx[s].id \notin DOMAIN tour'
  BY <1>2, CreatedIsNew
<1>12. PICK x : x = Idle
  OBVIOUS
<1>13. x \in Request /\ Knows(x)' /\ x.op = "none" /\ tx' = [tx EXCEPT ![r] = x]
  BY <1>12, IdleRequest DEF End
<1> QED
  BY <1>4, <1>5, <1>7, <1>8, <1>9, <1>10, <1>11, <1>13, StepKeeps

(* What a request knows by its operation.                                  *)
LEMMA KindOf ==
  ASSUME IndInv, NEW r \in Requests
  PROVE  /\ tx[r] \in Request
         /\ tx[r].op = "category" => EditsCategory(tx[r])
         /\ tx[r].op = "create" => CreatesTour(tx[r])
         /\ tx[r].op = "edit" => EditsTour(tx[r])
         /\ tx[r].op = "images" => EditsImages(tx[r])
         /\ tx[r].op = "departure" => AddsDeparture(tx[r])
         /\ tx[r].op = "booking" => Books(tx[r])
<1>1. PICK x : x = tx[r]
  OBVIOUS
<1>2. Knows(x) /\ x \in Request
  BY <1>1, Typed DEF IndInv, NothingUnchecked
<1>3. /\ x.op = "category" => EditsCategory(x)
      /\ x.op = "create" => CreatesTour(x)
      /\ x.op = "edit" => EditsTour(x)
      /\ x.op = "images" => EditsImages(x)
      /\ x.op = "departure" => AddsDeparture(x)
      /\ x.op = "booking" => Books(x)
  BY <1>2
  DEF Knows, Idle, EditsCategory, CreatesTour, EditsTour, EditsImages, AddsDeparture, Books
<1> QED
  BY <1>1, <1>2, <1>3

(* A request that begins: the record it begins with.                       *)
LEMMA BeginStep ==
  ASSUME IndInv, NEW r \in Requests, NEW op, NEW stage, NEW id, NEW input, NEW copy, NEW base,
         Begin(r, op, stage, id, input, copy, base),
         op # "images" \/ stage \notin {"recheck", "commit"},
         op = "create" => \A s \in Requests : tx[s].id # id,
         NEW x, x = [op |-> op, stage |-> stage, id |-> id, input |-> input,
                     copy |-> copy, base |-> base, diff |-> {}],
         x \in Request, Knows(x)'
  PROVE  IndInv'
<1>1. /\ tx' = [tx EXCEPT ![r] = x]
      /\ UNCHANGED <<category, tour, departing, booking, checked, offered>>
  BY DEF Begin
<1>2. x.op = op /\ x.stage = stage /\ x.id = id
  OBVIOUS
<1>3. checked \subseteq Tours \X Categories \X BOOLEAN
  BY Typed DEF IndInv, NothingUnchecked, TablesTyped
<1> QED
  BY <1>1, <1>2, <1>3, QuietStep

(* CategoriesService.update begins.                                        *)
LEMMA EditCategoryStep ==
  ASSUME IndInv, NEW r \in Requests, NEW c \in Categories, NEW input \in CategoryInputs,
         EditCategory(r, c, input)
  PROVE  IndInv'
<1>1. /\ c \in DOMAIN category
      /\ Begin(r, "category", "save", c, input, Applied(category[c], input), category[c])
  BY DEF EditCategory
<1>2. PICK base : base = category[c]
  OBVIOUS
<1>3. base \in Category
  BY <1>1, <1>2, Typed DEF IndInv, NothingUnchecked, TablesTyped
<1>4. PICK copy : copy = Applied(base, input)
  OBVIOUS
<1>5. copy \in Category
  BY <1>3, <1>4, CategoryRows
<1>6. PICK x : x = [op |-> "category", stage |-> "save", id |-> c, input |-> input,
                    copy |-> copy, base |-> base, diff |-> {}]
  OBVIOUS
<1>7. x \in Request
  BY <1>3, <1>5, <1>6 DEF Request
<1>8. category' = category
  BY <1>1 DEF Begin
<1>9. EditsCategory(x)'
  BY <1>1, <1>3, <1>4, <1>6, <1>8 DEF EditsCategory
<1>10. Knows(x)'
  BY <1>9 DEF Knows
<1> QED
  BY <1>1, <1>2, <1>4, <1>6, <1>7, <1>10, BeginStep

(* CategoriesService.archive begins.                                       *)
LEMMA ArchiveCategoryStep ==
  ASSUME IndInv, NEW r \in Requests, NEW c \in Categories, ArchiveCategory(r, c)
  PROVE  IndInv'
<1>1. [status |-> "INACTIVE"] \in CategoryInputs
  BY DEF CategoryInputs, CategoryStatus
<1>2. EditCategory(r, c, [status |-> "INACTIVE"])
  BY DEF ArchiveCategory
<1> QED
  BY <1>1, <1>2, EditCategoryStep

(* ToursService.create begins: the draft brings the category it will look for. *)
LEMMA CreateStep ==
  ASSUME IndInv, NEW r \in Requests, NEW t \in Tours, NEW c \in Categories, NEW p \in Prices,
         Create(r, t, c, p)
  PROVE  IndInv'
<1>1. PICK row : row = [category |-> c, price |-> p, status |-> "DRAFT"]
  OBVIOUS
<1>2. row \in Tour /\ row.category = c /\ row.status = "DRAFT"
  BY <1>1 DEF Tour, TourStatus
<1>3. /\ t \notin DOMAIN tour /\ \A s \in Requests : tx[s].id # t
      /\ Begin(r, "create", "check", t, [category |-> c], row, None)
  BY <1>1 DEF Create
<1>4. PICK x : x = [op |-> "create", stage |-> "check", id |-> t, input |-> [category |-> c],
                    copy |-> row, base |-> None, diff |-> {}]
  OBVIOUS
<1>5. x \in Request
  BY <1>2, <1>4 DEF Request
<1>6. tour' = tour
  BY <1>3 DEF Begin
<1>7. CreatesTour(x)'
  BY <1>2, <1>3, <1>4, <1>6 DEF CreatesTour
<1>8. Knows(x)'
  BY <1>7 DEF Knows
<1> QED
  BY <1>3, <1>4, <1>5, <1>8, BeginStep

(* The row that an edit makes of one in which nothing is unchecked.        *)
LEMMA EditedRow ==
  ASSUME NEW t, NEW row \in Tour, NEW input \in TourEdits, Vetted(t, row),
         NEW copy, copy = Applied(row, input)
  PROVE  AlmostVetted(t, copy, input) /\ (NeedsCheck(input) \/ Vetted(t, copy))
<1>1. /\ copy.category = IF "category" \in DOMAIN input THEN input["category"] ELSE row.category
      /\ copy.status = IF "status" \in DOMAIN input THEN input["status"] ELSE row.status
  BY AppliedRow
<1>2. AlmostVetted(t, copy, input)
  BY <1>1 DEF AlmostVetted, Vetted, WantsPublished
<1>3. NeedsCheck(input) \/ Vetted(t, copy)
  BY <1>1 DEF NeedsCheck, Vetted, WantsPublished
<1> QED
  BY <1>2, <1>3

(* A plain edit begins: to look for its category, or with nothing unchecked. *)
LEMMA EditStep ==
  ASSUME IndInv, NEW r \in Requests, NEW t \in Tours, NEW input \in TourEdits, NEW stage,
         t \in DOMAIN tour, stage = "check" \/ (stage = "save" /\ Vetted(t, Applied(tour[t], input))),
         Begin(r, "edit", stage, t, input, Applied(tour[t], input), tour[t])
  PROVE  IndInv'
<1>1. PICK base : base = tour[t]
  OBVIOUS
<1>2. base \in Tour /\ Vetted(t, base)
  BY <1>1, Typed DEF IndInv, NothingUnchecked, TablesTyped
<1>3. PICK copy : copy = Applied(base, input)
  OBVIOUS
<1>4. copy \in Tour /\ AlmostVetted(t, copy, input)
  BY <1>2, <1>3, AppliedRow, EditedRow
<1>5. PICK x : x = [op |-> "edit", stage |-> stage, id |-> t, input |-> input,
                    copy |-> copy, base |-> base, diff |-> {}]
  OBVIOUS
<1>6. x \in Request
  BY <1>2, <1>4, <1>5 DEF Request
<1>7. tour' = tour /\ checked' = checked
  BY DEF Begin
<1>8. AlmostVetted(t, copy, input)' /\ (stage = "check" \/ Vetted(t, copy)')
  BY <1>1, <1>3, <1>4, <1>7, VettedStays
<1>9. EditsTour(x)'
  BY <1>2, <1>3, <1>5, <1>7, <1>8 DEF EditsTour
<1>10. Knows(x)'
  BY <1>9 DEF Knows
<1> QED
  BY <1>1, <1>3, <1>5, <1>6, <1>10, BeginStep

(* An edit of the images begins.                                           *)
LEMMA EditImagesStep ==
  ASSUME IndInv, NEW r \in Requests, NEW t \in Tours, NEW input \in TourInputs, NEW stage,
         t \in DOMAIN tour, stage \in {"check", "lock"},
         Begin(r, "images", stage, t, input, Applied(tour[t], input), None)
  PROVE  IndInv'
<1>1. PICK copy : copy = Applied(tour[t], input)
  OBVIOUS
<1>2. tour[t] \in Tour /\ input \in TourEdits
  BY Typed DEF IndInv, NothingUnchecked, TablesTyped, TourEdits
<1>3. copy \in Tour
  BY <1>1, <1>2, AppliedRow
<1>4. PICK x : x = [op |-> "images", stage |-> stage, id |-> t, input |-> input,
                    copy |-> copy, base |-> None, diff |-> {}]
  OBVIOUS
<1>5. x \in Request
  BY <1>2, <1>3, <1>4 DEF Request
<1>6. tour' = tour
  BY DEF Begin
<1>7. EditsImages(x)'
  BY <1>3, <1>4, <1>6 DEF EditsImages
<1>8. Knows(x)'
  BY <1>7 DEF Knows
<1> QED
  BY <1>1, <1>4, <1>5, <1>8, BeginStep

(* ToursService.update begins: an input that needs no check brings nothing *)
(* unchecked.                                                              *)
LEMMA EditSteps ==
  ASSUME IndInv, NEW r \in Requests, NEW t \in Tours, NEW op \in {"edit", "images"},
         NEW input \in TourInputs, Edit(r, op, t, input)
  PROVE  IndInv'
<1>1. PICK stage : stage = IF NeedsCheck(input) THEN "check"
                           ELSE IF op = "edit" THEN "save" ELSE "lock"
  OBVIOUS
<1>2. /\ t \in DOMAIN tour
      /\ Begin(r, op, stage, t, input, Applied(tour[t], input), IF op = "edit" THEN tour[t] ELSE None)
  BY <1>1 DEF Edit
<1>3. input \in TourEdits
  BY DEF TourEdits
<1>4. CASE op = "edit"
  <2>1. Begin(r, "edit", stage, t, input, Applied(tour[t], input), tour[t])
    BY <1>2, <1>4
  <2>2. tour[t] \in Tour /\ Vetted(t, tour[t])
    BY <1>2, Typed DEF IndInv, NothingUnchecked, TablesTyped
  <2>3. NeedsCheck(input) \/ Vetted(t, Applied(tour[t], input))
    BY <1>3, <2>2, EditedRow
  <2>4. stage = "check" \/ (stage = "save" /\ Vetted(t, Applied(tour[t], input)))
    BY <1>1, <1>4, <2>3
  <2> QED
    BY <1>2, <1>3, <2>1, <2>4, EditStep
<1>5. CASE op = "images"
  <2>1. Begin(r, "images", stage, t, input, Applied(tour[t], input), None)
    BY <1>2, <1>5
  <2>2. stage \in {"check", "lock"}
    BY <1>1, <1>5
  <2> QED
    BY <1>2, <2>1, <2>2, EditImagesStep
<1> QED
  BY <1>4, <1>5

(* ToursService.archive begins.                                            *)
LEMMA ArchiveTourStep ==
  ASSUME IndInv, NEW r \in Requests, NEW t \in Tours, ArchiveTour(r, t)
  PROVE  IndInv'
<1>1. PICK input : input = [status |-> "ARCHIVED"]
  OBVIOUS
<1>2. /\ t \in DOMAIN tour
      /\ Begin(r, "edit", "save", t, input, Applied(tour[t], input), tour[t])
  BY <1>1 DEF ArchiveTour
<1>3. input \in TourEdits /\ ~NeedsCheck(input)
  BY <1>1 DEF TourEdits, NeedsCheck, WantsPublished
<1>4. tour[t] \in Tour /\ Vetted(t, tour[t])
  BY <1>2, Typed DEF IndInv, NothingUnchecked, TablesTyped
<1>5. Vetted(t, Applied(tour[t], input))
  BY <1>3, <1>4, EditedRow
<1> QED
  BY <1>2, <1>3, <1>5, EditStep

(* DeparturesService.create begins.                                        *)
LEMMA AddDepartureStep ==
  ASSUME IndInv, NEW r \in Requests, NEW t \in Tours, AddDeparture(r, t)
  PROVE  IndInv'
<1>1. t \in DOMAIN tour /\ Begin(r, "departure", "insert", t, None, None, None)
  BY DEF AddDeparture
<1>2. PICK x : x = [op |-> "departure", stage |-> "insert", id |-> t, input |-> None,
                    copy |-> None, base |-> None, diff |-> {}]
  OBVIOUS
<1>3. x \in Request
  BY <1>2 DEF Request
<1>4. AddsDeparture(x)'
  BY <1>1, <1>2 DEF AddsDeparture, Begin
<1>5. Knows(x)'
  BY <1>4 DEF Knows
<1> QED
  BY <1>1, <1>2, <1>3, <1>5, BeginStep

(* BookingsService.create has read a published tour: its price is remembered. *)
LEMMA ReadOfferStep ==
  ASSUME IndInv, NEW r \in Requests, NEW t \in Tours, NEW q \in Quantities, ReadOffer(r, t, q)
  PROVE  IndInv'
<1>1. PICK copy : copy = tour[t]
  OBVIOUS
<1>2. /\ t \in DOMAIN tour /\ copy.status = "PUBLISHED"
      /\ Begin(r, "booking", "insert", t, [quantity |-> q], copy, None)
  BY <1>1 DEF ReadOffer, Published
<1>3. copy \in Tour /\ <<t, copy.price>> \in offered
  BY <1>1, <1>2, Typed DEF IndInv, NothingUnchecked, TablesTyped, OffersRemembered
<1>4. PICK x : x = [op |-> "booking", stage |-> "insert", id |-> t, input |-> [quantity |-> q],
                    copy |-> copy, base |-> None, diff |-> {}]
  OBVIOUS
<1>5. x \in Request
  BY <1>3, <1>4 DEF Request
<1>6. tour' = tour /\ offered' = offered
  BY <1>2 DEF Begin
<1>7. Books(x)'
  BY <1>2, <1>3, <1>4, <1>6 DEF Books
<1>8. Knows(x)'
  BY <1>7 DEF Knows
<1> QED
  BY <1>2, <1>4, <1>5, <1>8, BeginStep

(* A request that goes on: what changes of its record.                     *)
GoesOn(y, x, stage, d) == x = [y EXCEPT !.stage = stage, !.diff = d]

(* It stays a request, and is about the same row.                          *)
LEMMA Onward ==
  ASSUME NEW y \in Request, NEW x, NEW stage \in {"save", "write", "lock", "commit", "recheck"},
         NEW d \in SUBSET DOMAIN TourColumns, GoesOn(y, x, stage, d)
  PROVE  /\ x \in Request /\ x.stage = stage
         /\ x.op = y.op /\ x.id = y.id /\ x.input = y.input
         /\ x.copy = y.copy /\ x.base = y.base
<1>1. PICK z : z = [y EXCEPT !.stage = stage]
  OBVIOUS
<1>2. /\ z \in Request /\ z.stage = stage
      /\ z.op = y.op /\ z.id = y.id /\ z.input = y.input /\ z.copy = y.copy /\ z.base = y.base
  BY <1>1 DEF Request
<1>3. PICK w : w = [z EXCEPT !.diff = d]
  OBVIOUS
<1>4. /\ w \in Request /\ w.stage = stage
      /\ w.op = y.op /\ w.id = y.id /\ w.input = y.input /\ w.copy = y.copy /\ w.base = y.base
  BY <1>2, <1>3 DEF Request
<1>5. w = x
  BY <1>1, <1>3, Zenon DEF GoesOn
<1> QED
  BY <1>4, <1>5

(* The row of a category is read again: what differs is to be updated.     *)
LEMMA CompareCategoryStep ==
  ASSUME IndInv, NEW r \in Requests, CompareCategory(r)
  PROVE  IndInv'
<1>1. PICK y : y = tx[r]
  OBVIOUS
<1>2. y \in Request /\ EditsCategory(y) /\ y.op = "category"
  BY <1>1, KindOf DEF CompareCategory, At
<1>3. PICK d : d = Differing(y.copy, category[y.id])
  OBVIOUS
<1>4. /\ End(r) \/ tx' = [tx EXCEPT ![r] = [tx[r] EXCEPT !.stage = "write", !.diff = d]]
      /\ UNCHANGED <<category, tour, departing, booking, checked, offered>>
  BY <1>1, <1>3 DEF CompareCategory
<1>5. category[y.id] \in Category
  BY <1>2, Typed DEF IndInv, NothingUnchecked, TablesTyped, EditsCategory
<1>6. d \in SUBSET DOMAIN TourColumns
  BY <1>3, <1>5 DEF Differing, TourColumns, Category
<1>7. PICK x : GoesOn(y, x, "write", d)
  BY DEF GoesOn
<1>8. /\ x \in Request /\ x.stage = "write" /\ x.op = y.op /\ x.id = y.id
      /\ x.input = y.input /\ x.copy = y.copy /\ x.base = y.base
  BY <1>2, <1>6, <1>7, Onward
<1>9. EditsCategory(x)'
  BY <1>2, <1>4, <1>8 DEF EditsCategory
<1>10. Knows(x)'
  BY <1>9 DEF Knows
<1>11. CASE End(r)
  BY <1>4, <1>11, EndStep
<1>12. CASE tx' = [tx EXCEPT ![r] = x]
  <2>1. checked \subseteq Tours \X Categories \X BOOLEAN
    BY Typed DEF IndInv, NothingUnchecked, TablesTyped
  <2>2. x.op # "images" /\ x.op # "create"
    BY <1>2, <1>8
  <2> QED
    BY <1>4, <1>8, <1>10, <1>12, <2>1, <2>2, QuietStep
<1> QED
  BY <1>1, <1>4, <1>7, <1>11, <1>12 DEF GoesOn

(* The same of a tour.                                                     *)
LEMMA CompareTourStep ==
  ASSUME IndInv, NEW r \in Requests, CompareTour(r)
  PROVE  IndInv'
<1>1. PICK y : y = tx[r]
  OBVIOUS
<1>2. y \in Request /\ EditsTour(y) /\ y.op = "edit" /\ y.stage = "save"
  BY <1>1, KindOf DEF CompareTour, At
<1>3. PICK d : d = Differing(y.copy, tour[y.id])
  OBVIOUS
<1>4. /\ End(r) \/ tx' = [tx EXCEPT ![r] = [tx[r] EXCEPT !.stage = "write", !.diff = d]]
      /\ UNCHANGED <<category, tour, departing, booking, checked, offered>>
  BY <1>1, <1>3 DEF CompareTour
<1>5. tour[y.id] \in Tour
  BY <1>2, Typed DEF IndInv, NothingUnchecked, TablesTyped, EditsTour
<1>6. d \in SUBSET DOMAIN TourColumns
  BY <1>3, <1>5 DEF Differing, TourColumns, Tour
<1>7. PICK x : GoesOn(y, x, "write", d)
  BY DEF GoesOn
<1>8. /\ x \in Request /\ x.stage = "write" /\ x.op = y.op /\ x.id = y.id
      /\ x.input = y.input /\ x.copy = y.copy /\ x.base = y.base
  BY <1>2, <1>6, <1>7, Onward
<1>9. Vetted(y.id, y.copy)'
  BY <1>2, <1>4, VettedStays DEF EditsTour
<1>10. EditsTour(x)'
  BY <1>2, <1>4, <1>8, <1>9 DEF EditsTour
<1>11. Knows(x)'
  BY <1>10 DEF Knows
<1>12. CASE End(r)
  BY <1>4, <1>12, EndStep
<1>13. CASE tx' = [tx EXCEPT ![r] = x]
  <2>1. checked \subseteq Tours \X Categories \X BOOLEAN
    BY Typed DEF IndInv, NothingUnchecked, TablesTyped
  <2>2. x.op # "images" /\ x.op # "create"
    BY <1>2, <1>8
  <2> QED
    BY <1>4, <1>8, <1>11, <1>13, <2>1, <2>2, QuietStep
<1> QED
  BY <1>1, <1>4, <1>7, <1>12, <1>13 DEF GoesOn

(* A category is updated.                                                  *)
LEMMA WriteCategoryStep ==
  ASSUME IndInv, NEW r \in Requests, WriteCategory(r)
  PROVE  IndInv'
<1>1. PICK y : y = tx[r]
  OBVIOUS
<1>2. y \in Request /\ EditsCategory(y)
  BY <1>1, KindOf DEF WriteCategory, At
<1>3. TablesTyped /\ AllVetted /\ OffersRemembered /\ BookedAsOffered
  BY Typed DEF IndInv, NothingUnchecked, AllVetted
<1>4. y.id \in DOMAIN category /\ category[y.id] \in Category /\ y.copy \in Category
  BY <1>2, <1>3, CategoryRows DEF TablesTyped, EditsCategory
<1>5. PICK row : row = Updated(category[y.id], y.copy, y.diff)
  OBVIOUS
<1>6. row \in Category
  BY <1>4, <1>5, UpdatedCategory
<1>7. /\ category' = Put(category, y.id, row) /\ End(r)
      /\ UNCHANGED <<tour, departing, booking, checked, offered>>
  BY <1>1, <1>5 DEF WriteCategory
<1>8. DOMAIN category' = DOMAIN category /\ category' \in [DOMAIN category -> Category]
  BY <1>3, <1>4, <1>6, <1>7 DEF Put, TablesTyped
<1>9. TablesTyped' /\ Grows
  BY <1>3, <1>7, <1>8 DEF TablesTyped, Grows
<1>10. \A t, w : Vetted(t, w) => Vetted(t, w)'
  BY <1>7, VettedStays
<1>11. AllVetted'
  BY <1>3, <1>7, <1>10 DEF AllVetted
<1>12. OffersRemembered' /\ BookedAsOffered'
  BY <1>3, <1>7 DEF OffersRemembered, BookedAsOffered
<1>13. \A s \in Requests : tx[s].op = "create" => tx[s].id \notin DOMAIN tour'
  BY <1>7, CreatedIsNew
<1>14. PICK x : x = Idle
  OBVIOUS
<1>15. x \in Request /\ Knows(x)' /\ x.op = "none" /\ tx' = [tx EXCEPT ![r] = x]
  BY <1>7, <1>14, IdleRequest DEF End
<1> QED
  BY <1>7, <1>9, <1>11, <1>12, <1>13, <1>15, StepKeeps

(* A tour is inserted: its category was checked.                           *)
LEMMA InsertTourStep ==
  ASSUME IndInv, NEW r \in Requests, InsertTour(r)
  PROVE  IndInv'
<1>1. PICK t, row : t = tx[r].id /\ row = tx[r].copy
  OBVIOUS
<1>2. tx[r].op = "create" /\ tx[r].stage = "save"
  BY DEF InsertTour, At
<1>3. CreatesTour(tx[r])
  BY <1>2, KindOf
<1>4. t \in Tours /\ t \notin DOMAIN tour /\ row \in Tour /\ Vetted(t, row)
  BY <1>1, <1>2, <1>3 DEF CreatesTour
<1>5. SetTour(t, row) /\ End(r) /\ UNCHANGED <<category, departing, booking, checked>>
  BY <1>1 DEF InsertTour
<1>6. ASSUME NEW s \in Requests \ {r}
      PROVE  ~HoldsTour(s, t) /\ ~(tx[s].op = "create" /\ tx[s].id = t)
  <2>1. HoldsTour(s, t) => t \in DOMAIN tour
    BY KindOf DEF HoldsTour, EditsImages
  <2>2. ~(tx[s].op = "create" /\ tx[s].id = t)
    BY <1>1, <1>2 DEF IndInv, OneWriter
  <2> QED
    BY <1>4, <2>1, <2>2
<1> QED
  BY <1>4, <1>5, <1>6, TourStep

(* A tour is updated: its columns are those of the row or of the copy, in  *)
(* neither of which anything is unchecked.                                 *)
LEMMA WriteTourStep ==
  ASSUME IndInv, NEW r \in Requests, WriteTour(r)
  PROVE  IndInv'
<1>1. PICK y : y = tx[r]
  OBVIOUS
<1>2. y.op = "edit" /\ y.stage = "write" /\ EditsTour(y)
  BY <1>1, KindOf DEF WriteTour, At
<1>3. PICK t, row : t = y.id /\ row = Updated(tour[t], y.copy, y.diff)
  OBVIOUS
<1>4. /\ t \in DOMAIN tour /\ t \in Tours /\ tour[t] \in Tour /\ Vetted(t, tour[t])
      /\ y.copy \in Tour /\ Vetted(t, y.copy)
  BY <1>2, <1>3, AppliedRow, Typed DEF IndInv, NothingUnchecked, TablesTyped, EditsTour
<1>5. row \in Tour /\ Vetted(t, row)
  <2>1. /\ row \in Tour /\ row.category \in {tour[t].category, y.copy.category}
        /\ row.status \in {tour[t].status, y.copy.status}
    BY <1>3, <1>4, UpdatedRow
  <2> QED
    BY <1>4, <2>1 DEF Vetted
<1>6. SetTour(t, row) /\ End(r) /\ UNCHANGED <<category, departing, booking, checked>> /\ Free(t)
  BY <1>1, <1>3 DEF WriteTour
<1>7. ASSUME NEW s \in Requests \ {r}
      PROVE  ~HoldsTour(s, t) /\ ~(tx[s].op = "create" /\ tx[s].id = t)
  <2>1. ~HoldsTour(s, t)
    BY <1>6 DEF Free, HoldsTour
  <2> QED
    BY <1>4, <2>1, CreatedIsNew
<1> QED
  BY <1>4, <1>5, <1>6, <1>7, TourStep

(* An image transaction commits: it alone holds the tour.                  *)
LEMMA CommitImagesStep ==
  ASSUME IndInv, NEW r \in Requests, CommitImages(r)
  PROVE  IndInv'
<1>1. PICK t, row : t = tx[r].id /\ row = tx[r].copy
  OBVIOUS
<1>2. HoldsTour(r, t) /\ tx[r].stage = "commit" /\ EditsImages(tx[r])
  BY <1>1, KindOf DEF CommitImages, At, HoldsTour
<1>3. t \in DOMAIN tour /\ t \in Tours /\ row \in Tour /\ Vetted(t, row)
  BY <1>1, <1>2, Typed DEF EditsImages, IndInv, NothingUnchecked, TablesTyped
<1>4. SetTour(t, row) /\ End(r) /\ UNCHANGED <<category, departing, booking, checked>>
  BY <1>1 DEF CommitImages
<1>5. ASSUME NEW s \in Requests \ {r}
      PROVE  ~HoldsTour(s, t) /\ ~(tx[s].op = "create" /\ tx[s].id = t)
  <2>1. ~HoldsTour(s, t)
    BY <1>2, <1>3 DEF IndInv, OneWriter
  <2> QED
    BY <1>3, <2>1, CreatedIsNew
<1> QED
  BY <1>3, <1>4, <1>5, TourStep

(* The category that the check looks for is the one of the copy.           *)
LEMMA NamedInCopy ==
  ASSUME NEW copy \in Tour, NEW input,
         \/ input = [category |-> copy.category]
         \/ input \in TourEdits /\ \E row \in Tour : copy = Applied(row, input)
  PROVE  Named(copy, input) = copy.category
<1>1. CASE input = [category |-> copy.category]
  BY <1>1, TourRows DEF Named, Applied
<1>2. ASSUME input \in TourEdits, NEW row \in Tour, copy = Applied(row, input)
      PROVE  Named(copy, input) = copy.category
  <2>1. /\ Applied(copy, input) \in Tour
        /\ Applied(copy, input).category =
             IF "category" \in DOMAIN input THEN input["category"] ELSE copy.category
    BY <1>2, AppliedRow
  <2>2. Applied(copy, input)["category"] = Applied(copy, input).category
    BY <2>1, TourRows
  <2>3. "category" \in DOMAIN input => copy.category = input["category"]
    BY <1>2, AppliedRow
  <2> QED
    BY <2>1, <2>2, <2>3 DEF Named
<1> QED
  BY <1>1, <1>2

(* A row that has passed the check brings nothing unchecked.               *)
LEMMA Passed ==
  ASSUME NEW t, NEW copy, NEW input, AlmostVetted(t, copy, input), checked \subseteq checked',
         copy.category \in Categories,
         <<t, copy.category, WantsPublished(input)>> \in checked'
  PROVE  Vetted(t, copy)'
<1>1. WantsPublished(input) \in BOOLEAN
  BY DEF WantsPublished
<1>2. CategoryChecked(t, copy.category)'
  BY <1>1 DEF CategoryChecked
<1>3. MayPublish(t) => MayPublish(t)'
  BY DEF MayPublish
<1>4. CASE WantsPublished(input)
  <2>1. <<t, copy.category, TRUE>> \in checked'
    BY <1>1, <1>4
  <2>2. MayPublish(t)'
    BY <2>1 DEF MayPublish
  <2> QED
    BY <1>2, <2>2 DEF Vetted
<1>5. CASE ~WantsPublished(input)
  BY <1>2, <1>3, <1>5 DEF Vetted, AlmostVetted
<1> QED
  BY <1>4, <1>5

(* A request whose stage alone changes.                                    *)
MovesOn(y, x, stage) == x = [y EXCEPT !.stage = stage]

(* It stays a request, and is about the same row.                          *)
LEMMA MovedOn ==
  ASSUME NEW y \in Request, NEW x, NEW stage \in {"save", "write", "lock", "commit", "recheck"},
         MovesOn(y, x, stage)
  PROVE  /\ x \in Request /\ x.stage = stage
         /\ x.op = y.op /\ x.id = y.id /\ x.input = y.input
         /\ x.copy = y.copy /\ x.base = y.base
BY DEF Request, MovesOn

(* The requests that look for their category.                              *)
LEMMA Checking ==
  ASSUME IndInv, NEW r \in Requests, NEW y, y = tx[r], y.stage \in {"check", "recheck"}
  PROVE  \/ y.op = "create" /\ y.stage = "check" /\ CreatesTour(y)
         \/ y.op = "edit" /\ y.stage = "check" /\ EditsTour(y)
         \/ y.op = "images" /\ EditsImages(y)
<1>1. Knows(y) /\ y.stage # "idle" /\ y.stage # "insert"
  BY DEF IndInv
<1> QED
  BY <1>1 DEF Knows, Idle, EditsCategory, CreatesTour, EditsTour, EditsImages, AddsDeparture, Books

(* What it knows when the category was found active.                       *)
LEMMA CheckedRequest ==
  ASSUME IndInv, NEW r \in Requests, NEW y, y = tx[r], y.stage \in {"check", "recheck"},
         NEW c \in Categories, c = Named(y.copy, y.input),
         checked' = checked \cup {<<y.id, c, WantsPublished(y.input)>>},
         UNCHANGED <<category, tour, offered>>,
         NEW x, NEW stage, MovesOn(y, x, stage),
         stage = IF y.stage = "recheck" THEN "commit" ELSE IF y.op = "images" THEN "lock" ELSE "save"
  PROVE  y.id \in Tours /\ Knows(x)'
<1> USE Typed DEF IndInv, NothingUnchecked
<1>1. y \in Request /\ DOMAIN tour \subseteq Tours /\ tour \in [DOMAIN tour -> Tour]
  BY DEF TablesTyped
<1>2. stage \in {"commit", "lock", "save"}
  OBVIOUS
<1>3. /\ x.stage = stage /\ x.op = y.op /\ x.id = y.id /\ x.input = y.input
      /\ x.copy = y.copy /\ x.base = y.base
  BY <1>1, <1>2, MovedOn
<1>4. CASE y.op = "create" /\ y.stage = "check" /\ CreatesTour(y)
  <2>1. /\ y.id \in Tours \ DOMAIN tour /\ y.copy \in Tour /\ y.copy.status = "DRAFT"
        /\ y.input = [category |-> y.copy.category]
    BY <1>4 DEF CreatesTour
  <2>2. c = y.copy.category
    BY <2>1, NamedInCopy
  <2>3. AlmostVetted(y.id, y.copy, y.input)
    BY <2>1 DEF AlmostVetted
  <2>4. Vetted(y.id, y.copy)'
    BY <2>2, <2>3, Passed
  <2>5. CreatesTour(x)'
    BY <1>3, <1>4, <2>1, <2>4 DEF CreatesTour
  <2> QED
    BY <2>1, <2>5 DEF Knows
<1>5. CASE y.op = "edit" /\ y.stage = "check" /\ EditsTour(y)
  <2>1. /\ y.id \in DOMAIN tour /\ y.input \in TourEdits /\ y.base \in Tour
        /\ y.copy = Applied(y.base, y.input) /\ AlmostVetted(y.id, y.copy, y.input)
    BY <1>5 DEF EditsTour
  <2>2. y.copy \in Tour
    BY <2>1, AppliedRow
  <2>3. c = y.copy.category
    BY <2>1, <2>2, NamedInCopy
  <2>4. Vetted(y.id, y.copy)'
    BY <2>1, <2>3, Passed
  <2>5. EditsTour(x)'
    BY <1>3, <1>5, <2>1, <2>4 DEF EditsTour
  <2> QED
    BY <1>1, <2>1, <2>5 DEF Knows
<1>6. CASE y.op = "images" /\ y.stage = "check" /\ EditsImages(y)
  <2>1. EditsImages(x)'
    BY <1>3, <1>6 DEF EditsImages
  <2> QED
    BY <1>1, <1>6, <2>1 DEF Knows, EditsImages
<1>7. CASE y.op = "images" /\ y.stage = "recheck" /\ EditsImages(y)
  <2>1. /\ y.id \in DOMAIN tour /\ y.input \in TourInputs /\ y.copy \in Tour
        /\ y.copy = Applied(tour[y.id], y.input) /\ AlmostVetted(y.id, y.copy, y.input)
    BY <1>7 DEF EditsImages
  <2>2. y.input \in TourEdits /\ tour[y.id] \in Tour
    BY <1>1, <2>1 DEF TourEdits
  <2>3. c = y.copy.category
    BY <2>1, <2>2, NamedInCopy
  <2>4. Vetted(y.id, y.copy)'
    BY <2>1, <2>3, Passed
  <2>5. EditsImages(x)'
    BY <1>3, <1>7, <2>1, <2>4 DEF EditsImages
  <2> QED
    BY <1>1, <2>1, <2>5 DEF Knows
<1> QED
  BY <1>4, <1>5, <1>6, <1>7, Checking

(* ensureActiveCategory has found the category active.                     *)
LEMMA CheckCategoryStep ==
  ASSUME IndInv, NEW r \in Requests, CheckCategory(r)
  PROVE  IndInv'
<1>1. PICK y : y = tx[r]
  OBVIOUS
<1>2. PICK c : c = Named(y.copy, y.input)
  OBVIOUS
<1>3. PICK stage : stage = IF y.stage = "recheck" THEN "commit"
                           ELSE IF y.op = "images" THEN "lock" ELSE "save"
  OBVIOUS
<1>4. PICK x : MovesOn(y, x, stage)
  BY DEF MovesOn
<1>5. /\ y.stage \in {"check", "recheck"} /\ c \in DOMAIN category
      /\ checked' = checked \cup {<<y.id, c, WantsPublished(y.input)>>}
      /\ tx' = [tx EXCEPT ![r] = x]
      /\ UNCHANGED <<category, tour, departing, booking, offered>>
  BY <1>1, <1>2, <1>3, <1>4 DEF CheckCategory, MovesOn
<1>6. /\ DOMAIN category \subseteq Categories /\ y \in Request
      /\ checked \subseteq Tours \X Categories \X BOOLEAN
  BY <1>1, Typed DEF IndInv, NothingUnchecked, TablesTyped
<1>7. y.id \in Tours /\ Knows(x)'
  BY <1>1, <1>2, <1>3, <1>4, <1>5, <1>6, CheckedRequest
<1>8. checked' \subseteq Tours \X Categories \X BOOLEAN
  <2>1. WantsPublished(y.input) \in BOOLEAN
    BY DEF WantsPublished
  <2>2. <<y.id, c, WantsPublished(y.input)>> \in Tours \X Categories \X BOOLEAN
    BY <1>5, <1>6, <1>7, <2>1
  <2> QED
    BY <1>5, <1>6, <2>2
<1>9. stage \in {"commit", "lock", "save"}
  BY <1>3
<1>10. x \in Request /\ x.stage = stage /\ x.op = y.op /\ x.id = y.id
  BY <1>4, <1>6, <1>9, MovedOn
<1>11. x.op = "images" /\ x.stage \in {"recheck", "commit"} => HoldsTour(r, x.id)
  <2>1. x.stage \in {"recheck", "commit"} => y.stage = "recheck"
    BY <1>3, <1>10
  <2> QED
    BY <1>1, <1>10, <2>1 DEF HoldsTour
<1>12. x.op = "create" => tx[r].op = "create" /\ tx[r].id = x.id
  BY <1>1, <1>10
<1> QED
  BY <1>5, <1>7, <1>8, <1>10, <1>11, <1>12, QuietStep

(* The image transaction locks the tour and edits a fresh copy: if the input *)
(* needs no check, the copy brings nothing unchecked.                      *)
LEMMA LockTourStep ==
  ASSUME IndInv, NEW r \in Requests, LockTour(r)
  PROVE  IndInv'
<1>1. PICK y : y = tx[r]
  OBVIOUS
<1>2. y \in Request /\ y.op = "images" /\ y.stage = "lock" /\ EditsImages(y)
  BY <1>1, KindOf DEF LockTour, At
<1>3. PICK t : t = y.id
  OBVIOUS
<1>4. /\ t \in DOMAIN tour /\ t \in Tours /\ tour[t] \in Tour /\ Vetted(t, tour[t])
      /\ y.input \in TourInputs /\ y.input \in TourEdits
      /\ checked \subseteq Tours \X Categories \X BOOLEAN
  BY <1>2, <1>3, Typed DEF EditsImages, IndInv, NothingUnchecked, TablesTyped, TourEdits
<1>5. PICK copy : copy = Applied(tour[t], y.input)
  OBVIOUS
<1>6. PICK stage : stage = IF NeedsCheck(y.input) THEN "recheck" ELSE "commit"
  OBVIOUS
<1>7. /\ copy \in Tour /\ AlmostVetted(t, copy, y.input)
      /\ stage = "commit" => Vetted(t, copy)
  BY <1>4, <1>5, <1>6, AppliedRow, EditedRow
<1>8. PICK z : MovesOn(y, z, stage)
  BY DEF MovesOn
<1>9. /\ z \in Request /\ z.stage = stage /\ z.op = "images" /\ z.id = t /\ z.input = y.input
  BY <1>2, <1>3, <1>6, <1>8, MovedOn
<1>10. PICK x : x = [z EXCEPT !.copy = copy]
  OBVIOUS
<1>11. /\ x \in Request /\ x.stage = stage /\ x.op = "images" /\ x.id = t /\ x.input = y.input
       /\ x.copy = copy
  BY <1>7, <1>9, <1>10 DEF Request
<1>12. x = [y EXCEPT !.stage = stage, !.copy = copy]
  BY <1>8, <1>10, Zenon DEF MovesOn
<1>13. /\ tx' = [tx EXCEPT ![r] = x] /\ Free(t)
       /\ UNCHANGED <<category, tour, departing, booking, checked, offered>>
  BY <1>1, <1>3, <1>5, <1>6, <1>12 DEF LockTour, FreshCopy
<1>14. AlmostVetted(t, copy, y.input)' /\ (stage = "commit" => Vetted(t, copy)')
  BY <1>7, <1>13, VettedStays
<1>15. EditsImages(x)'
  BY <1>4, <1>5, <1>6, <1>7, <1>11, <1>13, <1>14 DEF EditsImages
<1>16. Knows(x)'
  BY <1>15 DEF Knows
<1>17. \A s \in Requests : ~HoldsTour(s, x.id)
  BY <1>11, <1>13 DEF Free, HoldsTour
<1>18. x.op # "create"
  BY <1>11
<1> QED
  BY <1>4, <1>11, <1>13, <1>16, <1>17, <1>18, QuietStep

(* A request that ends with a departure or a booking inserted.             *)
LEMMA IdleRequests ==
  ASSUME IndInv, NEW r \in Requests, End(r),
         UNCHANGED <<category, tour, checked, offered>>,
         TablesTyped', BookedAsOffered'
  PROVE  IndInv'
<1>1. TablesTyped /\ AllVetted /\ OffersRemembered
  BY Typed DEF IndInv, NothingUnchecked, AllVetted
<1>2. Grows
  BY DEF Grows
<1>3. \A t, row : Vetted(t, row) => Vetted(t, row)'
  BY VettedStays
<1>4. AllVetted'
  BY <1>1, <1>3 DEF AllVetted
<1>5. OffersRemembered'
  BY <1>1 DEF OffersRemembered
<1>6. \A s \in Requests : tx[s].op = "create" => tx[s].id \notin DOMAIN tour'
  BY CreatedIsNew
<1>7. PICK x : x = Idle
  OBVIOUS
<1>8. x \in Request /\ Knows(x)' /\ x.op = "none" /\ tx' = [tx EXCEPT ![r] = x]
  BY <1>7, IdleRequest DEF End
<1> QED
  BY <1>2, <1>4, <1>5, <1>6, <1>8, StepKeeps

(* A departure is inserted.                                                *)
LEMMA InsertDepartureStep ==
  ASSUME IndInv, NEW r \in Requests, InsertDeparture(r)
  PROVE  IndInv'
<1>1. /\ tx[r].op = "departure" /\ departing' = departing \cup {tx[r].id} /\ End(r)
      /\ UNCHANGED <<category, tour, booking, checked, offered>>
  BY DEF InsertDeparture, At
<1>2. tx[r].id \in DOMAIN tour
  BY <1>1, KindOf DEF AddsDeparture
<1>3. TablesTyped /\ BookedAsOffered
  BY Typed DEF IndInv, NothingUnchecked
<1>4. TablesTyped' /\ BookedAsOffered'
  BY <1>1, <1>2, <1>3 DEF TablesTyped, BookedAsOffered
<1> QED
  BY <1>1, <1>4, IdleRequests

(* A booking is inserted: its price is the one that was read, and the total is *)
(* exact.                                                                  *)
LEMMA InsertBookingStep ==
  ASSUME IndInv, NEW r \in Requests, InsertBooking(r)
  PROVE  IndInv'
<1>1. PICK y : y = tx[r]
  OBVIOUS
<1>2. y.op = "booking" /\ Books(y)
  BY <1>1, KindOf DEF InsertBooking, At
<1>3. PICK q \in Quantities : y.input = [quantity |-> q]
  BY <1>2 DEF Books
<1>4. PICK t, p : t = y.id /\ p = y.copy.price
  OBVIOUS
<1>5. /\ t \in DOMAIN tour /\ t \in Tours /\ p \in Prices /\ <<t, p>> \in offered
      /\ p \in 0 .. MaxAmount /\ p \in Nat /\ q \in Nat \ {0} /\ MaxAmount \in Nat
  BY <1>2, <1>3, <1>4, CatalogueAssumption, TourRows, Typed
  DEF Books, IndInv, NothingUnchecked, TablesTyped
<1>6. y.input.quantity = q
  BY <1>3
<1>7. PICK total : total = Numeric(CalculateTotal(Text(p), q))
  OBVIOUS
<1>8. total = p * q /\ Numeric(Text(p)) = p
  BY <1>5, <1>7, TotalIsExact, TextIsExact
<1>9. PICK b : b = [tour |-> t, quantity |-> q, unitPrice |-> p, totalAmount |-> total]
  OBVIOUS
<1>10. /\ total <= MaxAmount /\ booking' = booking \cup {b} /\ End(r)
       /\ UNCHANGED <<category, tour, departing, checked, offered>>
  BY <1>1, <1>4, <1>6, <1>7, <1>8, <1>9 DEF InsertBooking
<1>11. p * q \in Nat
  BY <1>5
<1>12. total \in 0 .. MaxAmount
  BY <1>5, <1>8, <1>10, <1>11
<1>13. b \in [tour : Tours, quantity : Quantities,
              unitPrice : 0 .. MaxAmount, totalAmount : 0 .. MaxAmount]
  BY <1>5, <1>9, <1>12
<1>14. <<b.tour, b.unitPrice>> \in offered /\ b.totalAmount = b.unitPrice * b.quantity
  BY <1>5, <1>8, <1>9
<1>15. TablesTyped /\ BookedAsOffered
  BY Typed DEF IndInv, NothingUnchecked
<1>16. TablesTyped'
  BY <1>10, <1>13, <1>15 DEF TablesTyped
<1>17. BookedAsOffered'
  BY <1>10, <1>14, <1>15 DEF BookedAsOffered
<1> QED
  BY <1>10, <1>16, <1>17, IdleRequests

(* A category is created.                                                  *)
LEMMA CreateCategoryStep ==
  ASSUME IndInv, NEW c \in Categories, CreateCategory(c)
  PROVE  IndInv'
<1>1. PICK row : row = [status |-> "ACTIVE"]
  OBVIOUS
<1>2. row \in Category
  BY <1>1 DEF Category, CategoryStatus
<1>3. /\ category' = Put(category, c, row)
      /\ UNCHANGED <<tour, departing, booking, tx, checked, offered>>
  BY <1>1 DEF CreateCategory
<1>4. TablesTyped /\ AllVetted /\ OffersRemembered /\ BookedAsOffered
  BY Typed DEF IndInv, NothingUnchecked, AllVetted
<1>5. /\ DOMAIN category' = DOMAIN category \cup {c}
      /\ category' \in [DOMAIN category \cup {c} -> Category]
  BY <1>2, <1>3, <1>4 DEF Put, TablesTyped
<1>6. TablesTyped' /\ Grows
  BY <1>3, <1>4, <1>5 DEF TablesTyped, Grows
<1>7. \A t, w : Vetted(t, w) => Vetted(t, w)'
  BY <1>3, VettedStays
<1>8. AllVetted'
  BY <1>3, <1>4, <1>7 DEF AllVetted
<1>9. OffersRemembered' /\ BookedAsOffered'
  BY <1>3, <1>4 DEF OffersRemembered, BookedAsOffered
<1>10. TypeOK' /\ NothingUnchecked'
  BY <1>3, <1>6, <1>8, Typed DEF IndInv, NothingUnchecked, AllVetted
<1>11. OneWriter'
  BY <1>3 DEF IndInv, OneWriter, HoldsTour
<1>12. ASSUME NEW s \in Requests
       PROVE  Knows(tx[s])'
  <2>1. PICK y : y = tx[s]
    OBVIOUS
  <2>2. Knows(y) /\ tx'[s] = y
    BY <1>3, <2>1 DEF IndInv
  <2>3. y.op = "create" => y.id \notin DOMAIN tour'
    BY <1>3, <2>1, CreatedIsNew
  <2>4. Knows(y)'
    BY <1>3, <1>6, <2>2, <2>3, KnowsStays
  <2> QED
    BY <2>2, <2>4
<1> QED
  BY <1>9, <1>10, <1>11, <1>12 DEF IndInv

(* A request begins, or is turned away.                                    *)
LEMMA ArriveStep ==
  ASSUME IndInv, NEW r \in Requests, Arrive(r)
  PROVE  IndInv' \/ UNCHANGED vars
<1>1. CASE TurnAway(r)
  BY <1>1 DEF TurnAway
<1>2. ASSUME NEW c \in Categories,
             ArchiveCategory(r, c) \/ \E input \in CategoryInputs : EditCategory(r, c, input)
      PROVE  IndInv'
  BY <1>2, ArchiveCategoryStep, EditCategoryStep
<1>3. ASSUME NEW t \in Tours, ArchiveTour(r, t) \/ AddDeparture(r, t)
      PROVE  IndInv'
  BY <1>3, ArchiveTourStep, AddDepartureStep
<1>4. ASSUME NEW t \in Tours, NEW c \in Categories, NEW p \in Prices, Create(r, t, c, p)
      PROVE  IndInv'
  BY <1>4, CreateStep
<1>5. ASSUME NEW t \in Tours, NEW op \in {"edit", "images"}, NEW input \in TourInputs,
             Edit(r, op, t, input)
      PROVE  IndInv'
  BY <1>5, EditSteps
<1>6. ASSUME NEW t \in Tours, NEW q \in Quantities, ReadOffer(r, t, q)
      PROVE  IndInv'
  BY <1>6, ReadOfferStep
<1> QED
  BY <1>1, <1>2, <1>3, <1>4, <1>5, <1>6 DEF Arrive

(* A request goes on, or fails.                                            *)
LEMMA ProceedStep ==
  ASSUME IndInv, NEW r \in Requests, Proceed(r) \/ Fail(r)
  PROVE  IndInv'
<1>1. CASE Fail(r)
  BY <1>1, EndStep DEF Fail
<1>2. CASE CompareCategory(r) \/ WriteCategory(r) \/ CheckCategory(r)
  BY <1>2, CompareCategoryStep, WriteCategoryStep, CheckCategoryStep
<1>3. CASE InsertTour(r) \/ CompareTour(r) \/ WriteTour(r)
  BY <1>3, InsertTourStep, CompareTourStep, WriteTourStep
<1>4. CASE LockTour(r) \/ CommitImages(r)
  BY <1>4, LockTourStep, CommitImagesStep
<1>5. CASE InsertDeparture(r) \/ InsertBooking(r)
  BY <1>5, InsertDepartureStep, InsertBookingStep
<1> QED
  BY <1>1, <1>2, <1>3, <1>4, <1>5 DEF Proceed

(* The invariant holds at first,                                           *)
LEMMA InvInit ==
  ASSUME Init
  PROVE  IndInv
<1>1. DOMAIN category = {} /\ DOMAIN tour = {}
  BY DEF Init
<1>2. Idle \in Request /\ Knows(Idle) /\ Idle.op = "none"
  BY DEF Idle, Request, Knows
<1>3. \A r \in Requests : tx[r] = Idle
  BY DEF Init
<1>4. TypeOK
  BY <1>1, <1>2 DEF Init, TypeOK
<1>5. NothingUnchecked /\ OffersRemembered
  BY <1>1, <1>4 DEF NothingUnchecked, OffersRemembered
<1>6. BookedAsOffered
  BY DEF Init, BookedAsOffered
<1>7. OneWriter
  BY <1>2, <1>3 DEF OneWriter, HoldsTour
<1>8. \A r \in Requests : Knows(tx[r])
  BY <1>2, <1>3
<1> QED
  BY <1>5, <1>6, <1>7, <1>8 DEF IndInv

(* and every step keeps it.                                                *)
LEMMA InvNext ==
  IndInv /\ [Next]_vars => IndInv'
<1> SUFFICES ASSUME IndInv, [Next]_vars
             PROVE  IndInv'
  OBVIOUS
<1>1. CASE UNCHANGED vars
  <2>1. \A x : Knows(x) => Knows(x)'
    BY <1>1
    DEF vars, Knows, EditsCategory, CreatesTour, EditsTour, EditsImages, AddsDeparture, Books,
        Vetted, AlmostVetted, CategoryChecked, MayPublish
  <2> QED
    BY <1>1, <2>1
    DEF vars, IndInv, NothingUnchecked, TypeOK, OneWriter, HoldsTour, OffersRemembered,
        BookedAsOffered, Vetted, CategoryChecked, MayPublish
<1>2. ASSUME NEW c \in Categories, CreateCategory(c)
      PROVE  IndInv'
  BY <1>2, CreateCategoryStep
<1>3. ASSUME NEW r \in Requests, Arrive(r)
      PROVE  IndInv'
  BY <1>1, <1>3, ArriveStep
<1>4. ASSUME NEW r \in Requests, Proceed(r) \/ Fail(r)
      PROVE  IndInv'
  BY <1>4, ProceedStep
<1> QED
  BY <1>1, <1>2, <1>3, <1>4 DEF Next

(* The inductive invariant of the catalogue, for any number of requests, tours *)
(* and categories, and whatever the edits name.                            *)
THEOREM Inductive == Spec => []IndInv
<1>1. Init => IndInv
  BY InvInit
<1> QED
  BY <1>1, InvNext, PTL DEF Spec

(* A tour is only ever in a category that ensureActiveCategory has found active *)
(* for it, and published only if a request that asked for it found one active *)
(* (tours.service.ts, applyUpdate).                                        *)
THEOREM NothingIsUnchecked == Spec => []NothingUnchecked
<1>1. IndInv => NothingUnchecked
  BY DEF IndInv
<1> QED
  BY <1>1, Inductive, PTL

(* A booking has a price that its tour had while it was published, and exactly *)
(* that price times the quantity as its total (BookingsService.create).    *)
THEOREM BookingsKeepTheOffer == Spec => []BookedAsOffered
<1>1. IndInv => BookedAsOffered
  BY DEF IndInv
<1> QED
  BY <1>1, Inductive, PTL

(* A row that is put keeps what the input does not name.                   *)
LEMMA TourKept ==
  ASSUME NEW t \in DOMAIN tour, NEW row, NEW input,
         tour' = Put(tour, t, row),
         \A k \in DOMAIN tour[t] \ DOMAIN input : row[k] = tour[t][k]
  PROVE  \A k \in DOMAIN tour[t] \ DOMAIN input : tour'[t][k] = tour[t][k]
<1>1. tour'[t] = row
  BY DEF Put
<1> QED
  BY <1>1

(* The three kinds of steps that write an edited row.                      *)
LEMMA ImagesKeep ==
  ASSUME IndInv, NEW r \in Requests, CommitImages(r)
  PROVE  \A k \in DOMAIN tour[tx[r].id] \ DOMAIN tx[r].input :
           tour'[tx[r].id][k] = tour[tx[r].id][k]
<1>1. PICK t, row, input : t = tx[r].id /\ row = tx[r].copy /\ input = tx[r].input
  OBVIOUS
<1>2. tx[r].stage = "commit" /\ EditsImages(tx[r]) /\ SetTour(t, row)
  BY <1>1, KindOf DEF CommitImages, At
<1>3. t \in DOMAIN tour /\ input \in TourEdits /\ row = Applied(tour[t], input)
  BY <1>1, <1>2 DEF EditsImages, TourEdits
<1>4. tour[t] \in Tour
  BY <1>3, Typed DEF IndInv, NothingUnchecked, TablesTyped
<1>5. \A k \in DOMAIN tour[t] \ DOMAIN input : row[k] = tour[t][k]
  BY <1>3, <1>4, AppliedRow
<1>6. tour' = Put(tour, t, row)
  BY <1>2 DEF SetTour
<1> QED
  BY <1>1, <1>3, <1>5, <1>6, TourKept

(* A plain edit whose row is still as it was read,                         *)
LEMMA WriteKeeps ==
  ASSUME IndInv, NEW r \in Requests, WriteTour(r), tour[tx[r].id] = tx[r].base
  PROVE  \A k \in DOMAIN tour[tx[r].id] \ DOMAIN tx[r].input :
           tour'[tx[r].id][k] = tour[tx[r].id][k]
<1>1. PICK t, copy, input, diff :
        t = tx[r].id /\ copy = tx[r].copy /\ input = tx[r].input /\ diff = tx[r].diff
  OBVIOUS
<1>2. PICK row : row = Updated(tour[t], copy, diff)
  OBVIOUS
<1>3. EditsTour(tx[r]) /\ SetTour(t, row)
  BY <1>1, <1>2, KindOf DEF WriteTour, At
<1>4. t \in DOMAIN tour /\ input \in TourEdits /\ tour[t] \in Tour /\ copy = Applied(tour[t], input)
  BY <1>1, <1>3 DEF EditsTour
<1>5. copy \in Tour /\ \A k \in DOMAIN tour[t] \ DOMAIN input : copy[k] = tour[t][k]
  BY <1>4, AppliedRow
<1>6. \A k \in DOMAIN tour[t] \ DOMAIN input : row[k] = tour[t][k]
  BY <1>2, <1>4, <1>5, UpdatedRow
<1>7. tour' = Put(tour, t, row)
  BY <1>3 DEF SetTour
<1> QED
  BY <1>1, <1>4, <1>6, <1>7, TourKept

(* and the same of a category.                                             *)
LEMMA CategoryKeeps ==
  ASSUME IndInv, NEW r \in Requests, WriteCategory(r), category[tx[r].id] = tx[r].base
  PROVE  \A k \in DOMAIN category[tx[r].id] \ DOMAIN tx[r].input :
           category'[tx[r].id][k] = category[tx[r].id][k]
<1>1. PICK c, copy, input, diff :
        c = tx[r].id /\ copy = tx[r].copy /\ input = tx[r].input /\ diff = tx[r].diff
  OBVIOUS
<1>2. PICK row : row = Updated(category[c], copy, diff)
  OBVIOUS
<1>3. EditsCategory(tx[r]) /\ category' = Put(category, c, row)
  BY <1>1, <1>2, KindOf DEF WriteCategory, At
<1>4. /\ c \in DOMAIN category /\ input \in CategoryInputs /\ category[c] \in Category
      /\ copy = Applied(category[c], input)
  BY <1>1, <1>3 DEF EditsCategory
<1>5. copy \in Category /\ \A k \in DOMAIN category[c] \ DOMAIN input : copy[k] = category[c][k]
  BY <1>4, CategoryRows
<1>6. \A k \in DOMAIN category[c] \ DOMAIN input : row[k] = category[c][k]
  BY <1>2, <1>4, <1>5, UpdatedCategory
<1>7. category'[c] = row
  BY <1>3, <1>4 DEF Put
<1> QED
  BY <1>1, <1>6, <1>7

(* An edit leaves the columns alone that it does not name: under the lock of *)
(* the image transaction always, otherwise if the row is as it was read.   *)
THEOREM EditsKeepOthers == Spec => EditKeepsOthers
<1> DEFINE Keeps(r) ==
      LET t == tx[r].id
          keeps(old, new) == \A k \in DOMAIN old \ DOMAIN tx[r].input : new[k] = old[k]
      IN /\ CommitImages(r) => keeps(tour[t], tour'[t])
         /\ WriteTour(r) /\ tour[t] = tx[r].base => keeps(tour[t], tour'[t])
         /\ WriteCategory(r) /\ category[t] = tx[r].base => keeps(category[t], category'[t])
<1>1. IndInv /\ [Next]_vars => [\A r \in Requests : Keeps(r)]_vars
  <2> SUFFICES ASSUME IndInv, NEW r \in Requests
               PROVE  Keeps(r)
    OBVIOUS
  <2> QED
    BY ImagesKeep, WriteKeeps, CategoryKeeps
<1> QED
  BY <1>1, Inductive, PTL DEF Spec, EditKeepsOthers
=============================================================================
