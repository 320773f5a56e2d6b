--------------------------- MODULE SequenceLemmas ---------------------------
(***************************************************************************)
(* Facts about the operators of the community modules that the component   *)
(* proofs share: the largest element of an interval, the recursion inside  *)
(* a fold, and the sequence of a finite set in a strict total order.       *)
(*                                                                         *)
(* Every induction here takes a least counterexample among the naturals,   *)
(* because the provers cannot instantiate an induction theorem, whose      *)
(* parameter is an operator.                                               *)
(***************************************************************************)
EXTENDS Integers, FiniteSets, SequencesExt, FiniteSetTheorems, SequenceTheorems,
        WellFoundedInduction, TLAPS

(* Every nonempty set of naturals has a least element. *)
LEMMA NatLeast ==
  ASSUME NEW T, T \subseteq Nat, T # {}
  PROVE  \E x \in T : \A y \in T : x <= y
<1> DEFINE Less == {ss \in Nat \X Nat : ss[1] < ss[2]}
<1>1. IsWellFoundedOn(Less, Nat)
  BY Zenon, NatLessThanWellFounded DEF OpToRel
<1>2. PICK x \in T : \A y \in T : ~(<<y, x>> \in Less)
  <2> HIDE DEF Less
  <2>1. QED
    BY <1>1, WFMin
<1>3. ASSUME NEW y \in T PROVE x <= y
  <2>1. <<y, x>> \in Nat \X Nat /\ <<y, x>>[1] = y /\ <<y, x>>[2] = x
    OBVIOUS
  <2>2. ~(y < x)
    BY <1>2, <2>1
  <2>3. QED
    BY <2>1, <2>2
<1>4. QED
  BY <1>3

(* The largest of the first k naturals is k, and the rest are the first    *)
(* k-1: what one step of a fold over a sequence does with its indices.     *)
LEMMA LastIndex ==
  ASSUME NEW k \in Nat, k > 0
  PROVE  /\ 1..k # {}
         /\ Max(1..k) = k
         /\ (1..k) \ {k} = 1..(k - 1)
<1> DEFINE Largest(x) == \A y \in 1..k : x >= y
<1>1. k \in 1..k /\ Largest(k)
  OBVIOUS
<1>2. \A x \in 1..k : Largest(x) => x = k
  BY <1>1
<1>3. (CHOOSE x \in 1..k : Largest(x)) = k
  BY <1>1, <1>2
<1>4. Max(1..k) = k
  BY <1>3 DEF Max
<1>5. QED
  BY <1>1, <1>4

(* The largest element of a nonempty subset of an interval is in it. *)
LEMMA MaxInSubset ==
  ASSUME NEW n \in Nat, NEW t \in SUBSET (1..n), t # {}
  PROVE  Max(t) \in t /\ \A y \in t : y <= Max(t)
<1> DEFINE Gap(x) == n - x
           gaps == {g \in Nat : \E x \in t : g = Gap(x)}
<1>1. PICK x \in t : TRUE
  OBVIOUS
<1>2. Gap(x) \in gaps
  OBVIOUS
<1>3. PICK g \in gaps : \A h \in gaps : g <= h
  BY <1>2, NatLeast
<1>4. PICK m \in t : g = Gap(m)
  BY <1>3
<1>5. ASSUME NEW y \in t PROVE m >= y
  <2>1. Gap(y) \in gaps
    OBVIOUS
  <2>2. g <= Gap(y)
    BY <1>3, <2>1
  <2>3. QED
    BY <1>4, <2>2
<1>6. QED
  BY <1>4, <1>5 DEF Max

(* The recursion inside a fold: a function of the subsets of 1..n that     *)
(* takes the largest index away and applies F to it and to the rest.       *)
Iterates(g, n, F, base) ==
  \A t \in SUBSET (1..n) :
    g[t] = IF t = {} THEN base ELSE F[<<Max(t), g[t \ {Max(t)}]>>]

(* It exists whenever F keeps its accumulator in T. *)
LEMMA IterationExists ==
  ASSUME NEW T, NEW n \in Nat, NEW F \in [(1..n) \X T -> T], NEW base \in T
  PROVE  \E g \in [SUBSET (1..n) -> T] : Iterates(g, n, F, base)
<1> DEFINE Ok(m) == \E g \in [SUBSET (1..m) -> T] : Iterates(g, m, F, base)
           bad == {m \in Nat : m <= n /\ ~Ok(m)}
<1>1. Ok(0)
  <2> DEFINE g == [t \in SUBSET (1..0) |-> base]
  <2>1. g \in [SUBSET (1..0) -> T]
    OBVIOUS
  <2>2. \A t \in SUBSET (1..0) : t = {} /\ g[t] = base
    OBVIOUS
  <2>3. Iterates(g, 0, F, base)
    BY <2>2 DEF Iterates
  <2>4. QED
    BY <2>1, <2>3
<1>2. ASSUME NEW m \in Nat, 0 < m, m <= n, Ok(m - 1) PROVE Ok(m)
  <2>1. PICK g \in [SUBSET (1..(m - 1)) -> T] : Iterates(g, m - 1, F, base)
    BY <1>2
  <2>2. /\ m \in 1..n
        /\ \A t \in SUBSET (1..m) : t \ {m} \in SUBSET (1..(m - 1))
        /\ \A t \in SUBSET (1..m) : m \notin t => t \in SUBSET (1..(m - 1))
    BY <1>2
  <2> DEFINE h == [t \in SUBSET (1..m) |-> IF m \in t THEN F[<<m, g[t \ {m}]>>] ELSE g[t]]
  <2>3. h \in [SUBSET (1..m) -> T]
    <3>1. ASSUME NEW t \in SUBSET (1..m) PROVE h[t] \in T
      <4>1. CASE m \in t
        <5>1. <<m, g[t \ {m}]>> \in (1..n) \X T
          BY <2>2
        <5>2. QED
          BY <4>1, <5>1
      <4>2. CASE m \notin t
        BY <2>2, <4>2
      <4>3. QED
        BY <4>1, <4>2
    <3>2. QED
      BY <3>1
  <2>4. ASSUME NEW t \in SUBSET (1..m), t # {}
        PROVE  h[t] = F[<<Max(t), h[t \ {Max(t)}]>>]
    <3>1. Max(t) \in t /\ \A y \in t : y <= Max(t)
      BY <2>4, MaxInSubset
    <3>2. t \ {Max(t)} \in SUBSET (1..m)
      OBVIOUS
    <3>3. CASE m \in t
      <4>1. Max(t) = m
        <5>1. Max(t) \in 1..m /\ m <= Max(t)
          BY <3>1, <3>3
        <5>2. QED
          BY <5>1
      <4>2. h[t \ {m}] = g[t \ {m}]
        OBVIOUS
      <4>3. QED
        BY <3>3, <4>1, <4>2
    <3>4. CASE m \notin t
      <4>1. h[t] = g[t] /\ h[t \ {Max(t)}] = g[t \ {Max(t)}]
        BY <3>2, <3>4
      <4>2. g[t] = F[<<Max(t), g[t \ {Max(t)}]>>]
        BY <2>1, <2>2, <2>4, <3>4 DEF Iterates
      <4>3. QED
        BY <4>1, <4>2
    <3>5. QED
      BY <3>3, <3>4
  <2>5. h[{}] = base
    <3>1. {} \in SUBSET (1..(m - 1))
      OBVIOUS
    <3>2. g[{}] = base
      BY <2>1, <3>1 DEF Iterates
    <3>3. QED
      BY <3>2
  <2> HIDE DEF h
  <2>6. Iterates(h, m, F, base)
    BY <2>4, <2>5 DEF Iterates
  <2>7. QED
    BY <2>3, <2>6
<1> HIDE DEF Ok
<1>3. bad = {}
  <2> SUFFICES ASSUME bad # {} PROVE FALSE
    OBVIOUS
  <2>1. PICK m \in bad : \A k \in bad : m <= k
    BY NatLeast
  <2>2. m \in Nat /\ m > 0 /\ m <= n /\ ~Ok(m)
    BY <1>1
  <2>3. m - 1 \in Nat /\ m - 1 <= n /\ m - 1 \notin bad
    BY <2>1, <2>2
  <2>4. Ok(m - 1)
    BY <2>3
  <2>5. QED
    BY <1>2, <2>2, <2>4
<1>4. Ok(n)
  BY <1>3
<1>5. QED
  BY <1>4 DEF Ok

-----------------------------------------------------------------------------
(* A function of 1..n is a sequence of length n ... *)
LEMMA FunctionIsSeq ==
  ASSUME NEW S, NEW n \in Nat, NEW s \in [1..n -> S]
  PROVE  s \in Seq(S) /\ Len(s) = n
<1>1. s \in Seq(S)
  BY SeqDef
<1>2. Len(s) \in Nat /\ DOMAIN s = 1..Len(s) /\ DOMAIN s = 1..n
  BY <1>1, LenProperties
<1>3. QED
  BY <1>1, <1>2

(* ... and Append gives it one more place. *)
LEMMA AppendFunction ==
  ASSUME NEW S, NEW n \in Nat, NEW s \in [1..n -> S], NEW x \in S
  PROVE  /\ Append(s, x) \in [1..(n + 1) -> S]
         /\ \A i \in 1..n : Append(s, x)[i] = s[i]
         /\ Append(s, x)[n + 1] = x
<1> DEFINE a == Append(s, x)
<1>1. s \in Seq(S) /\ Len(s) = n
  BY FunctionIsSeq
<1>2. /\ a \in Seq(S) /\ Len(a) = n + 1
      /\ \A i \in 1..n : a[i] = s[i]
      /\ a[n + 1] = x
  BY <1>1, AppendProperties
<1>3. a \in [1..Len(a) -> S]
  BY <1>2, LenProperties
<1>4. QED
  BY <1>2, <1>3

-----------------------------------------------------------------------------
(* A fold that adds: d[i] is what the i-th element of the sequence adds.   *)
Adds(d, n, g) ==
  g = [t \in SUBSET (1..n) |-> IF t = {} THEN 0 ELSE g[t \ {Max(t)}] + d[Max(t)]]

(* The sum of the first k. *)
SumTo(d, k) == (CHOOSE g : Adds(d, k, g))[1..k]

LEMMA AddsExists ==
  ASSUME NEW n \in Nat, NEW d, \A i \in 1..n : d[i] \in Int
  PROVE  \E g : Adds(d, n, g)
<1> DEFINE F == [p \in (1..n) \X Int |-> p[2] + d[p[1]]]
<1>1. F \in [(1..n) \X Int -> Int]
  OBVIOUS
<1>2. \A k \in 1..n, acc \in Int : F[<<k, acc>>] = acc + d[k]
  OBVIOUS
<1> HIDE DEF F
<1>3. PICK g \in [SUBSET (1..n) -> Int] : Iterates(g, n, F, 0)
  <2>1. 0 \in Int
    OBVIOUS
  <2>2. QED
    BY Zenon, <1>1, <2>1, IterationExists
<1>4. ASSUME NEW t \in SUBSET (1..n), t # {}
      PROVE  g[t] = g[t \ {Max(t)}] + d[Max(t)]
  <2>1. Max(t) \in 1..n
    BY <1>4, MaxInSubset
  <2>2. g[t \ {Max(t)}] \in Int
    BY <1>3
  <2>3. g[t] = F[<<Max(t), g[t \ {Max(t)}]>>]
    BY <1>3, <1>4 DEF Iterates
  <2>4. QED
    BY <1>2, <2>1, <2>2, <2>3
<1>5. g[{}] = 0
  BY <1>3 DEF Iterates
<1>6. Adds(d, n, g)
  BY <1>3, <1>4, <1>5 DEF Adds
<1>7. QED
  BY <1>6

(* One more element adds what it is worth. *)
LEMMA AddsStep ==
  ASSUME NEW n \in Nat, NEW d, NEW g, Adds(d, n, g)
  PROVE  g[1..0] = 0 /\ \A k \in 1..n : g[1..k] = g[1..(k - 1)] + d[k]
<1>1. \A t \in SUBSET (1..n) : g[t] = IF t = {} THEN 0 ELSE g[t \ {Max(t)}] + d[Max(t)]
  BY DEF Adds
<1>2. g[1..0] = 0
  <2>1. 1..0 = {}
    OBVIOUS
  <2>2. QED
    BY <1>1, <2>1
<1>3. ASSUME NEW k \in 1..n PROVE g[1..k] = g[1..(k - 1)] + d[k]
  <2>1. k \in Nat /\ k > 0 /\ 1..k \in SUBSET (1..n)
    OBVIOUS
  <2>2. 1..k # {} /\ Max(1..k) = k /\ (1..k) \ {k} = 1..(k - 1)
    BY <2>1, LastIndex
  <2>3. QED
    BY <1>1, <2>1, <2>2
<1>4. QED
  BY <1>2, <1>3

(* Whichever solution of the equation is chosen, and for however many      *)
(* elements, the sum of the first k is the same integer. *)
LEMMA AddsAgree ==
  ASSUME NEW n \in Nat, NEW m \in Nat, NEW d, NEW c, NEW g, NEW f, NEW k \in Nat,
         k <= n, k <= m, Adds(d, n, g), Adds(c, m, f),
         \A i \in 1..k : d[i] \in Int /\ d[i] = c[i]
  PROVE  g[1..k] = f[1..k] /\ g[1..k] \in Int
<1> DEFINE Same(i) == g[1..i] = f[1..i] /\ g[1..i] \in Int
           bad == {i \in 0..k : ~Same(i)}
<1>1. /\ g[1..0] = 0 /\ \A i \in 1..n : g[1..i] = g[1..(i - 1)] + d[i]
      /\ f[1..0] = 0 /\ \A i \in 1..m : f[1..i] = f[1..(i - 1)] + c[i]
  BY AddsStep
<1>2. Same(0)
  BY <1>1
<1>3. ASSUME NEW i \in 1..k, Same(i - 1) PROVE Same(i)
  <2>1. i \in 1..n /\ i \in 1..m
    OBVIOUS
  <2>2. g[1..i] = g[1..(i - 1)] + d[i] /\ f[1..i] = f[1..(i - 1)] + d[i] /\ d[i] \in Int
    BY <1>1, <2>1
  <2>3. QED
    BY <1>3, <2>2
<1> HIDE DEF Same
<1>4. bad = {}
  <2> SUFFICES ASSUME bad # {} PROVE FALSE
    OBVIOUS
  <2>1. bad \subseteq Nat
    OBVIOUS
  <2>2. PICK i \in bad : \A j \in bad : i <= j
    BY <2>1, NatLeast
  <2>3. i \in 1..k /\ i - 1 \in 0..k
    BY <1>2, <2>2
  <2>4. i - 1 \notin bad
    BY <2>2, <2>3
  <2>5. QED
    BY <1>3, <2>2, <2>3, <2>4
<1>5. Same(k)
  BY <1>4
<1>6. QED
  BY <1>5 DEF Same

(* Any solution gives the sum. *)
LEMMA AddsSum ==
  ASSUME NEW n \in Nat, NEW d, \A i \in 1..n : d[i] \in Int, NEW g, Adds(d, n, g)
  PROVE  g[1..n] = SumTo(d, n)
<1> DEFINE f == CHOOSE h : Adds(d, n, h)
<1>1. Adds(d, n, f)
  OBVIOUS
<1> HIDE DEF f
<1>2. n <= n /\ \A i \in 1..n : d[i] \in Int /\ d[i] = d[i]
  OBVIOUS
<1>3. g[1..n] = f[1..n]
  BY <1>1, <1>2, AddsAgree
<1>4. QED
  BY <1>3 DEF SumTo, f

LEMMA Sums ==
  ASSUME NEW n \in Nat, NEW d, \A i \in 1..n : d[i] \in Int
  PROVE  /\ SumTo(d, 0) = 0
         /\ \A k \in 0..n : SumTo(d, k) \in Int
         /\ \A k \in 1..n : SumTo(d, k) = SumTo(d, k - 1) + d[k]
<1>1. ASSUME NEW k \in 0..n PROVE Adds(d, k, CHOOSE g : Adds(d, k, g))
  <2>1. k \in Nat /\ \A i \in 1..k : d[i] \in Int
    OBVIOUS
  <2>2. QED
    BY <2>1, AddsExists
<1>2. PICK g : Adds(d, n, g)
  BY AddsExists
<1>3. ASSUME NEW k \in 0..n PROVE SumTo(d, k) = g[1..k] /\ g[1..k] \in Int
  <2>1. k \in Nat /\ k <= n /\ k <= k /\ \A i \in 1..k : d[i] \in Int /\ d[i] = d[i]
    OBVIOUS
  <2> DEFINE f == CHOOSE h : Adds(d, k, h)
  <2>2. Adds(d, k, f)
    BY <1>1
  <2> HIDE DEF f
  <2>3. g[1..k] = f[1..k] /\ g[1..k] \in Int
    BY <1>2, <2>1, <2>2, AddsAgree
  <2>4. QED
    BY <2>3 DEF SumTo, f
<1>4. g[1..0] = 0 /\ \A k \in 1..n : g[1..k] = g[1..(k - 1)] + d[k]
  BY <1>2, AddsStep
<1>5. ASSUME NEW k \in 1..n PROVE SumTo(d, k) = SumTo(d, k - 1) + d[k]
  <2>1. k \in 0..n /\ k - 1 \in 0..n
    OBVIOUS
  <2>2. QED
    BY <1>3, <1>4, <2>1
<1>6. QED
  BY <1>3, <1>4, <1>5
=============================================================================
