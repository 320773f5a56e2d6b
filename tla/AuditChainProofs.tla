-------------------------- MODULE AuditChainProofs --------------------------
(***************************************************************************)
(* Theorems about the Audit chain, for any number of writers, any entry    *)
(* ids and bodies, and any bound of the clock: first what ORDER BY and     *)
(* verify_chain do with a table, then what log_entry, its failures and an  *)
(* edit from outside make of the table.                                    *)
(***************************************************************************)
EXTENDS AuditChain, SequenceLemmas, SequenceTheorems

IsLast(rows, m) == m \in rows /\ \A q \in rows : q = m \/ Before(q, m)

-----------------------------------------------------------------------------
LEMMA TimesAreNumbers == Time \subseteq Int /\ EntryId \subseteq Int /\ 0 \in Time
  BY AuditConstants DEF Time

(* (timestamp, entry_id) orders the rows strictly and totally. *)
LEMMA BeforeOrders ==
  ASSUME NEW a, NEW b, NEW c, Stamped(a), Stamped(b), Stamped(c)
  PROVE  /\ Before(a, b) => ~Before(b, a)
         /\ Before(a, b) /\ Before(b, c) => Before(a, c)
         /\ a.id # b.id => Before(a, b) \/ Before(b, a)
<1>1. /\ a.ts \in Int /\ b.ts \in Int /\ c.ts \in Int
      /\ a.id \in Int /\ b.id \in Int /\ c.id \in Int
  BY TimesAreNumbers DEF Stamped
<1>2. QED
  BY <1>1 DEF Before

(* The CHOOSE of _last_entry_hash picks the last row, when there is one. *)
LEMMA LastHash ==
  ASSUME NEW rows, NEW m, IsLast(rows, m), \A r \in rows : Stamped(r)
  PROVE  LastEntryHash(rows) = m.hash
<1> DEFINE P(r) == \A q \in rows : q = r \/ Before(q, r)
<1>1. m \in rows /\ P(m)
  BY DEF IsLast
<1>2. \A r \in rows : P(r) => r = m
  BY <1>1, BeforeOrders
<1>3. (CHOOSE r \in rows : P(r)) = m
  BY <1>1, <1>2
<1>4. QED
  BY <1>1, <1>3 DEF LastEntryHash

(* A committed row is or precedes the last one: a last row exists after    *)
(* every append. *)
LEMMA LastAfterAppend ==
  ASSUME NEW rows, NEW s, \A r \in rows \cup {s} : Stamped(r),
         \A r \in rows : r.id # s.id,
         rows = {} \/ \E m \in rows : IsLast(rows, m)
  PROVE  \E m \in rows \cup {s} : IsLast(rows \cup {s}, m)
<1>1. CASE rows = {}
  BY <1>1 DEF IsLast
<1>2. CASE rows # {}
  <2>1. PICK m \in rows : IsLast(rows, m)
    BY <1>2
  <2>2. CASE Before(m, s)
    <3>1. \A q \in rows : Before(q, s)
      BY <2>1, <2>2, BeforeOrders DEF IsLast
    <3>2. QED
      BY <3>1 DEF IsLast
  <2>3. CASE Before(s, m)
    BY <2>1, <2>3 DEF IsLast
  <2>4. QED
    BY <2>1, <2>2, <2>3, BeforeOrders DEF IsLast
<1>3. QED
  BY <1>1, <1>2



(***************************************************************************)
(* ORDER BY timestamp, entry_id: a table of stamped rows under a primary   *)
(* key has exactly one sequence of all its rows in that order.             *)
(***************************************************************************)
Table(rows) ==
  /\ IsFiniteSet(rows)
  /\ \A r \in rows : Stamped(r)
  /\ \A r, q \in rows : r.id = q.id => r = q

Sorted(rows, s) ==
  /\ s \in [1..Cardinality(rows) -> rows]
  /\ \A i, j \in 1..Cardinality(rows) : i < j => Before(s[i], s[j])

LEMMA SubTable ==
  ASSUME NEW rows, Table(rows), NEW t \in SUBSET rows
  PROVE  Table(t)
  BY FS_Subset DEF Table

(* Sorted is what InOrder asks of its choice: no row comes before itself,  *)
(* so a sorted sequence repeats none. *)
LEMMA SortedIsAsked ==
  ASSUME NEW rows, Table(rows), NEW s
  PROVE  s \in SetToSeqs(rows) /\ IsSorted(s, Before) <=> Sorted(rows, s)
<1> DEFINE n == Cardinality(rows)
<1>1. n \in Nat
  BY FS_CardinalityType DEF Table
<1>2. s \in [1..n -> rows] => Len(s) = n
  BY <1>1, FunctionIsSeq
<1>3. ASSUME s \in [1..n -> rows], \A i, j \in 1..n : i < j => Before(s[i], s[j])
      PROVE  \A i, j \in 1..n : i # j => s[i] # s[j]
  <2>1. ASSUME NEW i \in 1..n, NEW j \in 1..n, i # j PROVE s[i] # s[j]
    <3>1. i < j \/ j < i
      BY <2>1
    <3>2. Before(s[i], s[j]) \/ Before(s[j], s[i])
      BY <1>3, <3>1
    <3>3. Stamped(s[i]) /\ Stamped(s[j])
      BY <1>3 DEF Table
    <3>4. QED
      BY <3>2, <3>3, BeforeOrders
  <2>2. QED
    BY <2>1
<1>4. SetToSeqs(rows) = {f \in [1..n -> rows] : \A i, j \in 1..n : i # j => f[i] # f[j]}
  BY DEF SetToSeqs
<1> HIDE DEF n
<1>5. ASSUME s \in [1..n -> rows]
      PROVE  IsSorted(s, Before) <=> \A i, j \in 1..n : i < j => Before(s[i], s[j])
  BY <1>2, <1>5 DEF IsSorted
<1>6. QED
  BY Zenon, <1>3, <1>4, <1>5 DEF Sorted, n

(* Every row has a place in it, and places are ordered as the rows are. *)
Places(rows, s, n) ==
  /\ n \in Nat
  /\ s \in [1..n -> rows]
  /\ \A r \in rows : \E i \in 1..n : r = s[i]
  /\ \A i, j \in 1..n : i < j <=> Before(s[i], s[j])

LEMMA SortedPlaces ==
  ASSUME NEW rows, Table(rows), NEW s, Sorted(rows, s)
  PROVE  Places(rows, s, Cardinality(rows))
<1> DEFINE n == Cardinality(rows)
<1>1. n \in Nat /\ IsFiniteSet(rows)
  BY FS_CardinalityType DEF Table
<1>2. s \in [1..n -> rows] /\ \A i, j \in 1..n : i < j => Before(s[i], s[j])
  BY DEF Sorted
<1> HIDE DEF n
<1>3. ASSUME NEW i \in 1..n, NEW j \in 1..n, Before(s[i], s[j]) PROVE i < j
  <2>1. Stamped(s[i]) /\ Stamped(s[j])
    BY <1>2 DEF Table
  <2>2. ~Before(s[j], s[i]) /\ ~Before(s[i], s[i])
    BY <1>3, <2>1, BeforeOrders
  <2>3. ~(j < i) /\ i # j
    BY <1>2, <1>3, <2>2
  <2>4. QED
    BY <2>3
<1>4. \A i, j \in 1..n : s[i] = s[j] => i = j
  <2>1. ASSUME NEW i \in 1..n, NEW j \in 1..n, s[i] = s[j], i # j PROVE FALSE
    <3>1. Stamped(s[i]) /\ (Before(s[i], s[j]) \/ Before(s[j], s[i]))
      BY <1>2, <2>1 DEF Table
    <3>2. QED
      BY <2>1, <3>1, BeforeOrders
  <2>2. QED
    BY <2>1
<1>5. Cardinality(1..n) = n
  BY <1>1, FS_Interval
<1>6. s \in Injection(1..n, rows)
  BY <1>2, <1>4 DEF Injection, IsInjective
<1>7. s \in Surjection(1..n, rows)
  BY <1>1, <1>5, <1>6, FS_Injection DEF n
<1>8. \A r \in rows : \E i \in 1..n : r = s[i]
  BY <1>7 DEF Surjection
<1>9. QED
  BY <1>1, <1>2, <1>3, <1>8 DEF n, Places

(* A row that comes after all the others goes at the end. *)
LEMMA AppendSorted ==
  ASSUME NEW rows, NEW x, Table(rows), x \notin rows, \A q \in rows : Before(q, x),
         NEW s, Sorted(rows, s)
  PROVE  Sorted(rows \cup {x}, Append(s, x))
<1> DEFINE n == Cardinality(rows)
           a == Append(s, x)
<1>1. n \in Nat /\ s \in [1..n -> rows] /\ \A i, j \in 1..n : i < j => Before(s[i], s[j])
  BY FS_CardinalityType DEF Table, Sorted
<1>2. Cardinality(rows \cup {x}) = n + 1
  BY FS_AddElement DEF Table
<1>3. s \in [1..n -> rows \cup {x}]
  BY <1>1
<1> HIDE DEF n
<1>4. /\ a \in [1..(n + 1) -> rows \cup {x}]
      /\ \A i \in 1..n : a[i] = s[i]
      /\ a[n + 1] = x
  <2>1. x \in rows \cup {x}
    OBVIOUS
  <2>2. a \in [1..(n + 1) -> rows \cup {x}]
    BY <1>1, <1>3, <2>1, AppendFunction
  <2>3. (\A i \in 1..n : a[i] = s[i]) /\ a[n + 1] = x
    BY <1>1, <1>3, <2>1, AppendFunction
  <2>4. QED
    BY <2>2, <2>3
<1> HIDE DEF a
<1>5. ASSUME NEW i \in 1..(n + 1), NEW j \in 1..(n + 1), i < j PROVE Before(a[i], a[j])
  <2>1. i \in 1..n /\ a[i] = s[i] /\ s[i] \in rows
    BY <1>1, <1>4, <1>5
  <2>2. CASE j = n + 1
    BY <1>4, <2>1, <2>2
  <2>3. CASE j # n + 1
    <3>1. j \in 1..n
      BY <1>1, <2>3
    <3>2. QED
      BY <1>1, <1>4, <1>5, <2>1, <3>1
  <2>4. QED
    BY <2>2, <2>3
<1>6. QED
  BY <1>2, <1>4, <1>5 DEF Sorted, a

(* A table that is not empty has a last row ... *)
LEMMA TableHasLast ==
  ASSUME NEW rows, Table(rows), rows # {}
  PROVE  \E m \in rows : IsLast(rows, m)
<1> DEFINE Has(t) == t = {} \/ \E m \in t : IsLast(t, m)
           bad == {c \in Nat : \E t \in SUBSET rows : Cardinality(t) = c /\ ~Has(t)}
<1> SUFFICES ASSUME ~Has(rows) PROVE FALSE
  OBVIOUS
<1>1. Cardinality(rows) \in bad
  BY FS_CardinalityType DEF Table
<1>2. PICK c \in bad : \A k \in bad : c <= k
  BY <1>1, NatLeast
<1>3. PICK t \in SUBSET rows : Cardinality(t) = c /\ ~Has(t)
  BY <1>2
<1>4. PICK x \in t : TRUE
  BY <1>3
<1>5. Table(t)
  BY SubTable
<1> DEFINE u == t \ {x}
<1>6. u \in SUBSET rows /\ Cardinality(u) = c - 1 /\ c \in Nat /\ t = u \cup {x} /\ x \notin u
  <2>1. x \in t
    BY <1>4 DEF IsLast
  <2>2. IsFiniteSet(t)
    BY <1>4, <1>5 DEF Table
  <2>3. Cardinality(u) = Cardinality(t) - 1
    BY <2>1, <2>2, FS_RemoveElement
  <2>4. QED
    BY <1>2, <1>3, <2>1, <2>3
<1> HIDE DEF u
<1>7. Has(u)
  <2>1. Cardinality(u) \in Nat
    BY <1>6, SubTable, FS_CardinalityType DEF Table
  <2>2. Cardinality(u) \notin bad
    BY <1>2, <1>6, <2>1
  <2>3. QED
    BY <1>6, <2>1, <2>2
<1>8. \A r \in u : r.id # x.id
  BY <1>5, <1>6 DEF Table
<1>9. \A r \in u \cup {x} : Stamped(r)
  BY <1>5, <1>6 DEF Table
<1>10. \E m \in u \cup {x} : IsLast(u \cup {x}, m)
  BY <1>7, <1>8, <1>9, LastAfterAppend
<1>11. QED
  BY <1>3, <1>6, <1>10

(* ... so it can be put in order, last row last ... *)
LEMMA SortedExists ==
  ASSUME NEW rows, Table(rows)
  PROVE  \E s : Sorted(rows, s)
<1> DEFINE Has(t) == \E s : Sorted(t, s)
           bad == {c \in Nat : \E t \in SUBSET rows : Cardinality(t) = c /\ ~Has(t)}
<1> SUFFICES ASSUME ~Has(rows) PROVE FALSE
  OBVIOUS
<1>1. Cardinality(rows) \in bad
  BY FS_CardinalityType DEF Table
<1>2. PICK c \in bad : \A k \in bad : c <= k
  BY <1>1, NatLeast
<1>3. PICK t \in SUBSET rows : Cardinality(t) = c /\ ~Has(t)
  BY <1>2
<1>4. Table(t)
  BY SubTable
<1>5. t # {}
  <2>1. Sorted({}, <<>>)
    <3>1. Cardinality({}) = 0 /\ 1..0 = {}
      BY FS_EmptySet
    <3>2. QED
      BY <3>1 DEF Sorted
  <2>2. QED
    BY <1>3, <2>1
<1>6. PICK m \in t : IsLast(t, m)
  BY <1>4, <1>5, TableHasLast
<1> DEFINE u == t \ {m}
<1>7. u \in SUBSET rows /\ Cardinality(u) = c - 1 /\ c \in Nat /\ t = u \cup {m} /\ m \notin u
  <2>1. m \in t
    BY <1>6 DEF IsLast
  <2>2. IsFiniteSet(t)
    BY <1>4, <1>6 DEF Table
  <2>3. Cardinality(u) = Cardinality(t) - 1
    BY <2>1, <2>2, FS_RemoveElement
  <2>4. QED
    BY <1>2, <1>3, <2>1, <2>3
<1>8. \A q \in u : Before(q, m)
  BY <1>6 DEF IsLast
<1> HIDE DEF u
<1>9. Has(u)
  <2>1. Cardinality(u) \in Nat
    BY <1>7, SubTable, FS_CardinalityType DEF Table
  <2>2. Cardinality(u) \notin bad
    BY <1>2, <1>7, <2>1
  <2>3. QED
    BY <1>7, <2>1, <2>2
<1>10. PICK s : Sorted(u, s)
  BY <1>9
<1>11. Table(u)
  BY <1>7, SubTable
<1>12. Sorted(t, Append(s, m))
  BY <1>7, <1>8, <1>10, <1>11, AppendSorted
<1>13. QED
  BY <1>3, <1>12

(* ... in one way only. *)
LEMMA SortedUnique ==
  ASSUME NEW rows, Table(rows), NEW s, NEW u, Sorted(rows, s), Sorted(rows, u)
  PROVE  s = u
<1> DEFINE n == Cardinality(rows)
           bad == {i \in 1..n : s[i] # u[i]}
<1>1. /\ n \in Nat /\ s \in [1..n -> rows] /\ u \in [1..n -> rows]
      /\ \A r \in rows : \E i \in 1..n : r = s[i]
      /\ \A r \in rows : \E i \in 1..n : r = u[i]
      /\ \A i, j \in 1..n : i < j <=> Before(s[i], s[j])
      /\ \A i, j \in 1..n : i < j <=> Before(u[i], u[j])
  <2>1. Places(rows, s, n) /\ Places(rows, u, n)
    BY SortedPlaces
  <2>2. QED
    BY <2>1 DEF Places
<1> HIDE DEF n
<1>2. bad = {}
  <2> SUFFICES ASSUME bad # {} PROVE FALSE
    OBVIOUS
  <2>1. bad \subseteq Nat
    BY <1>1
  <2>2. PICK i \in bad : \A k \in bad : i <= k
    BY <2>1, NatLeast
  <2>3. /\ i \in 1..n /\ s[i] # u[i]
        /\ \A k \in 1..n : k < i => s[k] = u[k]
    BY <1>1, <2>2
  <2>4. PICK j \in 1..n : s[i] = u[j]
    BY <1>1, <2>3
  <2>5. PICK k \in 1..n : u[i] = s[k]
    BY <1>1, <2>3
  <2>6. \A l \in 1..n : ~(l < l)
    BY <1>1
  <2>7. ~(j < i)
    <3>1. ASSUME j < i PROVE FALSE
      <4>1. s[j] = s[i] /\ Before(s[j], s[i])
        BY <1>1, <2>3, <2>4, <3>1
      <4>2. Before(s[i], s[i])
        BY <4>1
      <4>3. QED
        BY <1>1, <2>3, <2>6, <4>2
    <3>2. QED
      BY <3>1
  <2>8. ~(k < i)
    <3>1. ASSUME k < i PROVE FALSE
      <4>1. u[k] = u[i] /\ Before(u[k], u[i])
        BY <1>1, <2>3, <2>5, <3>1
      <4>2. Before(u[i], u[i])
        BY <4>1
      <4>3. QED
        BY <1>1, <2>3, <2>6, <4>2
    <3>2. QED
      BY <3>1
  <2>9. i < j /\ i < k
    BY <1>1, <2>3, <2>4, <2>5, <2>7, <2>8
  <2>10. Before(u[i], u[j]) /\ Before(s[i], s[k])
    BY <1>1, <2>3, <2>9
  <2>11. Before(s[k], s[i]) /\ Before(s[i], s[k])
    BY <2>4, <2>5, <2>10
  <2>12. k < i
    BY <1>1, <2>3, <2>11
  <2>13. QED
    BY <2>8, <2>12
<1>3. \A i \in 1..n : s[i] = u[i]
  BY <1>2
<1>4. QED
  BY <1>1, <1>3

(* The query returns that sequence. *)
LEMMA InOrderSorted ==
  ASSUME NEW rows, Table(rows)
  PROVE  Sorted(rows, InOrder(rows))
<1>1. \E s \in SetToSeqs(rows) : IsSorted(s, Before)
  BY SortedExists, SortedIsAsked
<1>2. InOrder(rows) \in SetToSeqs(rows) /\ IsSorted(InOrder(rows), Before)
  BY <1>1 DEF InOrder
<1>3. QED
  BY <1>2, SortedIsAsked

LEMMA InOrderAppend ==
  ASSUME NEW rows, NEW x, Table(rows), Table(rows \cup {x}), x \notin rows,
         \A q \in rows : Before(q, x)
  PROVE  InOrder(rows \cup {x}) = Append(InOrder(rows), x)
<1>1. Sorted(rows, InOrder(rows)) /\ Sorted(rows \cup {x}, InOrder(rows \cup {x}))
  BY InOrderSorted
<1>2. Sorted(rows \cup {x}, Append(InOrder(rows), x))
  BY <1>1, AppendSorted
<1>3. QED
  BY <1>1, <1>2, SortedUnique

-----------------------------------------------------------------------------
(***************************************************************************)
(* verify_chain is a loop over that sequence: its fold, unrolled.          *)
(***************************************************************************)
CheckRow(acc, r) == [ok   |-> acc.ok /\ r.prev = acc.prev /\ r.hash = ComputeEntryHash(r),
                     prev |-> r.hash]
FirstAcc == [ok |-> TRUE, prev |-> GenesisHash]

LEMMA CheckedRow ==
  ASSUME NEW acc, NEW r
  PROVE  /\ CheckRow(acc, r).ok <=> acc.ok /\ r.prev = acc.prev /\ r.hash = ComputeEntryHash(r)
         /\ CheckRow(acc, r).prev = r.hash
  BY DEF CheckRow

VerifyRec(s, g) ==
  g = [t \in SUBSET (DOMAIN s) |->
         IF t = {} THEN FirstAcc ELSE CheckRow(g[t \ {Max(t)}], s[Max(t)])]

LEMMA VerifyFold ==
  ASSUME NEW rows
  PROVE  VerifyChain(rows) = (CHOOSE g : VerifyRec(InOrder(rows), g))[DOMAIN InOrder(rows)].ok
  BY DEF VerifyChain, FoldLeft, MapThenFoldSet, VerifyRec, CheckRow, FirstAcc

(* The accumulators of the loop: h[k] after k rows. *)
Verifies(rows, h) ==
  LET n == Cardinality(rows) IN
  /\ h[0] = FirstAcc
  /\ \A k \in 1..n : h[k] = CheckRow(h[k - 1], InOrder(rows)[k])
  /\ VerifyChain(rows) = h[n].ok

LEMMA VerifyRecHas ==
  ASSUME NEW rows, Table(rows)
  PROVE  \E g : VerifyRec(InOrder(rows), g)
<1> DEFINE n == Cardinality(rows)
           s == InOrder(rows)
           T == [ok : BOOLEAN, prev : {GenesisHash} \cup {r.hash : r \in rows}]
           F == [p \in (1..n) \X T |-> CheckRow(p[2], s[p[1]])]
<1>1. Places(rows, s, n)
  BY InOrderSorted, SortedPlaces
<1>2. n \in Nat /\ s \in [1..n -> rows] /\ DOMAIN s = 1..n
  BY <1>1 DEF Places
<1> HIDE DEF n, s
<1>3. FirstAcc \in T
  BY DEF FirstAcc
<1>4. F \in [(1..n) \X T -> T]
  <2>1. ASSUME NEW k \in 1..n, NEW acc \in T PROVE CheckRow(acc, s[k]) \in T
    <3>1. s[k] \in rows
      BY <1>2
    <3>2. QED
      BY <3>1 DEF CheckRow
  <2>2. QED
    BY <2>1
<1>5. \A k \in 1..n, acc \in T : F[<<k, acc>>] = CheckRow(acc, s[k])
  OBVIOUS
<1> HIDE DEF F, T
<1>6. PICK g \in [SUBSET (1..n) -> T] : Iterates(g, n, F, FirstAcc)
  BY <1>2, <1>3, <1>4, IterationExists
<1>7. ASSUME NEW t \in SUBSET (1..n), t # {}
      PROVE  g[t] = CheckRow(g[t \ {Max(t)}], s[Max(t)])
  <2>1. Max(t) \in 1..n
    BY <1>2, <1>7, MaxInSubset
  <2>2. g[t \ {Max(t)}] \in T
    BY <1>6
  <2>3. g[t] = F[<<Max(t), g[t \ {Max(t)}]>>]
    BY <1>6, <1>7 DEF Iterates
  <2>4. QED
    BY <1>5, <2>1, <2>2, <2>3
<1>8. g[{}] = FirstAcc
  BY <1>6 DEF Iterates
<1>9. g = [t \in SUBSET (1..n) |->
             IF t = {} THEN FirstAcc ELSE CheckRow(g[t \ {Max(t)}], s[Max(t)])]
  BY <1>6, <1>7, <1>8
<1>10. VerifyRec(s, g)
  BY <1>2, <1>9 DEF VerifyRec
<1>11. QED
  BY <1>10 DEF s

LEMMA VerifyLoop ==
  ASSUME NEW rows, Table(rows)
  PROVE  \E h : Verifies(rows, h)
<1> DEFINE n == Cardinality(rows)
           s == InOrder(rows)
           g == CHOOSE f : VerifyRec(s, f)
           h == [k \in 0..n |-> g[1..k]]
<1>1. Places(rows, s, n)
  BY InOrderSorted, SortedPlaces
<1>2. n \in Nat /\ s \in [1..n -> rows] /\ DOMAIN s = 1..n
  BY <1>1 DEF Places
<1>3. VerifyRec(s, g)
  BY VerifyRecHas
<1>4. VerifyChain(rows) = g[1..n].ok
  BY <1>2, VerifyFold
<1> HIDE DEF n, s, g
<1>5. \A t \in SUBSET (1..n) :
         g[t] = IF t = {} THEN FirstAcc ELSE CheckRow(g[t \ {Max(t)}], s[Max(t)])
  BY <1>2, <1>3 DEF VerifyRec
<1>6. h[0] = FirstAcc
  <2>1. 1..0 = {} /\ 0 \in 0..n
    BY <1>2
  <2>2. QED
    BY <1>5, <2>1
<1>7. ASSUME NEW k \in 1..n PROVE h[k] = CheckRow(h[k - 1], s[k])
  <2>1. 1..k # {} /\ Max(1..k) = k /\ (1..k) \ {k} = 1..(k - 1)
    <3>1. k \in Nat /\ k > 0
      BY <1>2
    <3>2. QED
      BY <3>1, LastIndex
  <2>2. 1..k \in SUBSET (1..n) /\ k \in 0..n /\ k - 1 \in 0..n
    BY <1>2
  <2>3. g[1..k] = CheckRow(g[1..(k - 1)], s[k])
    BY <1>5, <2>1, <2>2
  <2>4. QED
    BY <2>2, <2>3
<1>8. VerifyChain(rows) = h[n].ok
  BY <1>2, <1>4
<1> HIDE DEF h
<1>9. Verifies(rows, h)
  BY <1>6, <1>7, <1>8 DEF Verifies, n, s
<1>10. QED
  BY <1>9

(* The row in place i carries its digest and the hash of the row before. *)
Good(s, i) ==
  /\ s[i].hash = ComputeEntryHash(s[i])
  /\ s[i].prev = IF i = 1 THEN GenesisHash ELSE s[i - 1].hash

LEMMA VerifyMeansGood ==
  ASSUME NEW rows, Table(rows)
  PROVE  VerifyChain(rows) <=> \A i \in 1..Cardinality(rows) : Good(InOrder(rows), i)
<1> DEFINE n == Cardinality(rows)
           s == InOrder(rows)
<1>1. PICK h : Verifies(rows, h)
  BY VerifyLoop
<1>2. /\ h[0] = FirstAcc
      /\ \A k \in 1..n : h[k] = CheckRow(h[k - 1], s[k])
      /\ VerifyChain(rows) = h[n].ok
  BY <1>1 DEF Verifies
<1>3. n \in Nat
  BY FS_CardinalityType DEF Table
<1> DEFINE Fits(k) == /\ h[k].ok <=> \A i \in 1..k : Good(s, i)
                      /\ h[k].prev = IF k = 0 THEN GenesisHash ELSE s[k].hash
           bad == {k \in 0..n : ~Fits(k)}
<1> HIDE DEF n, s
<1>4. Fits(0)
  BY <1>2 DEF FirstAcc
<1>5. ASSUME NEW k \in 1..n, Fits(k - 1) PROVE Fits(k)
  <2>1. /\ h[k].ok <=> h[k - 1].ok /\ s[k].prev = h[k - 1].prev
                         /\ s[k].hash = ComputeEntryHash(s[k])
        /\ h[k].prev = s[k].hash
    <3>1. h[k] = CheckRow(h[k - 1], s[k])
      BY <1>2
    <3>2. QED
      BY <3>1, CheckedRow
  <2>2. h[k - 1].prev = IF k = 1 THEN GenesisHash ELSE s[k - 1].hash
    BY <1>3, <1>5
  <2>3. h[k].ok <=> h[k - 1].ok /\ Good(s, k)
    BY <2>1, <2>2 DEF Good
  <2>4. 1..k = (1..(k - 1)) \cup {k} /\ k # 0
    BY <1>3
  <2>5. h[k].ok <=> \A i \in 1..k : Good(s, i)
    BY <1>5, <2>3, <2>4
  <2>6. QED
    BY <2>1, <2>4, <2>5
<1> HIDE DEF Fits
<1>6. bad = {}
  <2> SUFFICES ASSUME bad # {} PROVE FALSE
    OBVIOUS
  <2>1. bad \subseteq Nat
    BY <1>3
  <2>2. PICK k \in bad : \A j \in bad : k <= j
    BY <2>1, NatLeast
  <2>3. k \in 1..n /\ k - 1 \in 0..n
    BY <1>3, <1>4, <2>2
  <2>4. k - 1 \notin bad
    BY <2>2, <2>3
  <2>5. QED
    BY <1>5, <2>2, <2>3, <2>4
<1>7. Fits(n)
  BY <1>3, <1>6
<1>8. QED
  BY <1>2, <1>7 DEF Fits, n, s

(* In a sorted table the row just before the one in place i is that in     *)
(* place i-1, and only the first has none before it. *)
LEMMA ChainInPlaces ==
  ASSUME NEW rows, Table(rows)
  PROVE  ChainIntact(rows) <=> \A i \in 1..Cardinality(rows) : Good(InOrder(rows), i)
<1> DEFINE n == Cardinality(rows)
           s == InOrder(rows)
           Link(r) == \/ r.prev = GenesisHash /\ \A q \in rows : ~Before(q, r)
                      \/ \E q \in rows : JustBefore(rows, q, r) /\ r.prev = q.hash
<1>1. Places(rows, s, n)
  BY InOrderSorted, SortedPlaces
<1> HIDE DEF n, s
<1>2. /\ n \in Nat /\ s \in [1..n -> rows]
      /\ \A r \in rows : \E i \in 1..n : r = s[i]
      /\ \A i, j \in 1..n : i < j <=> Before(s[i], s[j])
  BY <1>1 DEF Places
<1>3. ASSUME NEW i \in 1..n
      PROVE  (\A q \in rows : ~Before(q, s[i])) <=> i = 1
  <2>1. ASSUME i = 1, NEW q \in rows, Before(q, s[i]) PROVE FALSE
    <3>1. PICK j \in 1..n : q = s[j]
      BY <1>2
    <3>2. j < 1
      BY <1>2, <2>1, <3>1
    <3>3. QED
      BY <1>2, <3>2
  <2>2. ASSUME i # 1 PROVE \E q \in rows : Before(q, s[i])
    <3>1. 1 \in 1..n /\ 1 < i
      BY <1>2, <2>2
    <3>2. s[1] \in rows /\ Before(s[1], s[i])
      BY <1>2, <3>1
    <3>3. QED
      BY <3>2
  <2>3. QED
    BY <2>1, <2>2
<1>4. ASSUME NEW i \in 1..n, NEW j \in 1..n
      PROVE  JustBefore(rows, s[j], s[i]) <=> j = i - 1
  <2>1. ASSUME JustBefore(rows, s[j], s[i]) PROVE j = i - 1
    <3>1. j < i
      BY <1>2, <2>1 DEF JustBefore
    <3>2. ASSUME j + 1 < i PROVE FALSE
      <4>1. j + 1 \in 1..n /\ j < j + 1
        BY <1>2, <3>2
      <4>2. Before(s[j], s[j + 1]) /\ Before(s[j + 1], s[i]) /\ s[j + 1] \in rows
        BY <1>2, <3>2, <4>1
      <4>3. QED
        BY <2>1, <4>2 DEF JustBefore
    <3>3. QED
      BY <1>2, <3>1, <3>2
  <2>2. ASSUME j = i - 1 PROVE JustBefore(rows, s[j], s[i])
    <3>1. Before(s[j], s[i])
      BY <1>2, <2>2
    <3>2. ASSUME NEW q \in rows, Before(s[j], q), Before(q, s[i]) PROVE FALSE
      <4>1. PICK k \in 1..n : q = s[k]
        BY <1>2
      <4>2. j < k /\ k < i
        BY <1>2, <3>2, <4>1
      <4>3. QED
        BY <1>2, <2>2, <4>2
    <3>3. QED
      BY <3>1, <3>2 DEF JustBefore
  <2>3. QED
    BY <2>1, <2>2
<1>5. ASSUME NEW i \in 1..n
      PROVE  Link(s[i]) <=> s[i].prev = IF i = 1 THEN GenesisHash ELSE s[i - 1].hash
  <2>1. CASE i = 1
    <3>1. ~\E q \in rows : JustBefore(rows, q, s[i])
      BY <1>3, <2>1 DEF JustBefore
    <3>2. QED
      BY <1>3, <2>1, <3>1
  <2>2. CASE i # 1
    <3>1. i - 1 \in 1..n /\ s[i - 1] \in rows /\ JustBefore(rows, s[i - 1], s[i])
      BY <1>2, <1>4, <2>2
    <3>2. \A q \in rows : JustBefore(rows, q, s[i]) => q = s[i - 1]
      BY <1>2, <1>4
    <3>3. QED
      BY <1>3, <2>2, <3>1, <3>2
  <2>3. QED
    BY <2>1, <2>2
<1>6. ChainIntact(rows) <=> \A i \in 1..n : s[i].hash = ComputeEntryHash(s[i]) /\ Link(s[i])
  BY <1>2 DEF ChainIntact
<1>7. QED
  BY <1>5, <1>6 DEF Good, n, s

(* What verify_chain computes is what it promises, for every table. *)
LEMMA VerifyIsIntact ==
  ASSUME NEW rows, Table(rows)
  PROVE  VerifyChain(rows) <=> ChainIntact(rows)
  BY VerifyMeansGood, ChainInPlaces

-----------------------------------------------------------------------------
(***************************************************************************)
(* What the table and the drafts are in every state, edited rows included. *)
(***************************************************************************)

(* Rows, drafts and exports are records of the expected fields. *)
IsRow(r) == r = [id |-> r.id, ts |-> r.ts, body |-> r.body, prev |-> r.prev, hash |-> r.hash]

Shape ==
  /\ \A r \in audit : IsRow(r)
  /\ draft = [w \in Writer |-> draft[w]]
  /\ \A w \in Writer : draft[w] = [id |-> draft[w].id, ts |-> draft[w].ts,
                                   body |-> draft[w].body, prev |-> draft[w].prev]
  /\ export = [e \in Exporter |-> export[e]]
  /\ \A e \in Exporter :
       export[e] = [state |-> export[e].state, verified |-> export[e].verified,
                    rows |-> export[e].rows]

(* No two live log_entry calls share an id, and none has a committed one. *)
FreshIds ==
  \A w \in Writer : pc[w] # "idle" =>
    /\ \A r \in audit : r.id # draft[w].id
    /\ \A v \in Writer : pc[v] # "idle" /\ draft[v].id = draft[w].id => v = w

TableInv == TypeOK /\ Shape /\ FreshIds /\ Table(audit)

LEMMA TableInit == Init => TableInv
<1> SUFFICES ASSUME Init PROVE TableInv
  OBVIOUS
<1>1. TypeOK
  BY TimesAreNumbers DEF Init, TypeOK
<1>2. Shape /\ FreshIds
  BY DEF Init, Shape, FreshIds, NoDraft
<1>3. Table(audit)
  BY FS_EmptySet DEF Init, Table
<1>4. QED
  BY <1>1, <1>2, <1>3 DEF TableInv

LEMMA TableStart ==
  ASSUME TableInv, NEW w \in Writer, StartEntry(w)
  PROVE  TableInv'
<1>1. PICK id \in EntryId \ UsedIds, d \in ClockStep, b \in Body :
        /\ clock + d \in Time
        /\ clock' = clock + d
        /\ draft' = [draft EXCEPT ![w] = [id |-> id, ts |-> clock + d, body |-> b,
                                          prev |-> GenesisHash]]
  BY DEF StartEntry
<1>2. /\ pc' = [pc EXCEPT ![w] = "stamped"] /\ pc[w] = "idle"
      /\ audit' = audit /\ export' = export /\ tampered' = tampered
  BY DEF StartEntry
<1>3. /\ draft'[w] = [id |-> id, ts |-> clock + d, body |-> b, prev |-> GenesisHash]
      /\ \A v \in Writer : v # w => draft'[v] = draft[v]
      /\ draft' = [v \in Writer |-> draft'[v]]
  BY <1>1 DEF TableInv, Shape
<1>4. /\ pc'[w] = "stamped" /\ \A v \in Writer : v # w => pc'[v] = pc[v]
      /\ pc' \in [Writer -> {"idle", "stamped", "linked"}]
  BY <1>2 DEF TableInv, TypeOK
<1>5. TypeOK'
  BY <1>1, <1>2, <1>3, <1>4 DEF TableInv, TypeOK, Stamped
<1>6. Shape'
  BY <1>2, <1>3 DEF TableInv, Shape, IsRow
<1>7. FreshIds'
  BY <1>1, <1>2, <1>3, <1>4 DEF TableInv, FreshIds, UsedIds
<1>8. Table(audit)'
  BY <1>2 DEF TableInv, Table, Stamped
<1>9. QED
  BY <1>5, <1>6, <1>7, <1>8 DEF TableInv

LEMMA TableRead ==
  ASSUME TableInv, NEW w \in Writer, ReadLastHash(w)
  PROVE  TableInv'
<1> DEFINE h == LastEntryHash(audit)
<1>1. /\ pc' = [pc EXCEPT ![w] = "linked"] /\ pc[w] = "stamped"
      /\ UNCHANGED <<audit, clock, export, tampered>>
  BY DEF ReadLastHash
<1>2. /\ draft'[w] = [id |-> draft[w].id, ts |-> draft[w].ts, body |-> draft[w].body,
                      prev |-> h]
      /\ \A v \in Writer : v # w => draft'[v] = draft[v]
      /\ draft' = [v \in Writer |-> draft'[v]]
  <2>1. draft' = [draft EXCEPT ![w] = [draft[w] EXCEPT !.prev = h]]
    BY DEF ReadLastHash
  <2>2. draft[w] = [id |-> draft[w].id, ts |-> draft[w].ts, body |-> draft[w].body,
                    prev |-> draft[w].prev]
    BY DEF TableInv, Shape
  <2>3. [draft[w] EXCEPT !.prev = h] = [id |-> draft[w].id, ts |-> draft[w].ts,
                                        body |-> draft[w].body, prev |-> h]
    BY <2>2
  <2>4. QED
    BY <2>1, <2>3 DEF TableInv, Shape
<1>3. /\ pc'[w] = "linked" /\ \A v \in Writer : v # w => pc'[v] = pc[v]
      /\ pc' \in [Writer -> {"idle", "stamped", "linked"}]
  BY <1>1 DEF TableInv, TypeOK
<1>4. TypeOK' /\ Shape'
  BY <1>1, <1>2, <1>3 DEF TableInv, TypeOK, Shape, Stamped, IsRow
<1>5. FreshIds'
  BY <1>1, <1>2, <1>3 DEF TableInv, FreshIds
<1>6. Table(audit)'
  BY <1>1 DEF TableInv, Table, Stamped
<1>7. QED
  BY <1>4, <1>5, <1>6 DEF TableInv

(* What a commit adds is the sealed draft of its writer. *)
LEMMA SealedFields ==
  ASSUME NEW d
  PROVE  /\ Sealed(d).id = d.id /\ Sealed(d).ts = d.ts /\ Sealed(d).body = d.body
         /\ Sealed(d).prev = d.prev /\ Sealed(d).hash = ComputeEntryHash(Sealed(d))
         /\ IsRow(Sealed(d))
  BY DEF Sealed, ComputeEntryHash, CanonicalFields, IsRow

(* A writer that ends, by commit or by abort, leaves the live drafts fewer. *)
LEMMA EndEntry ==
  ASSUME TableInv, NEW w \in Writer,
         pc' = [pc EXCEPT ![w] = "idle"], draft' = [draft EXCEPT ![w] = NoDraft],
         UNCHANGED <<clock, export, tampered>>, \A r \in audit' : IsRow(r)
  PROVE  /\ \A v \in Writer : pc'[v] # "idle" =>
               v # w /\ pc'[v] = pc[v] /\ draft'[v] = draft[v]
         /\ pc' \in [Writer -> {"idle", "stamped", "linked"}]
         /\ Shape'
<1>1. /\ pc'[w] = "idle" /\ \A v \in Writer : v # w => pc'[v] = pc[v]
      /\ pc' \in [Writer -> {"idle", "stamped", "linked"}]
  BY DEF TableInv, TypeOK
<1>2. /\ draft'[w] = NoDraft /\ \A v \in Writer : v # w => draft'[v] = draft[v]
      /\ draft' = [v \in Writer |-> draft'[v]]
  BY DEF TableInv, Shape
<1>3. QED
  BY <1>1, <1>2 DEF TableInv, Shape, NoDraft

LEMMA TableCommit ==
  ASSUME TableInv, NEW w \in Writer, CommitEntry(w)
  PROVE  TableInv'
<1> DEFINE s == Sealed(draft[w])
<1>1. /\ audit' = audit \cup {s} /\ pc[w] = "linked"
      /\ pc' = [pc EXCEPT ![w] = "idle"] /\ draft' = [draft EXCEPT ![w] = NoDraft]
      /\ UNCHANGED <<clock, export, tampered>>
  BY DEF CommitEntry
<1>2. /\ s.id = draft[w].id /\ s.ts = draft[w].ts /\ s.body = draft[w].body
      /\ s.prev = draft[w].prev /\ s.hash = ComputeEntryHash(s)
      /\ IsRow(s)
  BY SealedFields
<1> HIDE DEF s
<1>3. \A r \in audit' : IsRow(r)
  BY <1>1, <1>2 DEF TableInv, Shape
<1>4. /\ \A v \in Writer : pc'[v] # "idle" =>
               v # w /\ pc'[v] = pc[v] /\ draft'[v] = draft[v]
      /\ pc' \in [Writer -> {"idle", "stamped", "linked"}]
      /\ Shape'
  BY <1>1, <1>3, EndEntry
<1>5. TypeOK'
  BY <1>1, <1>2, <1>4 DEF TableInv, TypeOK, Stamped
<1>6. \A r \in audit : r.id # s.id
  BY <1>1, <1>2 DEF TableInv, FreshIds
<1>7. FreshIds'
  BY <1>1, <1>2, <1>4 DEF TableInv, FreshIds
<1>8. Table(audit')
  <2>1. IsFiniteSet(audit')
    BY <1>1, FS_AddElement DEF TableInv, Table
  <2>2. \A r \in audit' : Stamped(r)
    BY <1>5 DEF TypeOK
  <2>3. QED
    BY <1>1, <1>6, <2>1, <2>2 DEF TableInv, Table
<1>9. QED
  BY <1>4, <1>5, <1>7, <1>8 DEF TableInv

LEMMA TableAbort ==
  ASSUME TableInv, NEW w \in Writer, AbortEntry(w)
  PROVE  TableInv'
<1>1. /\ audit' = audit
      /\ pc' = [pc EXCEPT ![w] = "idle"] /\ draft' = [draft EXCEPT ![w] = NoDraft]
      /\ UNCHANGED <<clock, export, tampered>>
  BY DEF AbortEntry
<1>2. /\ \A v \in Writer : pc'[v] # "idle" =>
               v # w /\ pc'[v] = pc[v] /\ draft'[v] = draft[v]
      /\ pc' \in [Writer -> {"idle", "stamped", "linked"}]
      /\ Shape'
  BY <1>1, EndEntry DEF TableInv, Shape
<1>3. TypeOK' /\ FreshIds'
  BY <1>1, <1>2 DEF TableInv, TypeOK, FreshIds, Stamped
<1>4. Table(audit)'
  BY <1>1 DEF TableInv, Table, Stamped
<1>5. QED
  BY <1>2, <1>3, <1>4 DEF TableInv

(* What the two queries of an export record. *)
LEMMA ExportFields ==
  ASSUME TableInv, NEW e \in Exporter, ExportVerify(e) \/ ExportRead(e)
  PROVE  /\ export' = [x \in Exporter |-> export'[x]]
         /\ \A x \in Exporter : x # e => export'[x] = export[x]
         /\ export'[e] = [state |-> export'[e].state, verified |-> export'[e].verified,
                          rows |-> export'[e].rows]
         /\ ExportVerify(e) =>
              /\ export'[e].state = IF VerifyChain(audit) THEN "verified" ELSE "refused"
              /\ export'[e].verified = audit
         /\ ExportRead(e) =>
              /\ export[e].state = "verified" /\ export'[e].state = "done"
              /\ export'[e].verified = export[e].verified /\ export'[e].rows = audit
<1>1. CASE ExportVerify(e)
  <2> DEFINE a == IF VerifyChain(audit) THEN "verified" ELSE "refused"
  <2>1. export' = [export EXCEPT ![e] = [state |-> a, verified |-> audit, rows |-> {}]]
    BY <1>1 DEF ExportVerify
  <2>2. ~ExportRead(e)
    BY <1>1 DEF ExportVerify, ExportRead
  <2> HIDE DEF a
  <2>3. export'[e].state = a /\ export'[e].verified = audit
    BY <2>1 DEF TableInv, Shape
  <2>4. QED
    BY <2>1, <2>2, <2>3 DEF TableInv, Shape, a
<1>2. CASE ExportRead(e)
  <2>1. /\ export[e].state = "verified"
        /\ export' = [export EXCEPT ![e] = [state |-> "done", verified |-> export[e].verified,
                                           rows |-> audit]]
    BY <1>2 DEF ExportRead
  <2>2. ~ExportVerify(e)
    BY <2>1 DEF ExportVerify
  <2>3. QED
    BY <1>2, <2>1, <2>2 DEF TableInv, Shape
<1>3. QED
  BY <1>1, <1>2

LEMMA TableExport ==
  ASSUME TableInv, NEW e \in Exporter, ExportVerify(e) \/ ExportRead(e)
  PROVE  TableInv'
<1>1. UNCHANGED <<audit, clock, pc, draft, tampered>>
  BY DEF ExportVerify, ExportRead
<1>2. /\ export' = [x \in Exporter |-> export'[x]]
      /\ \A x \in Exporter : x # e => export'[x] = export[x]
      /\ export'[e] = [state |-> export'[e].state, verified |-> export'[e].verified,
                       rows |-> export'[e].rows]
      /\ export'[e].state \in {"verified", "refused", "done"}
  BY ExportFields
<1>3. TypeOK' /\ Shape'
  BY <1>1, <1>2 DEF TableInv, TypeOK, Shape, Stamped, IsRow
<1>4. FreshIds' /\ Table(audit)'
  BY <1>1 DEF TableInv, FreshIds, Table, Stamped
<1>5. QED
  BY <1>3, <1>4 DEF TableInv

(* An edit moves or changes one row and leaves it its id. *)
Edited(r, e) ==
  /\ audit' = (audit \ {r}) \cup {e} /\ e # r
  /\ e.id = r.id /\ Stamped(e) /\ IsRow(e)
  /\ \/ e.hash = r.hash
     \/ e.ts = r.ts /\ e.body = r.body /\ e.prev = r.prev /\ e.hash # r.hash

LEMMA EditedRow ==
  ASSUME TableInv, EditRow
  PROVE  \E r \in audit : \E e : Edited(r, e)
<1>1. PICK r \in audit :
        \E edited \in {[r EXCEPT !.ts = t] : t \in Time}
                      \cup {[r EXCEPT !.body = b] : b \in Body}
                      \cup {[r EXCEPT !.prev = q.hash] : q \in audit}
                      \cup {[r EXCEPT !.hash = q.prev] : q \in audit} :
          edited # r /\ audit' = (audit \ {r}) \cup {edited}
  BY DEF EditRow
<1>2. PICK e : /\ audit' = (audit \ {r}) \cup {e} /\ e # r
               /\ \/ \E t \in Time : e = [r EXCEPT !.ts = t]
                  \/ \E b \in Body : e = [r EXCEPT !.body = b]
                  \/ \E p : e = [r EXCEPT !.prev = p]
                  \/ \E h : e = [r EXCEPT !.hash = h]
  BY <1>1
<1>3. IsRow(r) /\ Stamped(r)
  BY DEF TableInv, Shape, TypeOK
<1>4. /\ e.id = r.id /\ Stamped(e) /\ IsRow(e)
      /\ \/ e.hash = r.hash
         \/ e.ts = r.ts /\ e.body = r.body /\ e.prev = r.prev /\ e.hash # r.hash
  <2>1. CASE \E t \in Time : e = [r EXCEPT !.ts = t]
    BY <1>3, <2>1 DEF IsRow, Stamped
  <2>2. CASE \E b \in Body : e = [r EXCEPT !.body = b]
    BY <1>3, <2>2 DEF IsRow, Stamped
  <2>3. CASE \E p : e = [r EXCEPT !.prev = p]
    BY <1>3, <2>3 DEF IsRow, Stamped
  <2>4. CASE \E h : e = [r EXCEPT !.hash = h]
    BY <1>2, <1>3, <2>4 DEF IsRow, Stamped
  <2>5. QED
    BY <1>2, <2>1, <2>2, <2>3, <2>4
<1>5. QED
  BY <1>2, <1>4 DEF Edited

LEMMA TableEdit ==
  ASSUME TableInv, EditRow
  PROVE  TableInv'
<1>1. PICK r \in audit : \E e : Edited(r, e)
  BY EditedRow
<1>2. PICK e : Edited(r, e)
  BY <1>1
<1>3. UNCHANGED <<clock, pc, draft, export>> /\ tampered' = TRUE
  BY DEF EditRow
<1>4. TypeOK' /\ Shape' /\ FreshIds'
  BY <1>2, <1>3 DEF Edited, TableInv, TypeOK, Shape, FreshIds
<1>5. IsFiniteSet(audit')
  BY <1>2, FS_RemoveElement, FS_AddElement DEF Edited, TableInv, Table
<1>6. Table(audit')
  BY <1>2, <1>4, <1>5 DEF Edited, TableInv, TypeOK, Table
<1>7. QED
  BY <1>4, <1>6 DEF TableInv

LEMMA TableStep == TableInv /\ [TamperNext]_vars => TableInv'
<1> SUFFICES ASSUME TableInv, [TamperNext]_vars PROVE TableInv'
  OBVIOUS
<1>1. CASE UNCHANGED vars
  BY <1>1 DEF vars, TableInv, TypeOK, Shape, FreshIds, Stamped, Table, IsRow
<1>2. CASE Next
  BY <1>2, TableStart, TableRead, TableCommit, TableAbort, TableExport DEF Next
<1>3. QED
  BY <1>1, <1>2, TableEdit DEF TamperNext

THEOREM TableInvariant == TamperSpec => []TableInv
<1>1. QED
  BY TableInit, TableStep, PTL DEF TamperSpec

(* Rows and live drafts stay inside their domains, whatever interleaves    *)
(* and whichever row is edited. *)
THEOREM AuditTyped == TamperSpec => []TypeOK
<1>1. TableInv => TypeOK
  BY DEF TableInv
<1>2. QED
  BY <1>1, TableInvariant, PTL

(* In every state, edited or not, verify_chain answers TRUE exactly when   *)
(* each row carries its digest and the hash of the row just before it in   *)
(* time, and the first the genesis hash: what its docstring says.          *)
THEOREM VerifyTellsIntact == TamperSpec => []VerifyMeansIntact
<1>1. TableInv => VerifyMeansIntact
  BY VerifyIsIntact DEF TableInv, VerifyMeansIntact
<1>2. QED
  BY <1>1, TableInvariant, PTL

-----------------------------------------------------------------------------
(***************************************************************************)
(* Links: until a row is edited, none dangles.                             *)
(***************************************************************************)

(* The hash a writer has read is that of a row that stays in the table. *)
LinksCommitted ==
  \A w \in Writer : pc[w] = "linked" =>
    draft[w].prev = GenesisHash \/ \E q \in audit : draft[w].prev = q.hash

LinkInv == TableInv /\ LinksCommitted /\ Rooted

LEMMA LastEntryIsRow ==
  ASSUME NEW rows, Table(rows)
  PROVE  LastEntryHash(rows) = GenesisHash \/ \E q \in rows : LastEntryHash(rows) = q.hash
<1>1. CASE rows = {}
  BY <1>1 DEF LastEntryHash
<1>2. CASE rows # {}
  BY <1>2, TableHasLast, LastHash DEF Table, IsLast
<1>3. QED
  BY <1>1, <1>2

LEMMA LinkInit == Init => LinkInv
<1>1. Init => LinksCommitted /\ Rooted
  BY DEF Init, LinksCommitted, Rooted
<1>2. QED
  BY <1>1, TableInit DEF LinkInv

LEMMA LinkRead ==
  ASSUME LinkInv, NEW w \in Writer, ReadLastHash(w)
  PROVE  LinksCommitted'
<1> DEFINE h == LastEntryHash(audit)
<1>1. h = GenesisHash \/ \E q \in audit : h = q.hash
  BY LastEntryIsRow DEF LinkInv, TableInv
<1> HIDE DEF h
<1>2. draft' = [draft EXCEPT ![w] = [draft[w] EXCEPT !.prev = h]] /\ audit' = audit
      /\ pc' = [pc EXCEPT ![w] = "linked"]
  BY DEF ReadLastHash, h
<1>3. draft[w] = [id |-> draft[w].id, ts |-> draft[w].ts, body |-> draft[w].body,
                  prev |-> draft[w].prev]
  BY DEF LinkInv, TableInv, Shape
<1>4. draft'[w].prev = h /\ \A v \in Writer : v # w => draft'[v] = draft[v] /\ pc'[v] = pc[v]
  <2>1. draft'[w] = [draft[w] EXCEPT !.prev = h]
    BY <1>2 DEF LinkInv, TableInv, Shape
  <2>2. draft'[w].prev = h
    BY <1>3, <2>1
  <2>3. QED
    BY <1>2, <2>2 DEF LinkInv, TableInv, TypeOK, Shape
<1>5. QED
  BY <1>1, <1>2, <1>4 DEF LinkInv, LinksCommitted

(* The commit of a linked draft: its row is one of its own digest. *)
LEMMA LinkCommit ==
  ASSUME LinkInv, NEW w \in Writer, CommitEntry(w)
  PROVE  LinksCommitted' /\ Rooted'
<1> DEFINE s == Sealed(draft[w])
<1>1. /\ audit' = audit \cup {s} /\ pc[w] = "linked"
      /\ pc' = [pc EXCEPT ![w] = "idle"] /\ draft' = [draft EXCEPT ![w] = NoDraft]
  BY DEF CommitEntry
<1>2. s.prev = draft[w].prev /\ s.hash = ComputeEntryHash(s)
  BY SealedFields
<1> HIDE DEF s
<1>3. \A v \in Writer : pc'[v] = "linked" => pc[v] = "linked" /\ draft'[v] = draft[v]
  BY <1>1 DEF LinkInv, TableInv, TypeOK, Shape
<1>4. LinksCommitted'
  BY <1>1, <1>3 DEF LinkInv, LinksCommitted
<1>5. \A r, q \in audit' : r.id = q.id => r = q
  BY TableCommit DEF LinkInv, TableInv, Table
<1>6. Rooted'
  BY <1>1, <1>2, <1>5 DEF LinkInv, LinksCommitted, Rooted
<1>7. QED
  BY <1>4, <1>6

LEMMA LinkStep == LinkInv /\ [Next]_vars => LinkInv'
<1> SUFFICES ASSUME LinkInv, [Next]_vars PROVE LinksCommitted' /\ Rooted'
  BY TableStep DEF LinkInv, TamperNext
<1>1. CASE UNCHANGED vars
  BY <1>1 DEF vars, LinkInv, LinksCommitted, Rooted
<1>2. ASSUME NEW w \in Writer, StartEntry(w) \/ AbortEntry(w)
      PROVE  LinksCommitted' /\ Rooted'
  <2>1. /\ audit' = audit
        /\ \A v \in Writer : pc'[v] = "linked" => pc[v] = "linked" /\ draft'[v] = draft[v]
    BY <1>2 DEF StartEntry, AbortEntry, LinkInv, TableInv, TypeOK, Shape
  <2>2. QED
    BY <2>1 DEF LinkInv, LinksCommitted, Rooted
<1>3. ASSUME NEW w \in Writer, ReadLastHash(w) PROVE LinksCommitted' /\ Rooted'
  <2>1. audit' = audit
    BY <1>3 DEF ReadLastHash
  <2>2. QED
    BY <1>3, <2>1, LinkRead DEF LinkInv, Rooted
<1>4. ASSUME NEW e \in Exporter, ExportVerify(e) \/ ExportRead(e)
      PROVE  LinksCommitted' /\ Rooted'
  BY <1>4 DEF ExportVerify, ExportRead, LinkInv, LinksCommitted, Rooted
<1>5. CASE Next
  BY <1>2, <1>3, <1>4, <1>5, LinkCommit DEF Next
<1>6. QED
  BY <1>1, <1>5

THEOREM LinkInvariant == Spec => []LinkInv
<1>1. QED
  BY LinkInit, LinkStep, PTL DEF Spec

-----------------------------------------------------------------------------
(***************************************************************************)
(* Tampering: the edit breaks the digest of the row it touches, and no     *)
(* later step of the program touches that row again.                       *)
(***************************************************************************)
Broken(rows) == \E r \in rows : r.hash # ComputeEntryHash(r)

EvidenceInv == TableInv /\ (~tampered => LinkInv) /\ (tampered => Broken(audit))

LEMMA EditBreaks ==
  ASSUME LinkInv, EditRow
  PROVE  Broken(audit')
<1>1. PICK r \in audit : \E e : Edited(r, e)
  BY EditedRow DEF LinkInv
<1>2. PICK e : Edited(r, e)
  BY <1>1
<1>3. r.hash = ComputeEntryHash(r) /\ IsRow(r)
  BY DEF LinkInv, Rooted, TableInv, Shape
<1>4. e.hash # ComputeEntryHash(e)
  <2>1. CASE e.hash = r.hash
    <3>1. e.ts # r.ts \/ e.body # r.body \/ e.prev # r.prev
      BY <1>2, <1>3, <2>1 DEF Edited, IsRow
    <3>2. ComputeEntryHash(e) # ComputeEntryHash(r)
      BY <3>1 DEF ComputeEntryHash, CanonicalFields
    <3>3. QED
      BY <1>3, <2>1, <3>2
  <2>2. CASE e.ts = r.ts /\ e.body = r.body /\ e.prev = r.prev /\ e.hash # r.hash
    BY <1>2, <1>3, <2>2 DEF Edited, ComputeEntryHash, CanonicalFields
  <2>3. QED
    BY <1>2, <2>1, <2>2 DEF Edited
<1>5. QED
  BY <1>2, <1>4 DEF Edited, Broken

(* The program itself never removes or changes a row. *)
LEMMA RowsStay ==
  ASSUME [Next]_vars
  PROVE  audit \subseteq audit' /\ tampered' = tampered
  BY DEF Next, StartEntry, ReadLastHash, CommitEntry, AbortEntry, ExportVerify, ExportRead, vars

LEMMA EvidenceStep == EvidenceInv /\ [TamperNext]_vars => EvidenceInv'
<1> SUFFICES ASSUME EvidenceInv, [TamperNext]_vars PROVE EvidenceInv'
  OBVIOUS
<1>1. TableInv'
  BY TableStep DEF EvidenceInv
<1>2. CASE [Next]_vars
  <2>1. audit \subseteq audit' /\ tampered' = tampered
    BY <1>2, RowsStay
  <2>2. ~tampered' => LinkInv'
    BY <1>2, <2>1, LinkStep DEF EvidenceInv
  <2>3. tampered' => Broken(audit')
    BY <2>1 DEF EvidenceInv, Broken
  <2>4. QED
    BY <1>1, <2>2, <2>3 DEF EvidenceInv
<1>3. CASE EditRow
  <2>1. ~tampered /\ tampered'
    BY <1>3 DEF EditRow
  <2>2. Broken(audit')
    BY <1>3, <2>1, EditBreaks DEF EvidenceInv
  <2>3. QED
    BY <1>1, <2>1, <2>2 DEF EvidenceInv
<1>4. QED
  BY <1>2, <1>3 DEF TamperNext

THEOREM EvidenceInvariant == TamperSpec => []EvidenceInv
<1>1. Init => EvidenceInv
  BY LinkInit DEF EvidenceInv, LinkInv, Init
<1>2. QED
  BY <1>1, EvidenceStep, PTL DEF TamperSpec

(* For any number of overlapping, failing or dying log_entry calls, no     *)
(* committed row loses its digest or points outside the table, until one   *)
(* is edited outside the program.                                          *)
THEOREM AuditWellLinked == TamperSpec => []WellLinked
<1>1. EvidenceInv => WellLinked
  BY DEF EvidenceInv, LinkInv, WellLinked
<1>2. QED
  BY <1>1, EvidenceInvariant, PTL

(* Once a column of a stored row was edited, verify_chain answers FALSE    *)
(* for ever, whatever is appended by however many writers.                 *)
THEOREM AuditTamperEvident == TamperSpec => []TamperEvident
<1>1. EvidenceInv => TamperEvident
  <2> SUFFICES ASSUME EvidenceInv, tampered PROVE ~VerifyChain(audit)
    BY DEF TamperEvident
  <2>1. ~ChainIntact(audit)
    BY DEF EvidenceInv, Broken, ChainIntact
  <2>2. QED
    BY <2>1, VerifyIsIntact DEF EvidenceInv, TableInv
<1>2. QED
  BY <1>1, EvidenceInvariant, PTL

-----------------------------------------------------------------------------
(***************************************************************************)
(* Forks: rows link only to rows committed before them, so the rows of any *)
(* moment are a prefix of every chain the table may become.                *)
(***************************************************************************)
LEMMA HashTellsRow ==
  ASSUME NEW r, NEW q, ComputeEntryHash(r) = ComputeEntryHash(q)
  PROVE  r.id = q.id
  BY DEF ComputeEntryHash, CanonicalFields

LEMMA NoHashIsGenesis ==
  ASSUME NEW r
  PROVE  ComputeEntryHash(r) # GenesisHash
  BY DEF ComputeEntryHash, GenesisHash

LEMMA PrefixOfChain ==
  ASSUME NEW rows, NEW later, rows \subseteq later, Table(later), ChainIntact(later),
         \A r \in rows : r.prev = GenesisHash \/ \E q \in rows : r.prev = q.hash
  PROVE  ChainIntact(rows)
<1> SUFFICES ASSUME NEW r \in rows
             PROVE  /\ r.hash = ComputeEntryHash(r)
                    /\ \/ r.prev = GenesisHash /\ \A q \in rows : ~Before(q, r)
                       \/ \E q \in rows : JustBefore(rows, q, r) /\ r.prev = q.hash
  BY DEF ChainIntact
<1>1. \A q \in later : q.hash = ComputeEntryHash(q)
  BY DEF ChainIntact
<1>2. CASE r.prev = GenesisHash /\ \A q \in later : ~Before(q, r)
  BY <1>1, <1>2
<1>3. ASSUME NEW q \in later, JustBefore(later, q, r), r.prev = q.hash
      PROVE  q \in rows /\ JustBefore(rows, q, r)
  <2>1. r.prev # GenesisHash
    BY <1>1, <1>3, NoHashIsGenesis
  <2>2. PICK p \in rows : r.prev = p.hash
    BY <2>1
  <2>3. p = q
    <3>1. p \in later /\ p.hash = ComputeEntryHash(p) /\ q.hash = ComputeEntryHash(q)
      BY <1>1
    <3>2. ComputeEntryHash(p) = ComputeEntryHash(q)
      BY <1>3, <2>2, <3>1
    <3>3. p.id = q.id
      BY <3>2, HashTellsRow
    <3>4. QED
      BY <3>1, <3>3 DEF Table
  <2>4. QED
    BY <1>3, <2>2, <2>3 DEF JustBefore
<1>4. QED
  BY <1>1, <1>2, <1>3 DEF ChainIntact

LEMMA BrokenStays ==
  ASSUME EvidenceInv, [TamperNext]_vars, ~ChainIntact(audit)
  PROVE  ~ChainIntact(audit')
<1>1. EvidenceInv'
  BY EvidenceStep
<1>2. CASE tampered'
  BY <1>1, <1>2 DEF EvidenceInv, Broken, ChainIntact
<1>3. CASE ~tampered'
  <2>1. [Next]_vars
    BY <1>3 DEF TamperNext, EditRow
  <2>2. audit \subseteq audit' /\ ~tampered
    BY <1>3, <2>1, RowsStay
  <2>3. \A r \in audit : r.prev = GenesisHash \/ \E q \in audit : r.prev = q.hash
    BY <2>2 DEF EvidenceInv, LinkInv, Rooted
  <2>4. Table(audit')
    BY <1>1 DEF EvidenceInv, TableInv
  <2>5. QED
    BY <2>2, <2>3, <2>4, PrefixOfChain
<1>4. QED
  BY <1>2, <1>3

(* Any number of overlapping log_entry calls, any movement of the clock,   *)
(* and an edit: once verify_chain answers FALSE it does so for ever.       *)
THEOREM AuditBrokenForGood == TamperSpec => BrokenForGood
<1>1. EvidenceInv /\ [TamperNext]_vars => [~VerifyChain(audit) => ~VerifyChain(audit)']_vars
  <2> SUFFICES ASSUME EvidenceInv, [TamperNext]_vars, ~VerifyChain(audit)
               PROVE  ~VerifyChain(audit)'
    OBVIOUS
  <2>1. Table(audit) /\ Table(audit')
    BY EvidenceStep DEF EvidenceInv, TableInv
  <2>2. ~ChainIntact(audit)
    BY <2>1, VerifyIsIntact
  <2>3. ~ChainIntact(audit')
    BY <2>2, BrokenStays
  <2>4. ~VerifyChain(audit')
    BY <2>1, <2>3, VerifyIsIntact
  <2>5. QED
    BY <2>4
<1>2. QED
  BY <1>1, EvidenceInvariant, PTL DEF TamperSpec, BrokenForGood

(* What an export holds between its two queries, and afterwards. *)
Vouched(x) ==
  /\ x.state = "refused" => ~ChainIntact(audit)
  /\ x.state \in {"verified", "done"} => ChainIntact(x.verified)
  /\ x.state = "verified" => tampered \/ x.verified \subseteq audit
  /\ x.state = "done" => /\ tampered \/ x.verified \subseteq x.rows
                         /\ ChainIntact(x.rows) \/ ~ChainIntact(audit)
VouchInv == EvidenceInv /\ \A e \in Exporter : Vouched(export[e])

LEMMA VouchedStays ==
  ASSUME EvidenceInv, [TamperNext]_vars, NEW e \in Exporter, Vouched(export[e])
  PROVE  LET x == export[e]
         IN  /\ x.state = "refused" => ~ChainIntact(audit')
             /\ x.state \in {"verified", "done"} => ChainIntact(x.verified)
             /\ x.state = "verified" => tampered' \/ x.verified \subseteq audit'
             /\ x.state = "done" => /\ tampered' \/ x.verified \subseteq x.rows
                                    /\ ChainIntact(x.rows) \/ ~ChainIntact(audit')
<1>1. ~ChainIntact(audit) => ~ChainIntact(audit')
  BY BrokenStays
<1>2. tampered' \/ (~tampered /\ audit \subseteq audit')
  <2>1. CASE EditRow
    BY <2>1 DEF EditRow
  <2>2. CASE [Next]_vars
    BY <2>2, RowsStay DEF EvidenceInv, TableInv, TypeOK
  <2>3. QED
    BY <2>1, <2>2 DEF TamperNext
<1>3. QED
  BY <1>1, <1>2 DEF Vouched

LEMMA VouchStep == VouchInv /\ [TamperNext]_vars => VouchInv'
<1> SUFFICES ASSUME VouchInv, [TamperNext]_vars, NEW e \in Exporter
             PROVE  Vouched(export[e])'
  BY EvidenceStep DEF VouchInv
<1>1. CASE export'[e] = export[e]
  BY <1>1, VouchedStays DEF VouchInv, Vouched
<1>2. CASE ExportVerify(e)
  <2>1. /\ audit' = audit
        /\ export'[e].state = IF VerifyChain(audit) THEN "verified" ELSE "refused"
        /\ export'[e].verified = audit
    BY <1>2, ExportFields DEF VouchInv, EvidenceInv, ExportVerify
  <2>2. VerifyChain(audit) <=> ChainIntact(audit)
    BY VerifyIsIntact DEF VouchInv, EvidenceInv, TableInv
  <2>3. QED
    BY <2>1, <2>2 DEF Vouched
<1>3. CASE ExportRead(e)
  <2>1. /\ audit' = audit /\ tampered' = tampered
        /\ export[e].state = "verified" /\ export'[e].state = "done"
        /\ export'[e].verified = export[e].verified /\ export'[e].rows = audit
    BY <1>3, ExportFields DEF VouchInv, EvidenceInv, ExportRead
  <2>2. QED
    BY <2>1 DEF VouchInv, Vouched
<1>4. export'[e] = export[e] \/ ExportVerify(e) \/ ExportRead(e)
  <2>1. ASSUME NEW x \in Exporter, x # e, ExportVerify(x) \/ ExportRead(x)
        PROVE  export'[e] = export[e]
    BY <2>1, ExportFields DEF VouchInv, EvidenceInv
  <2>2. QED
    BY <2>1 DEF TamperNext, Next, StartEntry, ReadLastHash, CommitEntry, AbortEntry, EditRow, vars
<1>5. QED
  BY <1>1, <1>2, <1>3, <1>4

(* Whatever log_entry calls, clock and edits do between and after the two  *)
(* queries of an export: a refusal is right for good, the rows verified    *)
(* were a chain and are all answered, and an answer that is no chain means *)
(* that every later export is refused.                                     *)
THEOREM AuditExportVouches == TamperSpec => []ExportVouches
<1>1. Init => VouchInv
  BY LinkInit DEF VouchInv, Vouched, EvidenceInv, LinkInv, Init
<1>2. VouchInv => ExportVouches
  BY DEF VouchInv, Vouched, ExportVouches
<1>3. QED
  BY <1>1, <1>2, VouchStep, PTL DEF TamperSpec

-----------------------------------------------------------------------------
(***************************************************************************)
(* One writer at a time and a clock that advances between two readings:    *)
(* then the rows form a single chain in timestamp order.                   *)
(***************************************************************************)
OneWriter == \A v, w \in Writer : v = w
ClockAdvances == \A d \in ClockStep : d > 0

(* The live draft is newer than every row, and linked to the last one. *)
Ahead ==
  /\ \A r \in audit : r.ts <= clock
  /\ \A w \in Writer : pc[w] # "idle" =>
       /\ draft[w].ts <= clock
       /\ \A r \in audit : r.ts < draft[w].ts
  /\ \A w \in Writer : pc[w] = "linked" => draft[w].prev = LastEntryHash(audit)

SerialInv == LinkInv /\ Ahead /\ ChainVerifies

(* Sealing a row that is after every other one, and links to the last of   *)
(* them, extends an intact chain. *)
LEMMA AppendIntact ==
  ASSUME NEW rows, NEW s, \A r \in rows \cup {s} : Stamped(r),
         \A q \in rows : Before(q, s),
         rows = {} \/ \E m \in rows : IsLast(rows, m),
         s.hash = ComputeEntryHash(s), s.prev = LastEntryHash(rows),
         ChainIntact(rows)
  PROVE  ChainIntact(rows \cup {s})
<1> DEFINE R == rows \cup {s}
           Linked(X, r) == \/ r.prev = GenesisHash /\ \A q \in X : ~Before(q, r)
                           \/ \E q \in X : JustBefore(X, q, r) /\ r.prev = q.hash
<1>1. \A q \in R : ~Before(s, q)
  BY BeforeOrders
<1>2. ASSUME NEW r \in rows PROVE r.hash = ComputeEntryHash(r) /\ Linked(R, r)
  <2>1. r.hash = ComputeEntryHash(r) /\ Linked(rows, r)
    BY DEF ChainIntact
  <2>2. CASE r.prev = GenesisHash /\ \A q \in rows : ~Before(q, r)
    BY <2>1, <2>2, <1>1
  <2>3. CASE \E q \in rows : JustBefore(rows, q, r) /\ r.prev = q.hash
    BY <2>1, <2>3, <1>1 DEF JustBefore
  <2>4. QED
    BY <2>1, <2>2, <2>3
<1>3. Linked(R, s)
  <2>1. CASE rows = {}
    BY <2>1, <1>1 DEF LastEntryHash
  <2>2. CASE rows # {}
    <3>1. PICK m \in rows : IsLast(rows, m)
      BY <2>2
    <3>2. s.prev = m.hash
      BY <3>1, LastHash
    <3>3. \A x \in R : ~(Before(m, x) /\ Before(x, s))
      BY <3>1, <1>1, BeforeOrders DEF IsLast
    <3>4. QED
      BY <3>1, <3>2, <3>3 DEF JustBefore
  <2>3. QED
    BY <2>1, <2>2
<1>4. QED
  BY <1>2, <1>3 DEF ChainIntact

LEMMA SerialInit == Init => SerialInv
<1> SUFFICES ASSUME Init PROVE SerialInv
  OBVIOUS
<1>1. Ahead /\ ChainVerifies
  BY DEF Init, Ahead, ChainVerifies, ChainIntact
<1>2. QED
  BY <1>1, LinkInit DEF SerialInv

LEMMA SerialStart ==
  ASSUME SerialInv, OneWriter, ClockAdvances, NEW w \in Writer, StartEntry(w)
  PROVE  Ahead' /\ ChainVerifies'
<1>1. PICK id \in EntryId \ UsedIds, d \in ClockStep, b \in Body :
        /\ clock + d \in Time
        /\ clock' = clock + d
        /\ draft' = [draft EXCEPT ![w] = [id |-> id, ts |-> clock + d, body |-> b,
                                          prev |-> GenesisHash]]
  BY DEF StartEntry
<1>2. /\ pc' = [pc EXCEPT ![w] = "stamped"]
      /\ audit' = audit /\ export' = export
  BY DEF StartEntry
<1>3. draft'[w].ts = clock + d /\ pc'[w] = "stamped"
  BY <1>1, <1>2 DEF SerialInv, LinkInv, TableInv, Shape, TypeOK
<1>4. \A r \in audit : r.ts \in Int /\ r.ts <= clock
  BY TimesAreNumbers DEF SerialInv, LinkInv, TableInv, TypeOK, Ahead, Stamped
<1>5. clock \in Int /\ d \in Int /\ d > 0
  BY TimesAreNumbers, AuditConstants DEF SerialInv, LinkInv, TableInv, TypeOK, ClockAdvances
<1>6. Ahead'
  BY <1>1, <1>2, <1>3, <1>4, <1>5 DEF Ahead, OneWriter
<1>7. QED
  BY <1>2, <1>6 DEF SerialInv, ChainVerifies

LEMMA SerialRead ==
  ASSUME SerialInv, OneWriter, NEW w \in Writer, ReadLastHash(w)
  PROVE  Ahead' /\ ChainVerifies'
<1>1. /\ pc' = [pc EXCEPT ![w] = "linked"] /\ pc[w] = "stamped"
      /\ draft' = [draft EXCEPT ![w] = [draft[w] EXCEPT !.prev = LastEntryHash(audit)]]
      /\ audit' = audit /\ clock' = clock /\ export' = export
  BY DEF ReadLastHash
<1>2. /\ draft'[w].ts = draft[w].ts /\ draft'[w].prev = LastEntryHash(audit)
      /\ pc'[w] = "linked"
  <2>1. draft'[w] = [draft[w] EXCEPT !.prev = LastEntryHash(audit)] /\ pc'[w] = "linked"
    BY <1>1 DEF SerialInv, LinkInv, TableInv, Shape, TypeOK
  <2>2. draft[w] = [id |-> draft[w].id, ts |-> draft[w].ts, body |-> draft[w].body,
                    prev |-> draft[w].prev]
    BY DEF SerialInv, LinkInv, TableInv, Shape
  <2>3. QED
    BY <2>1, <2>2
<1>3. Ahead'
  BY <1>1, <1>2 DEF SerialInv, Ahead, OneWriter
<1>4. QED
  BY <1>1, <1>3 DEF SerialInv, ChainVerifies

LEMMA SerialCommit ==
  ASSUME SerialInv, OneWriter, NEW w \in Writer, CommitEntry(w)
  PROVE  /\ Ahead' /\ ChainVerifies'
         /\ audit \subseteq audit'
         /\ \A a \in audit, b \in audit' \ audit : Before(a, b)
<1> DEFINE s == Sealed(draft[w])
<1>1. /\ audit' = audit \cup {s} /\ pc[w] = "linked"
      /\ pc' = [pc EXCEPT ![w] = "idle"]
      /\ clock' = clock /\ export' = export
  BY DEF CommitEntry
<1>2. /\ s.ts = draft[w].ts /\ s.prev = draft[w].prev /\ s.hash = ComputeEntryHash(s)
  BY SealedFields
<1>3. LinkInv'
  BY LinkStep DEF SerialInv, Next
<1> HIDE DEF s
<1>4. \A q \in audit : Before(q, s)
  BY <1>1, <1>2 DEF SerialInv, Ahead, Before
<1>5. ChainIntact(audit')
  BY <1>1, <1>2, <1>3, <1>4, AppendIntact, TableHasLast
  DEF SerialInv, LinkInv, TableInv, TypeOK, Ahead, ChainVerifies
<1>6. pc'[w] = "idle"
  BY <1>1 DEF SerialInv, LinkInv, TableInv, TypeOK
<1>7. Ahead'
  BY <1>1, <1>2, <1>6 DEF SerialInv, Ahead, OneWriter
<1>8. QED
  BY <1>1, <1>4, <1>5, <1>7 DEF SerialInv, ChainVerifies

LEMMA SerialAbort ==
  ASSUME SerialInv, OneWriter, NEW w \in Writer, AbortEntry(w)
  PROVE  Ahead' /\ ChainVerifies'
<1>1. /\ pc' = [pc EXCEPT ![w] = "idle"]
      /\ audit' = audit /\ clock' = clock /\ export' = export
  BY DEF AbortEntry
<1>2. pc'[w] = "idle"
  BY <1>1 DEF SerialInv, LinkInv, TableInv, TypeOK
<1>3. QED
  BY <1>1, <1>2 DEF SerialInv, Ahead, OneWriter, ChainVerifies

LEMMA SerialExport ==
  ASSUME SerialInv, NEW e \in Exporter, ExportVerify(e) \/ ExportRead(e)
  PROVE  Ahead' /\ ChainVerifies'
<1>1. UNCHANGED <<audit, clock, pc, draft>>
  BY DEF ExportVerify, ExportRead
<1>2. QED
  BY <1>1 DEF SerialInv, Ahead, ChainVerifies

LEMMA SerialStep ==
  ASSUME OneWriter, ClockAdvances, SerialInv, [Next]_vars
  PROVE  /\ SerialInv'
         /\ [audit \subseteq audit' /\ \A a \in audit, b \in audit' \ audit : Before(a, b)]_audit
<1> DEFINE Grows == audit \subseteq audit' /\ \A a \in audit, b \in audit' \ audit : Before(a, b)
<1>1. LinkInv'
  BY LinkStep DEF SerialInv
<1>2. CASE UNCHANGED vars
  BY <1>1, <1>2 DEF vars, SerialInv, Ahead, ChainVerifies
<1>3. ASSUME NEW w \in Writer, StartEntry(w) \/ ReadLastHash(w) \/ AbortEntry(w)
      PROVE  SerialInv' /\ audit' = audit
  <2>1. audit' = audit
    BY <1>3 DEF StartEntry, ReadLastHash, AbortEntry
  <2>2. QED
    BY <1>1, <1>3, <2>1, SerialStart, SerialRead, SerialAbort DEF SerialInv
<1>4. ASSUME NEW w \in Writer, CommitEntry(w) PROVE SerialInv' /\ Grows
  BY <1>1, <1>4, SerialCommit DEF SerialInv
<1>5. ASSUME NEW e \in Exporter, ExportVerify(e) \/ ExportRead(e)
      PROVE  SerialInv' /\ audit' = audit
  <2>1. audit' = audit
    BY <1>5 DEF ExportVerify, ExportRead
  <2>2. QED
    BY <1>1, <1>5, <2>1, SerialExport DEF SerialInv
<1>6. CASE Next
  BY <1>3, <1>4, <1>5, <1>6 DEF Next
<1>7. QED
  BY <1>2, <1>6

(* A commit appends the body of its row to what a reader sees; no other    *)
(* step changes it. *)
LEMMA SerialLog ==
  ASSUME OneWriter, ClockAdvances, SerialInv, [Next]_vars
  PROVE  LogView' = LogView \/ \E b \in Body : LogView' = Append(LogView, b)
<1>1. CASE audit' = audit
  BY <1>1 DEF LogView
<1>2. ASSUME NEW w \in Writer, CommitEntry(w)
      PROVE  \E b \in Body : LogView' = Append(LogView, b)
  <2> DEFINE s == Sealed(draft[w])
             n == Cardinality(audit)
  <2>1. audit' = audit \cup {s}
    BY <1>2 DEF CommitEntry
  <2>2. /\ Table(audit) /\ Table(audit')
        /\ \A q \in audit : Before(q, s)
        /\ s \notin audit
    <3>1. SerialInv'
      BY <1>2, SerialStep DEF Next
    <3>2. \A r \in audit : r.id # s.id
      BY <1>2, SealedFields DEF CommitEntry, SerialInv, LinkInv, TableInv, FreshIds
    <3>3. s \in audit' \ audit
      BY <2>1, <3>2
    <3>4. \A q \in audit : Before(q, s)
      BY <1>2, <3>3, SerialCommit
    <3>5. QED
      BY <3>1, <3>3, <3>4 DEF SerialInv, LinkInv, TableInv
  <2>3. s.body \in Body
    BY <2>1, <2>2 DEF Table, Stamped
  <2> HIDE DEF s
  <2>4. InOrder(audit') = Append(InOrder(audit), s)
    BY <2>1, <2>2, InOrderAppend
  <2>5. Cardinality(audit') = n + 1 /\ n \in Nat
    BY <2>1, <2>2, FS_AddElement, FS_CardinalityType DEF Table
  <2>6. InOrder(audit) \in [1..n -> audit]
    BY <2>2, InOrderSorted DEF Sorted
  <2>7. \A r \in audit : r.body \in Body
    BY <2>2 DEF Table, Stamped
  <2> HIDE DEF n
  <2>8. /\ \A i \in 1..n : InOrder(audit')[i] = InOrder(audit)[i]
        /\ InOrder(audit')[n + 1] = s
    BY <2>4, <2>5, <2>6, AppendFunction
  <2>9. LogView \in [1..n -> Body] /\ \A i \in 1..n : LogView[i] = InOrder(audit)[i].body
    BY <2>6, <2>7 DEF LogView, n
  <2>10. LogView' = [i \in 1..(n + 1) |-> InOrder(audit')[i].body]
    BY <2>5 DEF LogView
  <2> DEFINE a == Append(LogView, s.body)
  <2>11. /\ a \in [1..(n + 1) -> Body]
         /\ \A i \in 1..n : a[i] = LogView[i]
         /\ a[n + 1] = s.body
    <3>1. a \in [1..(n + 1) -> Body]
      BY <2>3, <2>5, <2>9, AppendFunction
    <3>2. (\A i \in 1..n : a[i] = LogView[i]) /\ a[n + 1] = s.body
      BY <2>3, <2>5, <2>9, AppendFunction
    <3>3. QED
      BY <3>1, <3>2
  <2> HIDE DEF a
  <2>12. ASSUME NEW i \in 1..(n + 1) PROVE a[i] = InOrder(audit')[i].body
    <3>1. CASE i = n + 1
      BY <2>8, <2>11, <3>1
    <3>2. CASE i # n + 1
      <4>1. i \in 1..n
        BY <2>5, <3>2
      <4>2. QED
        BY <2>8, <2>9, <2>11, <4>1
    <3>3. QED
      BY <3>1, <3>2
  <2>13. LogView' = a
    BY <2>10, <2>11, <2>12
  <2>14. QED
    BY <2>3, <2>13 DEF a
<1>3. QED
  BY <1>1, <1>2 DEF Next, StartEntry, ReadLastHash, AbortEntry, ExportVerify, ExportRead, vars

(* Without overlapping log_entry calls and with an advancing clock, the    *)
(* trail verifies at every moment, for any number of entries and aborts.   *)
THEOREM SerialChainVerifies ==
  ASSUME OneWriter, ClockAdvances PROVE Spec => []ChainVerifies
<1>1. SerialInv /\ [Next]_vars => SerialInv'
  BY SerialStep
<1>2. SerialInv => ChainVerifies
  BY DEF SerialInv
<1>3. QED
  BY <1>1, <1>2, SerialInit, PTL DEF Spec

(* Under the same conditions every entry is written after all the others   *)
(* in the order verify_chain reads them, and none is removed.              *)
THEOREM SerialAppendsAtEnd ==
  ASSUME OneWriter, ClockAdvances PROVE Spec => AppendsAtEnd
<1>1. SerialInv /\ [Next]_vars => SerialInv'
  BY SerialStep
<1>2. SerialInv /\ [Next]_vars =>
        [audit \subseteq audit' /\ \A a \in audit, b \in audit' \ audit : Before(a, b)]_audit
  BY SerialStep
<1>3. QED
  BY <1>1, <1>2, SerialInit, PTL DEF Spec, AppendsAtEnd

(* Under the same conditions the trail implements the append-only log: the *)
(* entries in the order of the chain, read at any two moments, are the     *)
(* earlier ones followed by those written since.                           *)
THEOREM SerialImplementsAppendLog ==
  ASSUME OneWriter, ClockAdvances PROVE Spec => ImplementsAppendLog
<1>1. Init => Log!Init
  <2> SUFFICES ASSUME Init PROVE LogView = <<>>
    BY DEF Log!Init
  <2>1. Cardinality(audit) = 0 /\ 1..0 = {}
    BY FS_EmptySet DEF Init
  <2>2. QED
    BY <2>1 DEF LogView
<1>2. SerialInv /\ [Next]_vars => SerialInv'
  BY SerialStep
<1>3. SerialInv /\ [Next]_vars => [Log!Next]_LogView
  BY SerialLog DEF Log!Next, Log!Add
<1>4. QED
  BY <1>1, <1>2, <1>3, SerialInit, PTL DEF Spec, ImplementsAppendLog, Log!Spec
=============================================================================
