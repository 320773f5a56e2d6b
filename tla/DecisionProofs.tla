--------------------------- MODULE DecisionProofs ---------------------------
(***************************************************************************)
(* Theorems about the decision of one request, for any Catalog, any        *)
(* request the models accept: the firewall is idempotent however values    *)
(* are nested, the policy's loop is the function Checkout uses, the        *)
(* discount it allows, what a parsed Mandate may be relied on for, and the *)
(* gate as one step.                                                       *)
(***************************************************************************)
EXTENDS Decision, SequenceLemmas

-----------------------------------------------------------------------------
(***************************************************************************)
(* The firewall.  First what it makes of a text ...                        *)
(***************************************************************************)
(* A text no character of which is invisible. *)
Visible == {s \in Seq(STRING) : \A i \in DOMAIN s : s[i] \notin Invisible}

(* The recursion inside the fold of _strip_zw. *)
StripRec(a, g) ==
  g = [t \in SUBSET (DOMAIN a) |->
         IF t = {} THEN <<>>
         ELSE IF a[Max(t)] \in Invisible THEN g[t \ {Max(t)}]
         ELSE Append(g[t \ {Max(t)}], a[Max(t)])]

LEMMA StripFold ==
  ASSUME NEW a
  PROVE  StripZw(a) = (CHOOSE g : StripRec(a, g))[DOMAIN a]
  BY DEF StripZw, FoldLeft, MapThenFoldSet, Max, StripRec

(* That recursion has a solution ... *)
LEMMA StripExists ==
  ASSUME NEW a \in Seq(STRING)
  PROVE  \E g : StripRec(a, g)
<1> DEFINE n == Len(a)
           F == [p \in (1..n) \X Seq(STRING) |->
                   IF a[p[1]] \in Invisible THEN p[2] ELSE Append(p[2], a[p[1]])]
<1>1. n \in Nat /\ DOMAIN a = 1..n /\ \A i \in 1..n : a[i] \in STRING
  BY LenProperties
<1>2. \A k \in 1..n, s \in Seq(STRING) :
        /\ F[<<k, s>>] = IF a[k] \in Invisible THEN s ELSE Append(s, a[k])
  OBVIOUS
<1>3. F \in [(1..n) \X Seq(STRING) -> Seq(STRING)]
  <2>1. ASSUME NEW k \in 1..n, NEW s \in Seq(STRING) PROVE Append(s, a[k]) \in Seq(STRING)
    BY <1>1, AppendProperties
  <2>2. QED
    BY <2>1
<1>4. <<>> \in Seq(STRING)
  OBVIOUS
<1> HIDE DEF F, n
<1>5. PICK g \in [SUBSET (1..n) -> Seq(STRING)] : Iterates(g, n, F, <<>>)
  BY Zenon, <1>1, <1>3, <1>4, IterationExists
<1>6. ASSUME NEW t \in SUBSET (1..n), t # {}
      PROVE  g[t] = IF a[Max(t)] \in Invisible THEN g[t \ {Max(t)}]
                    ELSE Append(g[t \ {Max(t)}], a[Max(t)])
  <2>1. Max(t) \in 1..n
    BY <1>1, <1>6, MaxInSubset
  <2>2. g[t \ {Max(t)}] \in Seq(STRING)
    BY <1>5
  <2>3. g[t] = F[<<Max(t), g[t \ {Max(t)}]>>]
    BY <1>5, <1>6 DEF Iterates
  <2>4. QED
    BY <1>2, <2>1, <2>2, <2>3
<1>7. g[{}] = <<>>
  BY <1>5 DEF Iterates
<1>8. StripRec(a, g)
  BY <1>1, <1>5, <1>6, <1>7 DEF StripRec
<1>9. QED
  BY <1>8

(* _strip_zw leaves nothing invisible, and nothing else it takes away. *)
LEMMA Stripped ==
  ASSUME NEW a \in Seq(STRING)
  PROVE  StripZw(a) \in Visible /\ (a \in Visible => StripZw(a) = a)
<1> DEFINE n == Len(a)
           g == CHOOSE h : StripRec(a, h)
<1>1. n \in Nat /\ DOMAIN a = 1..n /\ \A i \in 1..n : a[i] \in STRING
  BY LenProperties
<1>2. StripRec(a, g) /\ StripZw(a) = g[1..n]
  BY <1>1, StripExists, StripFold
<1> HIDE DEF g, n
<1>3. g[1..0] = <<>>
  <2>1. 1..0 = {} /\ 1..0 \in SUBSET (DOMAIN a)
    OBVIOUS
  <2>2. QED
    BY <1>2, <2>1 DEF StripRec
<1>4. ASSUME NEW k \in 1..n
      PROVE  g[1..k] = IF a[k] \in Invisible THEN g[1..(k - 1)] ELSE Append(g[1..(k - 1)], a[k])
  <2>1. k \in Nat /\ k > 0 /\ 1..k \in SUBSET (1..n)
    BY <1>1
  <2>2. 1..k # {} /\ Max(1..k) = k /\ (1..k) \ {k} = 1..(k - 1)
    BY <2>1, LastIndex
  <2>3. QED
    BY <1>1, <1>2, <2>1, <2>2 DEF StripRec
<1> DEFINE Good(k) == /\ g[1..k] \in Visible
                      /\ a \in Visible => /\ Len(g[1..k]) = k
                                          /\ \A i \in 1..k : g[1..k][i] = a[i]
           bad == {k \in Nat : k <= n /\ ~Good(k)}
<1>5. Good(0)
  <2>1. <<>> \in Visible /\ Len(<<>>) = 0
    BY DEF Visible
  <2>2. QED
    BY <1>3, <2>1
<1>6. ASSUME NEW k \in 1..n, Good(k - 1) PROVE Good(k)
  <2> DEFINE s == g[1..(k - 1)]
  <2>1. s \in Seq(STRING) /\ (\A i \in DOMAIN s : s[i] \notin Invisible) /\ a[k] \in STRING
    BY <1>1, <1>6 DEF Visible
  <2>2. CASE a[k] \in Invisible
    <3>1. a \notin Visible /\ g[1..k] = s
      BY <1>1, <1>4, <2>2 DEF Visible
    <3>2. QED
      BY <1>6, <3>1
  <2>3. CASE a[k] \notin Invisible
    <3>1. g[1..k] = Append(s, a[k])
      BY <1>4, <2>3
    <3> HIDE DEF s
    <3>2. /\ Append(s, a[k]) \in Seq(STRING)
          /\ Len(Append(s, a[k])) = Len(s) + 1
          /\ \A i \in 1..Len(s) : Append(s, a[k])[i] = s[i]
          /\ Append(s, a[k])[Len(s) + 1] = a[k]
          /\ Len(s) \in Nat /\ DOMAIN s = 1..Len(s)
          /\ DOMAIN Append(s, a[k]) = 1..Len(Append(s, a[k]))
      BY <2>1, AppendProperties, LenProperties
    <3>3. \A i \in DOMAIN Append(s, a[k]) : Append(s, a[k])[i] \notin Invisible
      BY <2>1, <2>3, <3>2
    <3>4. Append(s, a[k]) \in Visible
      BY <3>2, <3>3 DEF Visible
    <3>5. ASSUME a \in Visible
          PROVE  /\ Len(Append(s, a[k])) = k
                 /\ \A i \in 1..k : Append(s, a[k])[i] = a[i]
      <4>1. Len(s) = k - 1 /\ \A i \in 1..(k - 1) : s[i] = a[i]
        BY <1>6, <3>5 DEF s
      <4>2. \A i \in 1..k : i = k \/ i \in 1..(k - 1)
        BY <1>1
      <4>3. QED
        BY <1>1, <3>2, <4>1, <4>2
    <3>6. QED
      BY <3>1, <3>4, <3>5
  <2>4. QED
    BY <2>2, <2>3
<1> HIDE DEF Good
<1>7. bad = {}
  <2> SUFFICES ASSUME bad # {} PROVE FALSE
    OBVIOUS
  <2>1. PICK k \in bad : \A j \in bad : k <= j
    <3>1. bad \subseteq Nat
      OBVIOUS
    <3>2. QED
      BY <3>1, NatLeast
  <2>2. k \in Nat /\ k <= n /\ ~Good(k) /\ k # 0
    BY <1>5
  <2>3. k - 1 \in Nat /\ k - 1 <= n /\ k - 1 \notin bad /\ k \in 1..n
    BY <1>1, <2>1, <2>2
  <2>4. Good(k - 1)
    BY <2>3
  <2>5. QED
    BY <1>6, <2>2, <2>3, <2>4
<1>8. Good(n)
  BY <1>1, <1>7
<1>9. ASSUME a \in Visible PROVE g[1..n] = a
  <2>1. /\ g[1..n] \in Seq(STRING) /\ Len(g[1..n]) = n
        /\ \A i \in 1..n : g[1..n][i] = a[i]
    BY <1>8, <1>9 DEF Good, Visible
  <2>2. g[1..n] \in [1..n -> STRING] /\ a \in [1..n -> STRING]
    BY <2>1, LenProperties DEF n
  <2>3. g[1..n] = [i \in 1..n |-> g[1..n][i]] /\ a = [i \in 1..n |-> a[i]]
    BY <2>2
  <2>4. [i \in 1..n |-> g[1..n][i]] = [i \in 1..n |-> a[i]]
    BY <2>1
  <2>5. QED
    BY <2>3, <2>4
<1>10. QED
  BY <1>2, <1>8, <1>9 DEF Good

(* Cleaned, a text that is let pass is let pass again. *)
LEMMA CleanText ==
  ASSUME NEW a \in Seq(STRING), ~Poisoned(a)
  PROVE  ~Poisoned(StripZw(a)) /\ StripZw(StripZw(a)) = StripZw(a)
<1> DEFINE s == StripZw(a)
<1>1. s \in Visible
  BY Stripped
<1>2. s \in Seq(STRING)
  BY <1>1 DEF Visible
<1>3. StripZw(s) = s
  BY <1>1, <1>2, Stripped
<1>4. ~HasInvisible(s)
  <2>1. DOMAIN s = 1..Len(s) /\ \A i \in DOMAIN s : s[i] \notin Invisible
    BY <1>1, <1>2, LenProperties DEF Visible
  <2>2. QED
    BY <2>1 DEF HasInvisible, Contains, RefusedChars
<1>5. ~ContainsIdpi(s)
  BY DEF Poisoned
<1>6. QED
  BY <1>3, <1>4, <1>5 DEF Poisoned

(* One level of each walk, given what it answers about the parts. *)
RefusedStep(f, v) ==
  CASE v.is = "object" -> \E k \in DOMAIN v.fields : k \in BadKeys \/ f[v.fields[k]]
    [] v.is = "list"   -> \E i \in DOMAIN v.values : f[v.values[i]]
    [] v.is = "text"   -> Poisoned(v.atoms)
    [] OTHER           -> FALSE
CleanStep(f, v) ==
  CASE v.is = "object" -> Object([k \in DOMAIN v.fields \ BadKeys |-> f[v.fields[k]]])
    [] v.is = "list"   -> List([i \in DOMAIN v.values |-> f[v.values[i]]])
    [] v.is = "text"   -> Text(StripZw(v.atoms))
    [] OTHER           -> v

(* Both, of a function that answers both. *)
BothOf(h, v) == <<RefusedStep([w \in Parts(v) |-> h[w][1]], v), CleanStep([w \in Parts(v) |-> h[w][2]], v)>>

(* Parts is what a walk goes on with ... *)
LEMMA PartsOf ==
  ASSUME NEW v
  PROVE  /\ v.is = "object" => \A k \in DOMAIN v.fields : v.fields[k] \in Parts(v)
         /\ v.is = "list" => \A i \in DOMAIN v.values : v.values[i] \in Parts(v)
  BY DEF Parts

(* ... so that a level depends on nothing else of what f answers.          *)
LEMMA StepsAreLocal ==
  ASSUME NEW v, NEW f
  PROVE  /\ RefusedStep([w \in Parts(v) |-> f[w]], v) = RefusedStep(f, v)
         /\ CleanStep([w \in Parts(v) |-> f[w]], v) = CleanStep(f, v)
<1> DEFINE r == [w \in Parts(v) |-> f[w]]
<1>0. \A w \in Parts(v) : r[w] = f[w]
  OBVIOUS
<1> HIDE DEF r
<1>1. CASE v.is = "object"
  <2>1. \A k \in DOMAIN v.fields : r[v.fields[k]] = f[v.fields[k]]
    BY <1>0, <1>1, PartsOf
  <2>2. (\E k \in DOMAIN v.fields : k \in BadKeys \/ r[v.fields[k]])
        = (\E k \in DOMAIN v.fields : k \in BadKeys \/ f[v.fields[k]])
    BY <2>1
  <2>3. [k \in DOMAIN v.fields \ BadKeys |-> r[v.fields[k]]]
        = [k \in DOMAIN v.fields \ BadKeys |-> f[v.fields[k]]]
    BY <2>1
  <2>4. QED
    BY <1>1, <2>2, <2>3 DEF r, RefusedStep, CleanStep
<1>2. CASE v.is = "list"
  <2>1. \A i \in DOMAIN v.values : r[v.values[i]] = f[v.values[i]]
    BY <1>0, <1>2, PartsOf
  <2>2. (\E i \in DOMAIN v.values : r[v.values[i]]) = (\E i \in DOMAIN v.values : f[v.values[i]])
    BY <2>1
  <2>3. [i \in DOMAIN v.values |-> r[v.values[i]]] = [i \in DOMAIN v.values |-> f[v.values[i]]]
    BY <2>1
  <2>4. QED
    BY <1>2, <2>2, <2>3 DEF r, RefusedStep, CleanStep
<1>3. CASE v.is \notin {"object", "list"}
  BY <1>3 DEF RefusedStep, CleanStep
<1>4. QED
  BY <1>1, <1>2, <1>3

(* Nor does the pair. *)
LEMMA BothAreLocal ==
  ASSUME NEW v, NEW f, NEW g, \A w \in Parts(v) : f[w] = g[w]
  PROVE  BothOf(f, v) = BothOf(g, v)
<1>1. /\ [w \in Parts(v) |-> f[w][1]] = [w \in Parts(v) |-> g[w][1]]
      /\ [w \in Parts(v) |-> f[w][2]] = [w \in Parts(v) |-> g[w][2]]
  OBVIOUS
<1>2. QED
  BY <1>1 DEF BothOf

(* The walks exist because parts are nested less deeply: a solution for    *)
(* the values below depth n gives one for those below n+1, two solutions   *)
(* agree where both are defined, and all of them are put together.         *)
Below(n) == {v \in JsonValue : Depth(v) < n}
Solves(f, n) == \A v \in Below(n) : f[v] = BothOf(f, v)

LEMMA PartsBelow ==
  ASSUME NEW n \in Nat, NEW v \in Below(n), NEW w \in Parts(v)
  PROVE  w \in Below(n) /\ w \in Below(Depth(v)) /\ Depth(v) \in Nat
<1>1. v \in JsonValue /\ w \in JsonValue /\ Depth(v) \in Nat /\ Depth(w) \in Nat /\ Depth(w) < Depth(v)
  BY JsonConstants DEF Below
<1>2. QED
  BY <1>1 DEF Below

LEMMA SolutionsAgree ==
  ASSUME NEW n \in Nat, NEW m \in Nat, n <= m, NEW f, NEW g, Solves(f, n), Solves(g, m)
  PROVE  \A v \in Below(n) : f[v] = g[v]
<1> DEFINE bad == {d \in Nat : \E v \in Below(n) : Depth(v) = d /\ f[v] # g[v]}
<1>1. bad = {}
  <2> SUFFICES ASSUME bad # {} PROVE FALSE
    OBVIOUS
  <2>1. bad \subseteq Nat
    OBVIOUS
  <2>2. PICK d \in bad : \A e \in bad : d <= e
    BY <2>1, NatLeast
  <2>3. PICK v \in Below(n) : Depth(v) = d /\ f[v] # g[v]
    BY <2>2
  <2>4. ASSUME NEW w \in Parts(v) PROVE f[w] = g[w]
    <3>1. w \in Below(n) /\ Depth(w) \in Nat /\ Depth(w) < d
      BY <2>3, PartsBelow, JsonConstants DEF Below
    <3>2. Depth(w) \notin bad
      BY <2>2, <3>1
    <3>3. QED
      BY <3>1, <3>2
  <2>5. BothOf(f, v) = BothOf(g, v)
    BY <2>4, BothAreLocal
  <2>6. f[v] = BothOf(f, v) /\ g[v] = BothOf(g, v)
    BY <2>3 DEF Solves, Below
  <2>7. QED
    BY <2>3, <2>5, <2>6
<1>2. ASSUME NEW v \in Below(n) PROVE f[v] = g[v]
  <2>1. Depth(v) \in Nat /\ Depth(v) \notin bad
    BY <1>1, JsonConstants DEF Below
  <2>2. QED
    BY <2>1
<1>3. QED
  BY <1>2

LEMMA SolutionBelow ==
  ASSUME NEW n \in Nat
  PROVE  \E f : Solves(f, n)
<1> DEFINE bad == {m \in Nat : ~ \E f : Solves(f, m)}
<1>1. ASSUME NEW m \in Nat, m > 0, NEW f, Solves(f, m - 1)
      PROVE  \E h : Solves(h, m)
  <2> DEFINE h == [v \in JsonValue |-> BothOf(f, v)]
  <2>1. ASSUME NEW v \in Below(m) PROVE h[v] = BothOf(h, v)
    <3>1. ASSUME NEW w \in Parts(v) PROVE h[w] = f[w]
      <4>1. w \in Below(m - 1) /\ w \in JsonValue
        <5>1. /\ v \in JsonValue /\ w \in JsonValue /\ Depth(v) \in Nat /\ Depth(w) \in Nat
              /\ Depth(w) < Depth(v) /\ Depth(v) < m
          BY JsonConstants DEF Below
        <5>2. QED
          BY <5>1 DEF Below
      <4>2. f[w] = BothOf(f, w)
        BY <1>1, <4>1 DEF Solves
      <4>3. QED
        BY <4>1, <4>2
    <3>2. BothOf(h, v) = BothOf(f, v)
      <4> HIDE DEF h
      <4>1. QED
        BY <3>1, BothAreLocal
    <3>3. h[v] = BothOf(f, v)
      BY DEF Below
    <3> QED
      BY <3>2, <3>3
  <2> HIDE DEF h
  <2>2. Solves(h, m)
    BY <2>1 DEF Solves
  <2>3. QED
    BY <2>2
<1>2. \E f : Solves(f, 0)
  <2>1. Below(0) = {}
    BY JsonConstants DEF Below
  <2>2. \A f : Solves(f, 0)
    BY <2>1 DEF Solves
  <2>3. QED
    BY <2>2
<1>3. bad = {}
  <2> SUFFICES ASSUME bad # {} PROVE FALSE
    OBVIOUS
  <2>1. bad \subseteq Nat
    OBVIOUS
  <2>2. PICK m \in bad : \A j \in bad : m <= j
    BY <2>1, NatLeast
  <2>3. m \in Nat /\ m # 0 /\ ~ \E f : Solves(f, m)
    BY <1>2
  <2>4. m - 1 \in Nat /\ m - 1 \notin bad
    BY <2>2, <2>3
  <2>5. QED
    BY <1>1, <2>3, <2>4
<1>4. QED
  BY <1>3

(* The value at each depth is taken from the solution below that depth. *)
LEMMA BothExist == \E h : \A v \in JsonValue : h[v] = BothOf(h, v)
<1> DEFINE At(n) == CHOOSE f : Solves(f, n)
           h == [v \in JsonValue |-> BothOf(At(Depth(v)), v)]
<1>1. \A n \in Nat : Solves(At(n), n)
  BY SolutionBelow
<1>2. \A v \in JsonValue : h[v] = BothOf(At(Depth(v)), v)
  OBVIOUS
<1> HIDE DEF At, h
<1>3. ASSUME NEW v \in JsonValue, NEW w \in Parts(v) PROVE h[w] = At(Depth(v))[w]
  <2>1. w \in JsonValue /\ Depth(v) \in Nat /\ Depth(w) \in Nat /\ Depth(w) < Depth(v)
    BY JsonConstants
  <2>2. \A u \in Below(Depth(w)) : At(Depth(w))[u] = At(Depth(v))[u]
    <3>1. Depth(w) <= Depth(v)
      BY <2>1
    <3>2. Solves(At(Depth(w)), Depth(w)) /\ Solves(At(Depth(v)), Depth(v))
      BY <1>1, <2>1
    <3>3. QED
      BY <2>1, <3>1, <3>2, SolutionsAgree
  <2>3. w \in Below(Depth(v))
    BY <2>1 DEF Below
  <2>4. \A u \in Parts(w) : At(Depth(w))[u] = At(Depth(v))[u]
    BY <2>1, <2>2, <2>3, PartsBelow
  <2>5. BothOf(At(Depth(w)), w) = BothOf(At(Depth(v)), w)
    BY <2>4, BothAreLocal
  <2>6. At(Depth(v))[w] = BothOf(At(Depth(v)), w)
    BY <1>1, <2>1, <2>3 DEF Solves
  <2>7. QED
    BY <1>2, <2>1, <2>5, <2>6
<1>4. ASSUME NEW v \in JsonValue PROVE h[v] = BothOf(h, v)
  <2>1. BothOf(h, v) = BothOf(At(Depth(v)), v)
    BY <1>3, BothAreLocal
  <2>2. QED
    BY <1>2, <2>1
<1>5. QED
  BY <1>4

(* Hence the recursive definitions of the walks mean what they say. *)
WalkRec(f) == f = [v \in JsonValue |-> RefusedStep(f, v)]
SanitizedRec(f) == f = [v \in JsonValue |-> CleanStep(f, v)]

LEMMA WalksAreChosen == Walk = (CHOOSE f : WalkRec(f)) /\ Sanitized = (CHOOSE f : SanitizedRec(f))
  BY DEF Walk, Sanitized, WalkRec, SanitizedRec, RefusedStep, CleanStep

LEMMA WalksAreSolutions == (\E f : WalkRec(f)) /\ (\E f : SanitizedRec(f))
<1>1. PICK h : \A v \in JsonValue : h[v] = BothOf(h, v)
  BY BothExist
<1> DEFINE f == [v \in JsonValue |-> h[v][1]]
           g == [v \in JsonValue |-> h[v][2]]
<1>2. \A v \in JsonValue : f[v] = h[v][1] /\ g[v] = h[v][2]
  OBVIOUS
<1>3. ASSUME NEW v \in JsonValue PROVE f[v] = RefusedStep(f, v) /\ g[v] = CleanStep(g, v)
  <2>1. Parts(v) \subseteq JsonValue
    BY JsonConstants
  <2>2. /\ [w \in Parts(v) |-> h[w][1]] = [w \in Parts(v) |-> f[w]]
        /\ [w \in Parts(v) |-> h[w][2]] = [w \in Parts(v) |-> g[w]]
    BY <1>2, <2>1
  <2>3. h[v] = BothOf(h, v)
    BY <1>1
  <2> HIDE DEF f, g
  <2>4. h[v] = <<RefusedStep([w \in Parts(v) |-> f[w]], v), CleanStep([w \in Parts(v) |-> g[w]], v)>>
    BY <2>2, <2>3 DEF BothOf
  <2>5. h[v] = <<RefusedStep(f, v), CleanStep(g, v)>>
    BY <2>4, StepsAreLocal
  <2>6. QED
    BY <1>2, <2>5
<1>4. f = [v \in JsonValue |-> RefusedStep(f, v)] /\ g = [v \in JsonValue |-> CleanStep(g, v)]
  <2>1. f = [v \in JsonValue |-> f[v]] /\ g = [v \in JsonValue |-> g[v]]
    OBVIOUS
  <2> HIDE DEF f, g
  <2>2. QED
    BY <1>3, <2>1
<1> HIDE DEF f, g
<1>5. WalkRec(f) /\ SanitizedRec(g)
  BY <1>4 DEF WalkRec, SanitizedRec
<1>6. QED
  BY <1>5

LEMMA WalksRecur ==
  ASSUME NEW v \in JsonValue
  PROVE  Walk[v] = RefusedStep(Walk, v) /\ Sanitized[v] = CleanStep(Sanitized, v)
<1>1. WalkRec(Walk) /\ SanitizedRec(Sanitized)
  BY WalksAreChosen, WalksAreSolutions
<1>2. QED
  BY <1>1 DEF WalkRec, SanitizedRec

(* An answer, that is, of every value. *)
LEMMA WalkIsBoolean ==
  ASSUME NEW v \in JsonValue
  PROVE  Walk[v] \in BOOLEAN
<1>1. RefusedStep(Walk, v) \in BOOLEAN
  BY DEF RefusedStep, Poisoned, HasInvisible, ContainsIdpi
<1>2. QED
  BY <1>1, WalksRecur

(* What the firewall makes of a value it lets pass. *)
StaysClean(v) == ~Walk[v] => /\ ~Walk[Sanitized[v]]
                             /\ Sanitized[Sanitized[v]] = Sanitized[v]

(* A value does what its parts do. *)
LEMMA CleanLevel ==
  ASSUME NEW v \in JsonValue, \A w \in Parts(v) : StaysClean(w)
  PROVE  StaysClean(v)
<1> SUFFICES ASSUME ~Walk[v]
             PROVE  ~Walk[Sanitized[v]] /\ Sanitized[Sanitized[v]] = Sanitized[v]
  BY DEF StaysClean
<1> DEFINE u == Sanitized[v]
<1>1. /\ u \in JsonValue /\ u = CleanStep(Sanitized, v) /\ ~RefusedStep(Walk, v)
      /\ Walk[u] = RefusedStep(Walk, u) /\ Sanitized[u] = CleanStep(Sanitized, u)
  BY SanitizedConstants, WalksRecur
<1> HIDE DEF u
<1>2. CASE v.is = "object"
  <2> DEFINE K == DOMAIN v.fields
             c == [k \in K |-> Sanitized[v.fields[k]]]
  <2>1. \A k \in K : k \notin BadKeys /\ ~Walk[v.fields[k]]
    BY <1>1, <1>2 DEF RefusedStep
  <2>2. \A k \in K : ~Walk[c[k]] /\ Sanitized[c[k]] = c[k]
    BY <1>2, <2>1, PartsOf DEF StaysClean
  <2>3. u = Object(c)
    <3>1. K \ BadKeys = K
      BY <2>1
    <3>2. QED
      BY <1>1, <1>2, <3>1 DEF CleanStep
  <2>4. DOMAIN c = K
    OBVIOUS
  <2> HIDE DEF c, K
  <2>5. u.is = "object" /\ u.fields = c
    BY <2>3 DEF Object
  <2>6. ~RefusedStep(Walk, u)
    BY <2>1, <2>2, <2>4, <2>5 DEF RefusedStep
  <2>7. CleanStep(Sanitized, u) = Object([k \in K |-> Sanitized[c[k]]])
    <3>1. K \ BadKeys = K
      BY <2>1
    <3>2. QED
      BY <2>4, <2>5, <3>1 DEF CleanStep
  <2>8. [k \in K |-> Sanitized[c[k]]] = c
    <3>1. [k \in K |-> Sanitized[c[k]]] = [k \in K |-> c[k]]
      BY <2>2
    <3>2. QED
      BY <3>1 DEF c
  <2>9. QED
    BY <1>1, <2>3, <2>6, <2>7, <2>8 DEF u
<1>3. CASE v.is = "list"
  <2> DEFINE I == DOMAIN v.values
             c == [i \in I |-> Sanitized[v.values[i]]]
  <2>1. \A i \in I : ~Walk[v.values[i]]
    BY <1>1, <1>3 DEF RefusedStep
  <2>2. \A i \in I : ~Walk[c[i]] /\ Sanitized[c[i]] = c[i]
    BY <1>3, <2>1, PartsOf DEF StaysClean
  <2>3. u = List(c)
    BY <1>1, <1>3 DEF CleanStep
  <2>4. DOMAIN c = I
    OBVIOUS
  <2> HIDE DEF c, I
  <2>5. u.is = "list" /\ u.values = c
    BY <2>3 DEF List
  <2>6. ~RefusedStep(Walk, u)
    BY <2>2, <2>4, <2>5 DEF RefusedStep
  <2>7. CleanStep(Sanitized, u) = List([i \in I |-> Sanitized[c[i]]])
    BY <2>4, <2>5 DEF CleanStep
  <2>8. [i \in I |-> Sanitized[c[i]]] = c
    <3>1. [i \in I |-> Sanitized[c[i]]] = [i \in I |-> c[i]]
      BY <2>2
    <3>2. QED
      BY <3>1 DEF c
  <2>9. QED
    BY <1>1, <2>3, <2>6, <2>7, <2>8 DEF u
<1>4. CASE v.is = "text"
  <2>1. v.atoms \in Seq(STRING) /\ ~Poisoned(v.atoms)
    BY <1>1, <1>4, JsonConstants DEF RefusedStep
  <2>2. ~Poisoned(StripZw(v.atoms)) /\ StripZw(StripZw(v.atoms)) = StripZw(v.atoms)
    BY <2>1, CleanText
  <2>3. u = Text(StripZw(v.atoms))
    BY <1>1, <1>4 DEF CleanStep
  <2>4. u.is = "text" /\ u.atoms = StripZw(v.atoms)
    BY <2>3 DEF Text
  <2>5. ~RefusedStep(Walk, u) /\ CleanStep(Sanitized, u) = Text(StripZw(u.atoms))
    BY <2>2, <2>4 DEF RefusedStep, CleanStep
  <2>6. QED
    BY <1>1, <2>2, <2>3, <2>4, <2>5 DEF u
<1>5. CASE v.is \notin {"object", "list", "text"}
  <2>1. u = v
    BY <1>1, <1>5 DEF CleanStep
  <2>2. QED
    BY <2>1 DEF u
<1>6. QED
  BY <1>2, <1>3, <1>4, <1>5

(* However deeply the value is nested: a least depth at which this fails   *)
(* would be that of a value whose parts are as they should be. *)
LEMMA CleanPasses ==
  ASSUME NEW v \in JsonValue
  PROVE  StaysClean(v)
<1> DEFINE bad == {d \in Nat : \E w \in JsonValue : Depth(w) = d /\ ~StaysClean(w)}
<1>1. bad = {}
  <2> SUFFICES ASSUME bad # {} PROVE FALSE
    OBVIOUS
  <2>1. bad \subseteq Nat
    OBVIOUS
  <2>2. PICK d \in bad : \A e \in bad : d <= e
    BY <2>1, NatLeast
  <2>3. PICK w \in JsonValue : Depth(w) = d /\ ~StaysClean(w)
    BY <2>2
  <2>4. ASSUME NEW x \in Parts(w) PROVE StaysClean(x)
    <3>1. x \in JsonValue /\ Depth(x) \in Nat /\ Depth(x) < d
      BY <2>3, JsonConstants
    <3>2. Depth(x) \notin bad
      BY <2>2, <3>1
    <3>3. QED
      BY <3>1, <3>2
  <2>5. QED
    BY <2>3, <2>4, CleanLevel
<1>2. Depth(v) \in Nat /\ Depth(v) \notin bad
  BY <1>1, JsonConstants
<1>3. QED
  BY <1>2

(* Invariant: the request is one that may be submitted, and the parser is  *)
(* given an envelope only if the firewall let it pass. *)
CleanInv ==
  /\ req \in Submission
  /\ at = "firewall" => cleaned = Null
  /\ cleaned # Null => /\ req.envelope \in JsonValue /\ ~Walk[req.envelope]
                       /\ cleaned = Sanitized[req.envelope]

LEMMA CleanStepInv == CleanInv /\ [DecisionNext]_decisionVars => CleanInv'
<1> SUFFICES ASSUME CleanInv, [DecisionNext]_decisionVars PROVE CleanInv'
  OBVIOUS
<1>1. CASE Sanitize
  <2>1. req' = req /\ cleaned = Null /\ at' # "firewall"
    BY <1>1 DEF Sanitize, CleanInv, End, Go
  <2>2. \/ cleaned' = Null
        \/ /\ req.envelope # NoEnvelope /\ ~Walk[req.envelope]
           /\ cleaned' = Sanitized[req.envelope]
    BY <1>1, <2>1 DEF Sanitize, End
  <2>3. req.envelope # NoEnvelope => req.envelope \in JsonValue
    BY SubmissionConstants DEF CleanInv
  <2>4. QED
    BY <2>1, <2>2, <2>3 DEF CleanInv
<1>2. CASE Parse \/ CheckBounds \/ CheckLine \/ CheckOffer
  <2>1. UNCHANGED <<req, cleaned>> /\ at' # "firewall"
    BY <1>2 DEF Parse, CheckBounds, CheckLine, CheckOffer, End, Go
  <2>2. QED
    BY <2>1 DEF CleanInv
<1>3. CASE UNCHANGED decisionVars
  BY <1>3 DEF decisionVars, CleanInv
<1>4. QED
  BY <1>1, <1>2, <1>3 DEF DecisionNext

(* What the firewall lets pass it would let pass again, unchanged, however *)
(* the envelope is nested and whatever its texts are: no phrase and no     *)
(* hidden key is left in, or made by, what sanitize takes out.             *)
THEOREM FirewallIsIdempotent == DecisionSpec => []PassedIsClean
<1>1. DecisionInit => CleanInv
  BY DEF DecisionInit, CleanInv
<1>2. CleanInv => PassedIsClean
  BY CleanPasses DEF CleanInv, StaysClean, PassedIsClean
<1>3. QED
  BY <1>1, <1>2, CleanStepInv, PTL DEF DecisionSpec

-----------------------------------------------------------------------------
(***************************************************************************)
(* The Catalog: SelectInSeq finds the first entry of its kind.             *)
(***************************************************************************)
IsCatalog(s) == s \in Seq({s[i] : i \in DOMAIN s})

LEMMA CatalogIsSeq ==
  ASSUME NEW m \in DOMAIN CatalogFile
  PROVE  /\ IsCatalog(CatalogFile[m])
         /\ Len(CatalogFile[m]) \in Nat /\ DOMAIN CatalogFile[m] = 1..Len(CatalogFile[m])
         /\ \A i \in DOMAIN CatalogFile[m] : IsEntry(CatalogFile[m][i])
<1>1. CatalogFile[m] \in Seq({CatalogFile[m][i] : i \in DOMAIN CatalogFile[m]})
  BY CatalogFileConstants
<1>2. QED
  BY <1>1, CatalogFileConstants, LenProperties DEF IsCatalog

(* hit is the least index of I, or 0 when there is none. *)
FirstOf(I, hit) ==
  /\ hit = 0 <=> I = {}
  /\ hit # 0 => hit \in I /\ \A j \in I : hit <= j

LEMMA MinIsFirst ==
  ASSUME NEW n \in Nat, NEW I \in SUBSET (1..n)
  PROVE  FirstOf(I, IF I # {} THEN Min(I) ELSE 0)
<1>1. CASE I = {}
  BY <1>1 DEF FirstOf
<1>2. CASE I # {}
  <2>1. I \subseteq Nat
    OBVIOUS
  <2>2. \E x \in I : \A y \in I : x <= y
    BY <1>2, <2>1, NatLeast
  <2>3. Min(I) \in I /\ \A y \in I : Min(I) <= y
    BY <2>2 DEF Min
  <2>4. Min(I) # 0
    BY <2>3
  <2>5. QED
    BY <1>2, <2>3, <2>4 DEF FirstOf
<1>3. QED
  BY <1>1, <1>2

Sold(s, sku) == {i \in 1..Len(s) : s[i].sku = sku}
NotWhole(s) == {i \in 1..Len(s) : s[i].state # "whole"}

(* get_catalog answers all the entries or fails as one of them does. *)
LEMMA CatalogAnswers ==
  ASSUME NEW m
  PROVE  \/ /\ m \in DOMAIN CatalogFile
            /\ GetCatalog(m) = Answer(CatalogFile[m])
            /\ \A i \in DOMAIN CatalogFile[m] : CatalogFile[m][i].state = "whole"
         \/ GetCatalog(m) = Error("KeyError")
         \/ GetCatalog(m) = Error("ValidationError")
<1>1. CASE m \notin DOMAIN CatalogFile
  BY <1>1 DEF GetCatalog
<1>2. CASE m \in DOMAIN CatalogFile
  <2> DEFINE s == CatalogFile[m]
             bad == SelectInSeq(s, LAMBDA i : i.state # "whole")
  <2>1. Len(s) \in Nat /\ DOMAIN s = 1..Len(s) /\ \A i \in DOMAIN s : IsEntry(s[i])
    BY <1>2, CatalogIsSeq
  <2>2. GetCatalog(m) = IF bad # 0 THEN Error(s[bad].state) ELSE Answer(s)
    BY <1>2 DEF GetCatalog
  <2>3. FirstOf(NotWhole(s), bad)
    <3>1. bad = IF NotWhole(s) # {} THEN Min(NotWhole(s)) ELSE 0
      BY DEF SelectInSeq, NotWhole
    <3>2. NotWhole(s) \in SUBSET (1..Len(s))
      BY DEF NotWhole
    <3>3. QED
      BY <2>1, <3>1, <3>2, MinIsFirst
  <2> HIDE DEF bad, s
  <2>4. CASE bad = 0
    BY <1>2, <2>1, <2>2, <2>3, <2>4 DEF FirstOf, NotWhole, s
  <2>5. CASE bad # 0
    <3>1. bad \in DOMAIN s /\ s[bad].state # "whole"
      BY <2>1, <2>3, <2>5 DEF FirstOf, NotWhole
    <3>2. s[bad].state \in {"KeyError", "ValidationError"}
      BY <2>1, <3>1 DEF IsEntry
    <3>3. QED
      BY <2>2, <2>5, <3>2
  <2>6. QED
    BY <2>4, <2>5
<1>3. QED
  BY <1>1, <1>2

(* The first of a merchant's entries of one SKU, and what get_item says.   *)
Found(m, sku, hit) ==
  /\ FirstOf(Sold(CatalogFile[m], sku), hit)
  /\ GetItem(m, sku) = Answer(<<CatalogFile[m][hit]>>)
  /\ IsEntry(CatalogFile[m][hit]) /\ CatalogFile[m][hit].state = "whole"

(* get_item fails as get_catalog does, or answers the first entry of the   *)
(* SKU among entries that are all whole, or knows none. *)
LEMMA ItemAnswers ==
  ASSUME NEW m, NEW sku
  PROVE  \/ /\ GetCatalog(m).error \in {"KeyError", "ValidationError"}
            /\ GetItem(m, sku).error = GetCatalog(m).error
         \/ /\ m \in DOMAIN CatalogFile /\ GetCatalog(m) = Answer(CatalogFile[m])
            /\ Sold(CatalogFile[m], sku) = {}
            /\ GetItem(m, sku).error = "KeyError"
         \/ /\ m \in DOMAIN CatalogFile /\ GetCatalog(m) = Answer(CatalogFile[m])
            /\ \E hit \in Sold(CatalogFile[m], sku) : Found(m, sku, hit)
<1>1. CASE GetCatalog(m) \in {Error("KeyError"), Error("ValidationError")}
  <2>1. GetCatalog(m).error \in {"KeyError", "ValidationError"}
    BY <1>1 DEF Error
  <2>2. GetItem(m, sku) = GetCatalog(m)
    BY <2>1 DEF GetItem
  <2>3. QED
    BY <2>1, <2>2
<1>2. CASE /\ m \in DOMAIN CatalogFile
           /\ GetCatalog(m) = Answer(CatalogFile[m])
           /\ \A i \in DOMAIN CatalogFile[m] : CatalogFile[m][i].state = "whole"
  <2> DEFINE s == CatalogFile[m]
             hit == SelectInSeq(s, LAMBDA i : i.sku = sku)
  <2>1. Len(s) \in Nat /\ DOMAIN s = 1..Len(s) /\ \A i \in DOMAIN s : IsEntry(s[i])
    BY <1>2, CatalogIsSeq
  <2>2. GetItem(m, sku) = IF hit = 0 THEN Error("KeyError") ELSE Answer(<<s[hit]>>)
    BY <1>2 DEF GetItem, Answer
  <2>3. FirstOf(Sold(s, sku), hit)
    <3>1. hit = IF Sold(s, sku) # {} THEN Min(Sold(s, sku)) ELSE 0
      BY DEF SelectInSeq, Sold
    <3>2. Sold(s, sku) \in SUBSET (1..Len(s))
      BY DEF Sold
    <3>3. QED
      BY <2>1, <3>1, <3>2, MinIsFirst
  <2> HIDE DEF hit, s
  <2>4. CASE hit = 0
    BY <1>2, <2>2, <2>3, <2>4 DEF FirstOf, Error, s
  <2>5. CASE hit # 0
    <3>1. hit \in Sold(s, sku) /\ hit \in DOMAIN s
      BY <2>1, <2>3, <2>5 DEF FirstOf, Sold
    <3>2. QED
      BY <1>2, <2>1, <2>2, <2>3, <2>5, <3>1 DEF s, Found
  <2>6. QED
    BY <2>4, <2>5
<1>3. QED
  BY <1>1, <1>2, CatalogAnswers

(* What Policy calls listed is what get_item finds, at the same offer. *)
LEMMA ListedIsFound ==
  ASSUME NEW p, NEW l
  PROVE  /\ P!Listed(p, l) <=> GetItem(p.merchant, l.sku).error = "none"
         /\ P!Listed(p, l) =>
              /\ P!Offer(p, l) = GetItem(p.merchant, l.sku).items[1]
              /\ P!Offer(p, l).unit \in Nat /\ P!Offer(p, l).maxPercent \in 0..100
<1> DEFINE m == p.merchant
           skus == {CatalogFile[m][i].sku : i \in DOMAIN CatalogFile[m]}
<1>1. CASE GetCatalog(m).error \in {"KeyError", "ValidationError"}
  <2>1. ~P!Listed(p, l)
    BY <1>1 DEF P!Listed, Offers, Readable
  <2>2. GetItem(m, l.sku).error # "none"
    BY <1>1, ItemAnswers DEF Answer
  <2>3. QED
    BY <2>1, <2>2
<1>2. CASE m \in DOMAIN CatalogFile /\ GetCatalog(m) = Answer(CatalogFile[m])
  <2>1. m \in Readable
    BY <1>2 DEF Readable, Answer
  <2>2. Offers[m] = [sku \in skus |-> GetItem(m, sku).items[1]]
    BY <2>1 DEF Offers
  <2>3. P!Listed(p, l) <=> l.sku \in skus
    BY <2>1, <2>2 DEF P!Listed, Offers
  <2>4. P!Listed(p, l) => P!Offer(p, l) = GetItem(m, l.sku).items[1]
    BY <2>2, <2>3 DEF P!Offer
  <2>5. DOMAIN CatalogFile[m] = 1..Len(CatalogFile[m])
    BY <1>2, CatalogIsSeq
  <2>6. l.sku \in skus <=> Sold(CatalogFile[m], l.sku) # {}
    BY <2>5 DEF Sold
  <2>7. CASE Sold(CatalogFile[m], l.sku) = {}
    <3>1. GetItem(m, l.sku).error # "none"
      BY <1>2, <2>7, ItemAnswers DEF Answer
    <3>2. QED
      BY <2>3, <2>6, <2>7, <3>1
  <2>8. CASE Sold(CatalogFile[m], l.sku) # {}
    <3>1. GetCatalog(m).error \notin {"KeyError", "ValidationError"}
      BY <1>2 DEF Answer
    <3>2. PICK hit \in Sold(CatalogFile[m], l.sku) : Found(m, l.sku, hit)
      BY <2>8, <3>1, ItemAnswers
    <3>3. GetItem(m, l.sku).error = "none" /\ GetItem(m, l.sku).items[1] = CatalogFile[m][hit]
      BY <3>2 DEF Found, Answer
    <3>4. QED
      BY <2>3, <2>4, <2>6, <2>8, <3>2, <3>3 DEF Found, IsEntry
  <2>9. QED
    BY <2>7, <2>8
<1>3. QED
  BY <1>1, <1>2, CatalogAnswers DEF Error

-----------------------------------------------------------------------------
(***************************************************************************)
(* The discount: what each line is granted, and its share before rounding. *)
(***************************************************************************)
Quote(p, i) == p.items[i]
Share(p, i) == P!Offer(p, Quote(p, i)).unit * Quote(p, i).qty * P!Offer(p, Quote(p, i)).maxPercent
Grants(p) ==
  [i \in 1..Len(p.items) |-> IF P!Listed(p, Quote(p, i)) THEN P!LineDiscount(p, Quote(p, i)) ELSE 0]
Shares(p) ==
  [i \in 1..Len(p.items) |-> IF P!Listed(p, Quote(p, i)) THEN Share(p, i) ELSE 0]
AllListed(p) == \A i \in 1..Len(p.items) : P!Listed(p, Quote(p, i))

LEMMA ProposalLines ==
  ASSUME NEW p, IsProposal(p)
  PROVE  /\ Len(p.items) \in Nat /\ DOMAIN p.items = 1..Len(p.items)
         /\ \A i \in 1..Len(p.items) : Quote(p, i).qty \in Nat \ {0} /\ Quote(p, i).unit \in Nat
<1>1. p.items \in Seq([sku : STRING, qty : Nat \ {0}, unit : Nat])
  BY DEF IsProposal
<1>2. Len(p.items) \in Nat /\ DOMAIN p.items = 1..Len(p.items)
  BY <1>1, LenProperties
<1>3. ASSUME NEW i \in 1..Len(p.items)
      PROVE  Quote(p, i).qty \in Nat \ {0} /\ Quote(p, i).unit \in Nat
  <2>1. p.items[i] \in [sku : STRING, qty : Nat \ {0}, unit : Nat]
    BY <1>1, ElementOfSeq
  <2>2. QED
    BY <2>1 DEF Quote
<1>4. QED
  BY <1>2, <1>3

(* get_item raises on one line of a proposal just if it does on the first. *)
LEMMA RaisesOnAnyLine ==
  ASSUME NEW p, IsProposal(p), NEW i \in 1..Len(p.items)
  PROVE  P!Unreadable(p) <=> GetItem(p.merchant, Quote(p, i).sku).error = "ValidationError"
<1> DEFINE m == p.merchant
<1>1. p.items # <<>>
  BY ProposalLines, EmptySeq DEF IsProposal
<1>2. GetItem(m, Quote(p, i).sku).error = "ValidationError" <=> GetCatalog(m).error = "ValidationError"
  BY ItemAnswers DEF Found, Answer
<1>3. GetCatalog(m).error = "ValidationError" => m \in DOMAIN CatalogFile
  BY DEF GetCatalog, Error
<1>4. QED
  BY <1>1, <1>2, <1>3 DEF P!Unreadable, Unbuilt

LEMMA FloorOfHundred ==
  ASSUME NEW x \in Nat
  PROVE  x \div 100 \in Nat /\ 100 * (x \div 100) <= x /\ x - 100 * (x \div 100) <= 99
  OBVIOUS

LEMMA NatProduct ==
  ASSUME NEW x \in Nat, NEW y \in Nat
  PROVE  x * y \in Nat
  OBVIOUS

LEMMA LineGrants ==
  ASSUME NEW p, IsProposal(p), NEW i \in 1..Len(p.items)
  PROVE  /\ Grants(p)[i] \in Nat /\ Shares(p)[i] \in Nat
         /\ 100 * Grants(p)[i] <= Shares(p)[i]
         /\ Shares(p)[i] - 100 * Grants(p)[i] <= 99
         /\ P!Listed(p, Quote(p, i)) => P!LineDiscount(p, Quote(p, i)) = Share(p, i) \div 100
<1>1. Quote(p, i).qty \in Nat
  BY ProposalLines
<1>2. CASE P!Listed(p, Quote(p, i))
  <2> DEFINE o == P!Offer(p, Quote(p, i))
  <2>1. o.unit \in Nat /\ o.maxPercent \in 0..100
    BY <1>2, ListedIsFound
  <2>2. o.maxPercent \in Nat
    <3>1. \A x \in 0..100 : x \in Nat
      OBVIOUS
    <3> HIDE DEF o
    <3>2. QED
      BY Zenon, <2>1, <3>1
  <2>3. o.unit * Quote(p, i).qty \in Nat
    BY <1>1, <2>1, NatProduct
  <2>4. Share(p, i) \in Nat
    BY <2>2, <2>3, NatProduct DEF Share
  <2>5. P!LineDiscount(p, Quote(p, i)) = Share(p, i) \div 100
    BY DEF P!LineDiscount, Share
  <2>6. /\ Grants(p)[i] = Share(p, i) \div 100 /\ Shares(p)[i] = Share(p, i)
    BY <1>2, <2>5 DEF Grants, Shares
  <2>7. QED
    BY <2>4, <2>5, <2>6, FloorOfHundred
<1>3. CASE ~P!Listed(p, Quote(p, i))
  BY <1>3 DEF Grants, Shares
<1>4. QED
  BY <1>2, <1>3

(* The fold of MaxDiscount adds the lines' grants ... *)
GrantRec(p, g) ==
  g = [t \in SUBSET (DOMAIN p.items) |->
         IF t = {} THEN 0 ELSE g[t \ {Max(t)}] + P!LineDiscount(p, p.items[Max(t)])]

LEMMA GrantFold ==
  ASSUME NEW p
  PROVE  P!MaxDiscount(p) = (CHOOSE g : GrantRec(p, g))[DOMAIN p.items]
  BY DEF P!MaxDiscount, P!FoldLeft, P!MapThenFoldSet, P!Max, Max, GrantRec

LEMMA MaxDiscountAdds ==
  ASSUME NEW p, IsProposal(p), AllListed(p)
  PROVE  P!MaxDiscount(p) = SumTo(Grants(p), Len(p.items))
<1> DEFINE n == Len(p.items)
           d == Grants(p)
<1>1. n \in Nat /\ DOMAIN p.items = 1..n
  BY ProposalLines
<1>2. \A i \in 1..n : d[i] \in Int /\ d[i] = P!LineDiscount(p, p.items[i])
  <2>1. ASSUME NEW i \in 1..n PROVE d[i] \in Int /\ d[i] = P!LineDiscount(p, p.items[i])
    <3>1. d[i] \in Nat
      BY LineGrants
    <3>2. d[i] = P!LineDiscount(p, p.items[i])
      BY DEF AllListed, Grants, Quote
    <3>3. QED
      BY <3>1, <3>2
  <2>2. QED
    BY <2>1
<1> HIDE DEF n, d
<1>3. ASSUME NEW t \in SUBSET (1..n), t # {}
      PROVE  d[Max(t)] = P!LineDiscount(p, p.items[Max(t)])
  BY <1>1, <1>2, <1>3, MaxInSubset
<1>4. ASSUME NEW g PROVE GrantRec(p, g) <=> Adds(d, n, g)
  <2> DEFINE a == [t \in SUBSET (1..n) |->
                     IF t = {} THEN 0 ELSE g[t \ {Max(t)}] + P!LineDiscount(p, p.items[Max(t)])]
             b == [t \in SUBSET (1..n) |-> IF t = {} THEN 0 ELSE g[t \ {Max(t)}] + d[Max(t)]]
  <2>1. a = b
    BY <1>3
  <2>2. (GrantRec(p, g) <=> g = a) /\ (Adds(d, n, g) <=> g = b)
    BY <1>1 DEF GrantRec, Adds
  <2> HIDE DEF a, b
  <2>3. QED
    BY <2>1, <2>2
<1>5. \E g : Adds(d, n, g)
  BY <1>1, <1>2, AddsExists
<1> DEFINE g == CHOOSE h : GrantRec(p, h)
<1>6. Adds(d, n, g)
  BY <1>4, <1>5
<1>7. P!MaxDiscount(p) = g[1..n]
  BY <1>1, GrantFold
<1> HIDE DEF g
<1>8. g[1..n] = SumTo(d, n)
  BY <1>1, <1>2, <1>6, AddsSum
<1>9. QED
  BY <1>7, <1>8 DEF n, d

(* ... and the fold of Exact adds their shares. *)
ShareRec(p, g) ==
  g = [t \in SUBSET (DOMAIN p.items) |->
         IF t = {} THEN 0 ELSE g[t \ {Max(t)}] + Share(p, Max(t))]

LEMMA ShareFold == Exact = (CHOOSE g : ShareRec(Cart, g))[DOMAIN Cart.items]
  BY DEF Exact, FoldLeft, MapThenFoldSet, Max, ShareRec, Share, Quote

LEMMA ExactAdds ==
  ASSUME IsProposal(Cart), AllListed(Cart)
  PROVE  Exact = SumTo(Shares(Cart), Len(Cart.items))
<1> DEFINE p == Cart
           n == Len(p.items)
           d == Shares(p)
<1>1. n \in Nat /\ DOMAIN p.items = 1..n
  BY ProposalLines
<1>2. \A i \in 1..n : d[i] \in Int /\ d[i] = Share(p, i)
  <2>1. ASSUME NEW i \in 1..n PROVE d[i] \in Nat
    BY LineGrants
  <2>2. ASSUME NEW i \in 1..n PROVE d[i] = Share(p, i)
    BY DEF AllListed, Shares
  <2>3. QED
    BY <2>1, <2>2
<1>3. Exact = (CHOOSE g : ShareRec(p, g))[1..n]
  BY <1>1, ShareFold
<1> HIDE DEF n, d, p
<1>4. ASSUME NEW t \in SUBSET (1..n), t # {}
      PROVE  d[Max(t)] = Share(p, Max(t))
  BY <1>1, <1>2, <1>4, MaxInSubset
<1>5. ASSUME NEW g PROVE ShareRec(p, g) <=> Adds(d, n, g)
  <2> DEFINE a == [t \in SUBSET (1..n) |-> IF t = {} THEN 0 ELSE g[t \ {Max(t)}] + Share(p, Max(t))]
             b == [t \in SUBSET (1..n) |-> IF t = {} THEN 0 ELSE g[t \ {Max(t)}] + d[Max(t)]]
  <2>1. a = b
    BY <1>4
  <2>2. (ShareRec(p, g) <=> g = a) /\ (Adds(d, n, g) <=> g = b)
    BY <1>1 DEF ShareRec, Adds
  <2> HIDE DEF a, b
  <2>3. QED
    BY <2>1, <2>2
<1>6. \E g : Adds(d, n, g)
  BY <1>1, <1>2, AddsExists
<1> DEFINE g == CHOOSE h : ShareRec(p, h)
<1>7. Adds(d, n, g)
  BY <1>5, <1>6
<1>8. Exact = g[1..n]
  BY <1>3
<1> HIDE DEF g
<1>9. g[1..n] = SumTo(d, n)
  BY <1>1, <1>2, <1>7, AddsSum
<1>10. QED
  BY <1>8, <1>9 DEF n, d, p

LEMMA OneMore ==
  ASSUME NEW i \in Int, NEW g \in Nat, NEW s \in Nat, NEW a \in Nat, NEW b \in Nat,
         100 * g <= s, s - 100 * g <= 99 * (i - 1), 100 * a <= b, b - 100 * a <= 99
  PROVE  /\ g + a \in Nat /\ s + b \in Nat
         /\ 100 * (g + a) <= s + b /\ (s + b) - 100 * (g + a) <= 99 * i
  OBVIOUS

(* Every line loses less than a paisa to the floor, and so the lines up to *)
(* k lose less than k. *)
LEMMA Rounding ==
  ASSUME NEW p, IsProposal(p), NEW k \in 0..Len(p.items)
  PROVE  /\ SumTo(Grants(p), k) \in Nat /\ SumTo(Shares(p), k) \in Nat
         /\ 100 * SumTo(Grants(p), k) <= SumTo(Shares(p), k)
         /\ SumTo(Shares(p), k) - 100 * SumTo(Grants(p), k) <= 99 * k
<1> DEFINE n == Len(p.items)
           G(i) == SumTo(Grants(p), i)
           S(i) == SumTo(Shares(p), i)
           Ok(i) == /\ G(i) \in Nat /\ S(i) \in Nat
                    /\ 100 * G(i) <= S(i) /\ S(i) - 100 * G(i) <= 99 * i
           bad == {i \in 0..n : ~Ok(i)}
<1>1. n \in Nat
  BY ProposalLines
<1>2. \A i \in 1..n : /\ Grants(p)[i] \in Nat /\ Shares(p)[i] \in Nat
                      /\ 100 * Grants(p)[i] <= Shares(p)[i]
                      /\ Shares(p)[i] - 100 * Grants(p)[i] <= 99
  BY LineGrants
<1>3. (\A i \in 1..n : Grants(p)[i] \in Int) /\ (\A i \in 1..n : Shares(p)[i] \in Int)
  BY <1>2
<1>4. G(0) = 0 /\ \A i \in 1..n : G(i) = G(i - 1) + Grants(p)[i]
  BY <1>1, <1>3, Sums
<1>5. S(0) = 0 /\ \A i \in 1..n : S(i) = S(i - 1) + Shares(p)[i]
  BY <1>1, <1>3, Sums
<1> HIDE DEF n, G, S
<1>6. Ok(0)
  BY <1>4, <1>5
<1>7. ASSUME NEW i \in 1..n, Ok(i - 1) PROVE Ok(i)
  <2>1. /\ G(i) = G(i - 1) + Grants(p)[i] /\ S(i) = S(i - 1) + Shares(p)[i]
        /\ Grants(p)[i] \in Nat /\ Shares(p)[i] \in Nat
        /\ 100 * Grants(p)[i] <= Shares(p)[i] /\ Shares(p)[i] - 100 * Grants(p)[i] <= 99
    BY <1>2, <1>4, <1>5
  <2>2. i \in Int /\ G(i - 1) \in Nat /\ S(i - 1) \in Nat
    BY <1>1, <1>7
  <2>3. /\ 100 * G(i - 1) <= S(i - 1) /\ S(i - 1) - 100 * G(i - 1) <= 99 * (i - 1)
    BY <1>7
  <2>4. /\ G(i - 1) + Grants(p)[i] \in Nat /\ S(i - 1) + Shares(p)[i] \in Nat
        /\ 100 * (G(i - 1) + Grants(p)[i]) <= S(i - 1) + Shares(p)[i]
        /\ (S(i - 1) + Shares(p)[i]) - 100 * (G(i - 1) + Grants(p)[i]) <= 99 * i
    <3> HIDE DEF Ok
    <3>1. QED
      BY <2>1, <2>2, <2>3, OneMore
  <2>5. QED
    BY <2>1, <2>4
<1> HIDE DEF Ok
<1>8. bad = {}
  <2> SUFFICES ASSUME bad # {} PROVE FALSE
    OBVIOUS
  <2>1. bad \subseteq Nat
    BY <1>1
  <2>2. PICK i \in bad : \A j \in bad : i <= j
    BY <2>1, NatLeast
  <2>3. i \in 1..n /\ i - 1 \in 0..n
    BY <1>1, <1>6, <2>2
  <2>4. i - 1 \notin bad
    BY <2>2, <2>3
  <2>5. QED
    BY <1>7, <2>2, <2>3, <2>4
<1>9. Ok(k)
  BY <1>8 DEF n
<1>10. QED
  BY <1>9 DEF Ok, G, S

-----------------------------------------------------------------------------
(***************************************************************************)
(* The loop.  Invariant: the lines before `line` are listed at the price   *)
(* they were quoted, and the allowance is what they grant.                 *)
(***************************************************************************)
Priced(p, i) == P!Listed(p, Quote(p, i)) /\ Quote(p, i).unit = P!Offer(p, Quote(p, i)).unit

Looped(p, l, sum) ==
  /\ l \in 1..(Len(p.items) + 1)
  /\ sum \in Nat /\ sum = SumTo(Grants(p), l - 1)
  /\ \A i \in 1..(l - 1) : Priced(p, i)

Bounded(p, m) == ~P!OverLimit(p, m) /\ ~P!SkuNotAllowed(p, m)

LoopInv ==
  /\ req \in Submission
  /\ Looped(Cart, line, allowance)
  /\ at = "lines" => Bounded(Cart, req.terms)
  /\ DecisionTypeOK
  /\ PolicyIsTheLoop

LEMMA LoopStarts ==
  ASSUME NEW p, IsProposal(p)
  PROVE  Looped(p, 1, 0)
<1>1. Len(p.items) \in Nat
  BY ProposalLines
<1>2. \A i \in 1..Len(p.items) : Grants(p)[i] \in Int
  BY LineGrants
<1>3. SumTo(Grants(p), 0) = 0
  BY <1>1, <1>2, Sums
<1>4. QED
  BY <1>1, <1>3 DEF Looped

LEMMA LoopSteps ==
  ASSUME NEW p, IsProposal(p), NEW l, NEW sum, Looped(p, l, sum), l <= Len(p.items),
         NEW found, found = GetItem(p.merchant, Quote(p, l).sku), found.error = "none",
         found.items[1].unit = Quote(p, l).unit
  PROVE  Looped(p, l + 1, sum + Discount(found.items[1], Quote(p, l).qty))
<1> DEFINE n == Len(p.items)
           grant == P!LineDiscount(p, Quote(p, l))
<1>1. n \in Nat /\ l \in 1..n /\ l + 1 \in 1..(n + 1)
  BY ProposalLines DEF Looped
<1>2. P!Listed(p, Quote(p, l)) /\ P!Offer(p, Quote(p, l)) = found.items[1]
  BY ListedIsFound
<1>3. Discount(found.items[1], Quote(p, l).qty) = grant
  BY <1>2 DEF Discount, P!LineDiscount
<1>4. Grants(p)[l] = grant /\ Grants(p)[l] \in Nat
  BY <1>1, <1>2, LineGrants DEF Grants
<1>5. \A i \in 1..n : Grants(p)[i] \in Int
  BY LineGrants
<1>6. SumTo(Grants(p), l) = SumTo(Grants(p), l - 1) + Grants(p)[l]
  BY <1>1, <1>5, Sums
<1>7. Priced(p, l)
  BY <1>2 DEF Priced
<1> HIDE DEF grant, n
<1>8. sum + grant \in Nat /\ sum + grant = SumTo(Grants(p), (l + 1) - 1)
  BY <1>1, <1>4, <1>6 DEF Looped
<1>9. \A i \in 1..((l + 1) - 1) : Priced(p, i)
  BY <1>1, <1>7 DEF Looped
<1>10. QED
  BY <1>1, <1>3, <1>8, <1>9 DEF Looped, n

(* At the end of the loop every line is listed at its price, and the       *)
(* allowance is max_discount of the whole cart. *)
LEMMA LoopEnds ==
  ASSUME NEW p, IsProposal(p), NEW l, NEW sum, Looped(p, l, sum), ~(l <= Len(p.items))
  PROVE  /\ l - 1 = Len(p.items)
         /\ AllListed(p) /\ ~P!Unreadable(p) /\ ~P!InventedPrice(p)
         /\ sum = P!MaxDiscount(p)
<1> DEFINE n == Len(p.items)
<1>1. n \in Nat /\ DOMAIN p.items = 1..n
  BY ProposalLines
<1>2. l - 1 = n
  BY <1>1 DEF Looped
<1>3. \A i \in 1..n : Priced(p, i)
  BY <1>2 DEF Looped
<1>4. AllListed(p)
  BY <1>3 DEF AllListed, Priced
<1>5. ~P!InventedPrice(p)
  BY <1>1, <1>3 DEF P!InventedPrice, P!Lines, Priced, Quote
<1>6. ~P!Unreadable(p)
  <2>1. CASE p.items = <<>>
    BY <2>1 DEF P!Unreadable
  <2>2. CASE p.items # <<>>
    <3>1. 1 \in 1..n
      BY <1>1, <2>2, EmptySeq DEF IsProposal
    <3>2. GetItem(p.merchant, Quote(p, 1).sku).error = "none"
      BY <1>4, <3>1, ListedIsFound DEF AllListed
    <3>3. QED
      BY <3>1, <3>2, RaisesOnAnyLine
  <2>3. QED
    BY <2>1, <2>2
<1>7. sum = P!MaxDiscount(p)
  BY <1>2, <1>4, MaxDiscountAdds DEF Looped
<1>8. QED
  BY <1>2, <1>4, <1>5, <1>6, <1>7

LEMMA CartIsProposal ==
  ASSUME req \in Submission
  PROVE  IsProposal(Cart) /\ Len(Cart.items) \in Nat /\ DOMAIN Cart.items = 1..Len(Cart.items)
<1>1. IsProposal(Cart)
  BY SubmissionConstants DEF Cart
<1>2. QED
  BY <1>1, ProposalLines

(* Every way out of parse_envelope has a name. *)
LEMMA ParseOutcomes ==
  ASSUME NEW protocol, NEW o
  PROVE  ParseEnvelope(protocol, o).outcome \in
           {"unknown_protocol", "raise", "missing_required_field", "missing_expires_at", "parsed"}
  BY DEF ParseEnvelope, Failed, MandateOfEnvelope

LEMMA LoopInit == DecisionInit => LoopInv
<1> SUFFICES ASSUME DecisionInit PROVE LoopInv
  OBVIOUS
<1> USE DEF DecisionInit
<1>1. IsProposal(Cart) /\ Len(Cart.items) \in Nat
  BY CartIsProposal
<1>2. Looped(Cart, line, allowance)
  BY <1>1, LoopStarts
<1>3. DecisionTypeOK
  BY <1>1 DEF DecisionTypeOK
<1>4. QED
  BY <1>2, <1>3 DEF LoopInv, PolicyIsTheLoop

LEMMA LoopStep == LoopInv /\ [DecisionNext]_decisionVars => LoopInv'
<1> SUFFICES ASSUME LoopInv, [DecisionNext]_decisionVars PROVE LoopInv'
  OBVIOUS
<1> USE DEF LoopInv
<1>1. IsProposal(Cart) /\ Len(Cart.items) \in Nat /\ DOMAIN Cart.items = 1..Len(Cart.items)
  BY CartIsProposal
<1>2. CASE Sanitize
  BY <1>2 DEF Sanitize, End, Go, DecisionTypeOK, PolicyIsTheLoop, Cart
<1>3. CASE Parse
  <2>1. UNCHANGED <<req, line, allowance>> /\ Cart' = Cart
    BY <1>3 DEF Parse, Cart
  <2>2. \/ at' = "gated" /\ verdict' # "none"
        \/ at = "parser" /\ at' = "bounds" /\ verdict' = verdict
    BY <1>3, ParseOutcomes DEF Parse, End, Go
  <2>3. QED
    BY <2>1, <2>2 DEF DecisionTypeOK, PolicyIsTheLoop
<1>4. CASE CheckBounds
  <2>1. UNCHANGED <<req, line, allowance>> /\ Cart' = Cart
    BY <1>4 DEF CheckBounds, Cart
  <2>2. CASE Cart.total > req.terms.max
    <3>1. P!EvaluateProposal(Cart, req.terms) = "over_limit"
      BY <2>2 DEF P!EvaluateProposal, P!OverLimit
    <3>2. at' = "decided" /\ verdict' = "over_limit"
      BY <1>4, <2>2 DEF CheckBounds, End
    <3>3. QED
      BY <2>1, <3>1, <3>2 DEF DecisionTypeOK, PolicyIsTheLoop
  <2>3. CASE ~(Cart.total > req.terms.max) /\ \E i \in DOMAIN Cart.items : Cart.items[i].sku \notin req.terms.skus
    <3>1. P!EvaluateProposal(Cart, req.terms) = "sku_not_allowed"
      BY <2>3 DEF P!EvaluateProposal, P!OverLimit, P!SkuNotAllowed, P!Lines
    <3>2. at' = "decided" /\ verdict' = "sku_not_allowed"
      BY <1>4, <2>3 DEF CheckBounds, End
    <3>3. QED
      BY <2>1, <3>1, <3>2 DEF DecisionTypeOK, PolicyIsTheLoop
  <2>4. CASE ~(Cart.total > req.terms.max) /\ ~\E i \in DOMAIN Cart.items : Cart.items[i].sku \notin req.terms.skus
    <3>1. Bounded(Cart, req.terms)
      BY <2>4 DEF Bounded, P!OverLimit, P!SkuNotAllowed, P!Lines
    <3>2. at = "bounds" /\ at' = "lines" /\ verdict' = verdict
      BY <1>4, <2>4 DEF CheckBounds, Go
    <3>3. QED
      BY <2>1, <3>1, <3>2 DEF DecisionTypeOK, PolicyIsTheLoop
  <2>5. QED
    BY <2>2, <2>3, <2>4
<1>5. CASE CheckLine
  <2> DEFINE quoted == Cart.items[line]
             found == GetItem(Cart.merchant, quoted.sku)
  <2>1. UNCHANGED req /\ Cart' = Cart /\ at = "lines" /\ line <= Len(Cart.items) /\ line \in DOMAIN Cart.items
    BY <1>1, <1>5 DEF CheckLine, Cart, Looped
  <2>2. quoted = Quote(Cart, line) /\ quoted \in P!Lines(Cart)
    BY <2>1 DEF Quote, P!Lines
  <2>3. P!Listed(Cart, quoted) <=> found.error = "none"
    BY ListedIsFound
  <2>4. P!Listed(Cart, quoted) => P!Offer(Cart, quoted) = found.items[1]
    BY ListedIsFound
  <2>5. P!Unreadable(Cart) <=> found.error = "ValidationError"
    BY <1>1, <2>1, <2>2, RaisesOnAnyLine
  <2>6. found.error = "ValidationError" \/ found.error = "KeyError" \/ found.error = "none"
    BY ItemAnswers DEF Found, Answer
  <2>7. /\ P!Unreadable(Cart) => P!EvaluateProposal(Cart, req.terms) = "raise"
        /\ ~P!Unreadable(Cart) /\ P!InventedPrice(Cart) =>
             P!EvaluateProposal(Cart, req.terms) = "invented_price"
    BY <2>1 DEF P!EvaluateProposal, Bounded
  <2> HIDE DEF found, quoted
  <2>8. CASE found.error = "ValidationError"
    <3>1. at' = "decided" /\ verdict' = "raise" /\ UNCHANGED <<line, allowance>>
      BY <1>5, <2>8 DEF CheckLine, End, found, quoted
    <3>2. QED
      BY <2>1, <2>5, <2>7, <2>8, <3>1 DEF DecisionTypeOK, PolicyIsTheLoop
  <2>9. CASE found.error = "KeyError" \/ (found.error = "none" /\ found.items[1].unit # quoted.unit)
    <3>1. at' = "decided" /\ verdict' = "invented_price" /\ UNCHANGED <<line, allowance>>
      BY <1>5, <2>9 DEF CheckLine, End, found, quoted
    <3>2. P!InventedPrice(Cart)
      BY <2>2, <2>3, <2>4, <2>9 DEF P!InventedPrice
    <3>3. ~P!Unreadable(Cart)
      BY <2>5, <2>9
    <3>4. QED
      BY <2>1, <2>7, <3>1, <3>2, <3>3 DEF DecisionTypeOK, PolicyIsTheLoop
  <2>10. CASE found.error = "none" /\ found.items[1].unit = quoted.unit
    <3>1. /\ allowance' = allowance + Discount(found.items[1], quoted.qty)
          /\ line' = line + 1 /\ UNCHANGED <<at, verdict>>
      BY <1>5, <2>10 DEF CheckLine, found, quoted
    <3>2. Looped(Cart, line + 1, allowance + Discount(found.items[1], quoted.qty))
      BY <1>1, <2>1, <2>2, <2>10, LoopSteps DEF found
    <3>3. Looped(Cart, line, allowance)'
      BY <2>1, <3>1, <3>2
    <3>4. line' \in 1..(Len(Cart'.items) + 1) /\ allowance' \in Nat
      BY <3>3 DEF Looped
    <3>5. DecisionTypeOK'
      BY <2>1, <3>1, <3>4 DEF DecisionTypeOK
    <3>6. PolicyIsTheLoop' /\ req' \in Submission /\ Bounded(Cart', req'.terms)
      BY <2>1, <3>1 DEF PolicyIsTheLoop
    <3>7. QED
      BY <3>3, <3>5, <3>6
  <2>11. QED
    BY <2>6, <2>8, <2>9, <2>10
<1>6. CASE CheckOffer
  <2>1. UNCHANGED <<req, line, allowance>> /\ Cart' = Cart /\ at = "lines" /\ ~(line <= Len(Cart.items))
    BY <1>1, <1>6 DEF CheckOffer, Cart, Looped
  <2>2. ~P!Unreadable(Cart) /\ ~P!InventedPrice(Cart) /\ allowance = P!MaxDiscount(Cart)
    BY <1>1, <2>1, LoopEnds
  <2>3. at' = "decided"
        /\ verdict' = IF Cart.discount < 0 \/ Cart.discount > allowance THEN "invented_discount"
                      ELSE IF Cart.copy = "pressing" THEN "dark_pattern" ELSE "allowed"
    BY <1>6 DEF CheckOffer, End
  <2>4. P!EvaluateProposal(Cart, req.terms) = verdict'
    BY <2>1, <2>2, <2>3
    DEF P!EvaluateProposal, Bounded, P!InventedDiscount, P!DarkPattern
  <2>5. QED
    BY <2>1, <2>3, <2>4 DEF DecisionTypeOK, PolicyIsTheLoop
<1>7. CASE UNCHANGED decisionVars
  BY <1>7 DEF decisionVars, DecisionTypeOK, PolicyIsTheLoop, Cart
<1>8. QED
  BY <1>2, <1>3, <1>4, <1>5, <1>6, <1>7 DEF DecisionNext

THEOREM LoopInvariant == DecisionSpec => []LoopInv
<1>1. QED
  BY LoopInit, LoopStep, PTL DEF DecisionSpec

(* The stages, the line and the allowance keep their types, and a request  *)
(* has a verdict exactly when it is decided (run_execute).                 *)
THEOREM DecisionTyped == DecisionSpec => []DecisionTypeOK
<1>1. LoopInv => DecisionTypeOK
  BY DEF LoopInv
<1>2. QED
  BY <1>1, LoopInvariant, PTL

(* evaluate_proposal, line by line, with its early returns and what it     *)
(* raises on a merchant's malformed entry, is the function Checkout takes  *)
(* in one step.                                                            *)
THEOREM LoopIsPolicy == DecisionSpec => []PolicyIsTheLoop
<1>1. LoopInv => PolicyIsTheLoop
  BY DEF LoopInv
<1>2. QED
  BY <1>1, LoopInvariant, PTL

(* What the policy allows off a cart is never more than the exact          *)
(* percentages, and less by less than a paisa a line.                      *)
THEOREM DiscountBounded == DecisionSpec => []DiscountBound
<1>1. LoopInv => DiscountBound
  <2> SUFFICES ASSUME LoopInv, at = "lines", line > Len(Cart.items)
               PROVE  /\ 100 * allowance <= Exact
                      /\ Exact - 100 * allowance <= 99 * Len(Cart.items)
    BY DEF DiscountBound
  <2> DEFINE n == Len(Cart.items)
  <2>1. IsProposal(Cart) /\ n \in Nat
    BY CartIsProposal DEF LoopInv
  <2>2. Looped(Cart, line, allowance) /\ ~(line <= n)
    BY <2>1 DEF LoopInv, Looped
  <2>3. line - 1 = n /\ AllListed(Cart)
    BY <2>1, <2>2, LoopEnds
  <2>4. allowance = SumTo(Grants(Cart), n)
    BY <2>2, <2>3 DEF Looped
  <2>5. Exact = SumTo(Shares(Cart), n)
    BY <2>1, <2>3, ExactAdds
  <2>6. n \in 0..n
    BY <2>1
  <2>7. QED
    BY <2>1, <2>4, <2>5, <2>6, Rounding
<1>2. QED
  BY <1>1, LoopInvariant, PTL

-----------------------------------------------------------------------------
(***************************************************************************)
(* The parser and the gate.                                                *)
(***************************************************************************)
LEMMA ParsedAsWhole ==
  ASSUME NEW protocol, NEW o
  PROVE  \/ ParseEnvelope(protocol, o).outcome # "parsed"
         \/ /\ ParseEnvelope(protocol, o) = MandateOfEnvelope(o) /\ WellFormed(o)
            /\ ~Falsy(MandateField(o)) /\ ~Falsy(AgentField(o))
  BY DEF ParseEnvelope, Failed

LEMMA NamedIsNotEmpty ==
  ASSUME NEW v, ~Falsy(v)
  PROVE  Str(v) # <<>>
  BY DEF Str, Falsy

LEMMA ExpiryIsAware ==
  ASSUME NEW v, IsExpiry(v)
  PROVE  Aware(v) = TRUE
<1>1. CASE v.is = "text"
  <2>1. WithZone(IsoOf(v.atoms)) = <<"date", "offset">>
    BY <1>1 DEF IsExpiry, IsoForms, WithZone
  <2>2. Contains(<<"date", "offset">>, "offset")
    <3>1. 2 \in 1..Len(<<"date", "offset">>) /\ <<"date", "offset">>[2] = "offset"
      OBVIOUS
    <3>2. QED
      BY <3>1 DEF Contains
  <2>3. QED
    BY <2>1, <2>2 DEF Aware
<1>2. CASE v.is # "text"
  BY <1>2 DEF Aware
<1>3. QED
  BY <1>1, <1>2

LEMMA MandateIsWhole ==
  ASSUME NEW o, WellFormed(o), ~Falsy(MandateField(o)), ~Falsy(AgentField(o)),
         NEW r, r = MandateOfEnvelope(o)
  PROVE  /\ r.mandate # <<>> /\ r.agent # <<>>
         /\ r.aware /\ r.max >= 0 /\ r.skus # <<>>
         /\ \A qty \in r.quantities : qty > 0
<1>1. r.mandate # <<>> /\ r.agent # <<>>
  BY NamedIsNotEmpty DEF MandateOfEnvelope
<1>2. r.aware
  BY ExpiryIsAware DEF WellFormed, MandateOfEnvelope
<1>3. r.max >= 0 /\ r.skus # <<>>
  BY DEF WellFormed, MandateOfEnvelope, AreSkus
<1>4. \A qty \in r.quantities : qty > 0
  BY DEF WellFormed, MandateOfEnvelope, AreItems, IsItem
<1>5. QED
  BY <1>1, <1>2, <1>3, <1>4

(* A Mandate that parse_envelope returns has ids, an expiry with an        *)
(* offset, an amount, a SKU and positive quantities, whatever the envelope *)
(* was.                                                                    *)
THEOREM ParsedWhole == DecisionSpec => []ParsedIsWhole
<1>1. DecisionInit => ParsedIsWhole
  BY DEF DecisionInit, ParsedIsWhole, Failed
<1>2. ParsedIsWhole /\ [DecisionNext]_decisionVars => ParsedIsWhole'
  <2> SUFFICES ASSUME ParsedIsWhole, [DecisionNext]_decisionVars PROVE ParsedIsWhole'
    OBVIOUS
  <2>1. CASE UNCHANGED parsed
    BY <2>1 DEF ParsedIsWhole
  <2>2. CASE parsed' = ParseEnvelope(req.protocol, cleaned)
    <3>1. CASE parsed'.outcome # "parsed"
      BY <3>1 DEF ParsedIsWhole
    <3>2. CASE parsed'.outcome = "parsed"
      <4>1. /\ parsed' = MandateOfEnvelope(cleaned) /\ WellFormed(cleaned)
            /\ ~Falsy(MandateField(cleaned)) /\ ~Falsy(AgentField(cleaned))
        BY <2>2, <3>2, ParsedAsWhole
      <4>2. QED
        BY <4>1, MandateIsWhole DEF ParsedIsWhole
    <3>3. QED
      BY <3>1, <3>2
  <2>3. UNCHANGED parsed \/ parsed' = ParseEnvelope(req.protocol, cleaned)
    BY DEF DecisionNext, decisionVars, Sanitize, Parse, CheckBounds, CheckLine, CheckOffer
  <2>4. QED
    BY <2>1, <2>2, <2>3
<1>3. QED
  BY <1>1, <1>2, PTL DEF DecisionSpec

LEMMA FieldStates ==
  ASSUME NEW v
  PROVE  /\ FieldState(v) \in Words \cup {Missing}
         /\ FieldState(v) = "malformed" <=> v = Raise
         /\ v # Raise => (FieldState(v) = Missing <=> Falsy(v))
         /\ v # Raise /\ ~Falsy(v) => (FieldState(v) = "same" <=> Str(v) = Cart.mandate)
<1>1. "malformed" \in Words /\ "same" \in Words /\ "other" \in Words
  BY DEF Words
<1>2. "malformed" # Missing /\ "same" # Missing /\ "other" # Missing
  BY <1>1, WordConstants
<1>3. FieldState(v) \in {Missing, "malformed", "same", "other"}
  BY DEF FieldState
<1>4. CASE v = Raise
  BY <1>1, <1>4, WordConstants DEF FieldState
<1>5. CASE v # Raise /\ Falsy(v)
  BY <1>2, <1>5 DEF FieldState
<1>6. CASE v # Raise /\ ~Falsy(v)
  BY <1>1, <1>2, <1>6 DEF FieldState
<1>7. QED
  BY <1>4, <1>5, <1>6

(* The record of Gate says of an envelope what the parser finds in it. *)
LEMMA AbstractedFields ==
  ASSUME NEW o, req \in Submission, req.envelope # NoEnvelope
  PROVE  /\ Walk[req.envelope] \in BOOLEAN
         /\ Abstracted(o).tainted = Walk[req.envelope]
         /\ Abstracted(o).protocol = Missing <=> req.protocol = ""
         /\ req.protocol # "" =>
              (Abstracted(o).protocol = "unknown" <=> Lower(req.protocol) \notin Protocols)
         /\ Abstracted(o).mandate = FieldState(MandateField(o))
         /\ Abstracted(o).agent = FieldState(AgentField(o))
         /\ Abstracted(o).exp = Missing <=> ExpiryField(o) = Null
         /\ ExpiryField(o) # Null => (Abstracted(o).exp = "malformed" <=> ~IsExpiry(ExpiryField(o)))
         /\ Abstracted(o).skus = Missing <=> AsTexts(SkuField(o)) = <<>>
         /\ Abstracted(o).rest = "malformed" <=> ~WellFormed(o)
         /\ Abstracted(o) # NoEnvelope
<1> DEFINE a == Abstracted(o)
<1>1. Walk[req.envelope] \in BOOLEAN
  BY SubmissionConstants, WalkIsBoolean
<1>2. /\ Missing \notin Words /\ Protocols \subseteq Words /\ "unknown" \in Words /\ "unknown" \notin Protocols
      /\ "given" \in Words /\ "malformed" \in Words
  BY WordConstants DEF Words, Protocols
<1>3. a.tainted = Walk[req.envelope]
  BY DEF Abstracted
<1>4. /\ a.protocol \in Words \cup {Missing}
      /\ a.protocol = Missing <=> req.protocol = ""
      /\ req.protocol # "" => (a.protocol = "unknown" <=> Lower(req.protocol) \notin Protocols)
  <2>1. a.protocol = IF req.protocol = "" THEN Missing
                     ELSE IF Lower(req.protocol) \in Protocols THEN Lower(req.protocol) ELSE "unknown"
    BY DEF Abstracted
  <2> HIDE DEF a
  <2>2. QED
    BY <1>2, <2>1
<1>5. /\ a.mandate = FieldState(MandateField(o)) /\ a.agent = FieldState(AgentField(o))
      /\ a.mandate \in Words \cup {Missing} /\ a.agent \in Words \cup {Missing}
  BY FieldStates DEF Abstracted
<1>6. /\ a.exp \in Words \cup {Missing}
      /\ a.exp = Missing <=> ExpiryField(o) = Null
      /\ ExpiryField(o) # Null => (a.exp = "malformed" <=> ~IsExpiry(ExpiryField(o)))
  <2>1. a.exp = IF ExpiryField(o) = Null THEN Missing
                ELSE IF IsExpiry(ExpiryField(o)) THEN "given" ELSE "malformed"
    BY DEF Abstracted
  <2> HIDE DEF a
  <2>2. QED
    BY <1>2, <2>1
<1>7. /\ a.skus \in Words \cup {Missing} /\ a.rest \in Words \cup {Missing}
      /\ a.skus = Missing <=> AsTexts(SkuField(o)) = <<>>
      /\ a.rest = "malformed" <=> ~WellFormed(o)
  <2>1. /\ a.skus = IF AsTexts(SkuField(o)) = <<>> THEN Missing ELSE "given"
        /\ a.rest = IF WellFormed(o) THEN "given" ELSE "malformed"
    BY DEF Abstracted
  <2> HIDE DEF a
  <2>2. QED
    BY <1>2, <2>1
<1>8. a # NoEnvelope
  <2>1. a = [tainted |-> a.tainted, protocol |-> a.protocol, mandate |-> a.mandate,
             agent |-> a.agent, exp |-> a.exp, skus |-> a.skus, rest |-> a.rest]
    BY DEF Abstracted
  <2>2. a.tainted \in BOOLEAN
    BY <1>1, <1>3
  <2> HIDE DEF a
  <2>3. a \in [tainted : BOOLEAN, protocol : Words \cup {Missing},
               mandate : Words \cup {Missing}, agent : Words \cup {Missing},
               exp : Words \cup {Missing}, skus : Words \cup {Missing},
               rest : Words \cup {Missing}]
    BY <1>4, <1>5, <1>6, <1>7, <2>1, <2>2
  <2>4. QED
    BY <2>3, WordConstants
<1>9. QED
  BY <1>1, <1>3, <1>4, <1>5, <1>6, <1>7, <1>8

(* The parser by itself and the parser as Gate has it end alike ... *)
LEMMA OutcomesAgree ==
  ASSUME NEW o, req \in Submission, req.envelope # NoEnvelope, req.protocol # ""
  PROVE  ParseEnvelope(req.protocol, o).outcome = ParseOutcome(Abstracted(o))
<1> DEFINE a == Abstracted(o)
           mf == MandateField(o)
           af == AgentField(o)
<1>1. a.protocol = "unknown" <=> Lower(req.protocol) \notin Protocols
  BY AbstractedFields
<1>2. "malformed" \in {a.mandate, a.agent} <=> Raise \in {mf, af}
  BY AbstractedFields, FieldStates
<1>3. mf # Raise /\ af # Raise =>
        (a.mandate = Missing \/ a.agent = Missing <=> Falsy(mf) \/ Falsy(af))
  BY AbstractedFields, FieldStates
<1>4. a.exp = Missing <=> ExpiryField(o) = Null
  BY AbstractedFields
<1>5. ExpiryField(o) # Null =>
        (a.exp = "malformed" \/ a.skus = Missing \/ a.rest = "malformed" <=> ~WellFormed(o))
  BY AbstractedFields DEF WellFormed, AreSkus
<1> HIDE DEF a, mf, af
<1>6. ParseOutcome(a) =
        IF Lower(req.protocol) \notin Protocols THEN "unknown_protocol"
        ELSE IF Raise \in {mf, af} THEN "raise"
        ELSE IF Falsy(mf) \/ Falsy(af) THEN "missing_required_field"
        ELSE IF ExpiryField(o) = Null THEN "missing_expires_at"
        ELSE IF ~WellFormed(o) THEN "raise"
        ELSE "parsed"
  BY <1>1, <1>2, <1>3, <1>4, <1>5 DEF ParseOutcome
<1>7. ParseEnvelope(req.protocol, o).outcome =
        IF Lower(req.protocol) \notin Protocols THEN "unknown_protocol"
        ELSE IF Raise \in {mf, af} THEN "raise"
        ELSE IF Falsy(mf) \/ Falsy(af) THEN "missing_required_field"
        ELSE IF ExpiryField(o) = Null THEN "missing_expires_at"
        ELSE IF ~WellFormed(o) THEN "raise"
        ELSE "parsed"
  BY DEF ParseEnvelope, Failed, MandateOfEnvelope, mf, af
<1>8. QED
  BY <1>6, <1>7 DEF a

(* ... and so the gate, taken in one step, answers as the stages do. *)
LEMMA GateSays ==
  ASSUME NEW o, req \in Submission, req.envelope # NoEnvelope
  PROVE  LET result == ParseEnvelope(req.protocol, o) IN
         GateVerdict(Abstracted(o), "same") =
           IF Walk[req.envelope] THEN "idpi_detected"
           ELSE IF req.protocol = "" THEN "unknown_protocol"
           ELSE IF result.outcome # "parsed" THEN result.outcome
           ELSE IF result.mandate # Cart.mandate THEN "mandate_invalid"
           ELSE "open"
<1> DEFINE a == Abstracted(o)
           result == ParseEnvelope(req.protocol, o)
<1>1. a # NoEnvelope /\ (FirewallRefuses(a) <=> Walk[req.envelope])
  BY AbstractedFields DEF FirewallRefuses
<1>2. a.protocol = Missing <=> req.protocol = ""
  BY AbstractedFields
<1>3. req.protocol # "" => result.outcome = ParseOutcome(a)
  BY OutcomesAgree
<1>4. result.outcome = "parsed" => (result.mandate # Cart.mandate <=> a.mandate # "same")
  <2> SUFFICES ASSUME result.outcome = "parsed"
               PROVE  result.mandate # Cart.mandate <=> a.mandate # "same"
    OBVIOUS
  <2>1. result = MandateOfEnvelope(o) /\ ~Falsy(MandateField(o)) /\ MandateField(o) # Raise
    BY DEF ParseEnvelope, Failed
  <2>2. result.mandate = Str(MandateField(o))
    BY <2>1 DEF MandateOfEnvelope
  <2>3. QED
    BY <2>1, <2>2, AbstractedFields, FieldStates
<1> HIDE DEF a, result
<1>5. GateVerdict(a, "same") =
        IF Walk[req.envelope] THEN "idpi_detected"
        ELSE IF req.protocol = "" THEN "unknown_protocol"
        ELSE IF result.outcome # "parsed" THEN result.outcome
        ELSE IF result.mandate # Cart.mandate THEN "mandate_invalid"
        ELSE "open"
  BY <1>1, <1>2, <1>3, <1>4 DEF GateVerdict
<1>6. QED
  BY <1>5 DEF a, result

(* Invariant: what the parser is given is what the firewall made of an     *)
(* envelope it does not refuse. *)
GateInv ==
  /\ req \in Submission
  /\ at = "parser" => /\ req.envelope # NoEnvelope /\ ~Walk[req.envelope]
                      /\ cleaned = Sanitized[req.envelope]
  /\ GateIsTheComputation

Verdict == IF req.envelope = NoEnvelope THEN "open"
           ELSE GateVerdict(Abstracted(Sanitized[req.envelope]), "same")

LEMMA GateStep == GateInv /\ [DecisionNext]_decisionVars => GateInv'
<1> SUFFICES ASSUME GateInv, [DecisionNext]_decisionVars PROVE GateInv'
  OBVIOUS
<1>1. /\ req \in Submission
      /\ at = "parser" => /\ req.envelope # NoEnvelope /\ ~Walk[req.envelope]
                          /\ cleaned = Sanitized[req.envelope]
      /\ at = "gated" => verdict = Verdict
      /\ at \in {"bounds", "lines", "decided"} => Verdict = "open"
  BY DEF GateInv, GateIsTheComputation, Verdict
<1>2. req' = req /\ Verdict' = Verdict
  <2>1. req' = req
    BY DEF DecisionNext, decisionVars, Sanitize, Parse, CheckBounds, CheckLine, CheckOffer
  <2>2. QED
    BY <2>1 DEF Verdict, Abstracted, FieldState, Cart
<1>3. /\ at' = "parser" => /\ req.envelope # NoEnvelope /\ ~Walk[req.envelope]
                           /\ cleaned' = Sanitized[req.envelope]
      /\ at' = "gated" => verdict' = Verdict
      /\ at' \in {"bounds", "lines", "decided"} => Verdict = "open"
  <2>1. CASE Sanitize
    <3>1. CASE req.envelope = NoEnvelope
      BY <2>1, <3>1 DEF Sanitize, Go, Verdict
    <3>2. CASE req.envelope # NoEnvelope /\ Walk[req.envelope]
      <4>1. Verdict = "idpi_detected"
        BY <1>1, <3>2, GateSays DEF Verdict
      <4>2. QED
        BY <2>1, <3>2, <4>1 DEF Sanitize, End
    <3>3. CASE req.envelope # NoEnvelope /\ ~Walk[req.envelope]
      BY <2>1, <3>3 DEF Sanitize, Go
    <3>4. QED
      BY <3>1, <3>2, <3>3
  <2>2. CASE Parse
    <3> DEFINE result == ParseEnvelope(req.protocol, cleaned)
    <3>1. at = "parser" /\ req.envelope # NoEnvelope /\ ~Walk[req.envelope] /\ cleaned = Sanitized[req.envelope]
      BY <1>1, <2>2 DEF Parse
    <3>2. Verdict = IF req.protocol = "" THEN "unknown_protocol"
                    ELSE IF result.outcome # "parsed" THEN result.outcome
                    ELSE IF result.mandate # Cart.mandate THEN "mandate_invalid"
                    ELSE "open"
      BY <1>1, <3>1, GateSays DEF Verdict
    <3> HIDE DEF result
    <3>3. \/ at' = "gated" /\ verdict' = Verdict
          \/ at' = "bounds" /\ Verdict = "open"
      BY <2>2, <3>2 DEF Parse, End, Go, result
    <3>4. QED
      BY <3>3
  <2>3. CASE CheckBounds \/ CheckLine \/ CheckOffer
    <3>1. at \in {"bounds", "lines", "decided"} /\ at' \in {"bounds", "lines", "decided"}
      BY <2>3 DEF CheckBounds, CheckLine, CheckOffer, End, Go
    <3>2. QED
      BY <1>1, <3>1
  <2>4. CASE UNCHANGED decisionVars
    BY <1>1, <2>4 DEF decisionVars
  <2>5. QED
    BY <2>1, <2>2, <2>3, <2>4 DEF DecisionNext
<1>4. GateIsTheComputation'
  BY <1>2, <1>3 DEF GateIsTheComputation, Verdict
<1>5. QED
  BY <1>1, <1>2, <1>3, <1>4 DEF GateInv

(* The gate that Checkout takes in one step refuses with the reason the    *)
(* firewall, the parser and the match come to, and is open where they are. *)
THEOREM GateIsTheStages == DecisionSpec => []GateIsTheComputation
<1>1. DecisionInit => GateInv
  BY DEF DecisionInit, GateInv, GateIsTheComputation
<1>2. GateInv => GateIsTheComputation
  BY DEF GateInv
<1>3. QED
  BY <1>1, <1>2, GateStep, PTL DEF DecisionSpec

-----------------------------------------------------------------------------
(***************************************************************************)
(* What an Agent reads of the Catalog and what it is held to.              *)
(***************************************************************************)
(* No merchant of the file is called nothing. *)
AllNamed == "" \notin DOMAIN CatalogFile

(* Both doors show all the entries of a merchant or nothing of it.         *)
LEMMA ViewsShow ==
  ASSUME NEW shown \in Views, AllNamed
  PROVE  /\ shown.error = "none" <=> GetCatalog(Cart.merchant).error = "none"
         /\ shown.error = "none" => Cart.merchant \in DOMAIN CatalogFile
                                    /\ shown = Answer(CatalogFile[Cart.merchant])
<1> DEFINE m == Cart.merchant
<1> DEFINE c == GetCatalog(m)
           t == McpToolsCall("list_catalog_items", m)
           h == ReadCatalog(m)
<1>1. shown = t \/ shown = h
  BY DEF Views
<1>2. t = IF m = "" THEN Error("-32602") ELSE IF c.error = "KeyError" THEN Error("-32602") ELSE c
  BY DEF McpToolsCall
<1>3. h = IF c.error = "KeyError" THEN Error("404") ELSE c
  BY DEF ReadCatalog
<1>4. /\ Error("-32602").error = "-32602" /\ Error("404").error = "404"
      /\ Error("KeyError").error = "KeyError" /\ Error("ValidationError").error = "ValidationError"
  BY DEF Error
<1> HIDE DEF t, h
<1>5. CASE m \in DOMAIN CatalogFile /\ c = Answer(CatalogFile[m])
  <2>1. c.error = "none"
    BY <1>5 DEF Answer
  <2>2. m # ""
    BY Zenon, <1>5 DEF AllNamed
  <2> HIDE DEF c, m
  <2>3. shown = c
    BY <1>1, <1>2, <1>3, <2>1, <2>2
  <2>4. QED
    BY <1>5, <2>1, <2>3 DEF c, m
<1>6. CASE c = Error("KeyError")
  <2> HIDE DEF c, m
  <2>1. c.error = "KeyError" /\ t = Error("-32602") /\ h = Error("404")
    BY <1>2, <1>3, <1>4, <1>6
  <2>2. shown.error # "none" /\ c.error # "none"
    BY <1>1, <1>4, <2>1
  <2>3. QED
    BY <2>2 DEF c, m
<1>7. CASE c = Error("ValidationError")
  <2> HIDE DEF c, m
  <2>1. c.error = "ValidationError" /\ t \in {c, Error("-32602")} /\ h = c
    BY <1>2, <1>3, <1>4, <1>7
  <2>2. shown.error # "none" /\ c.error # "none"
    BY <1>1, <1>4, <2>1
  <2>3. QED
    BY <2>2 DEF c, m
<1>8. QED
  BY <1>5, <1>6, <1>7, CatalogAnswers

(* The first listing an Agent sees of a SKU is the offer the policy finds. *)
LEMMA FirstShown ==
  ASSUME NEW m \in DOMAIN CatalogFile, NEW sku
  PROVE  FirstOf(Sold(CatalogFile[m], sku), First(Answer(CatalogFile[m]), sku))
<1> DEFINE s == CatalogFile[m]
           hit == SelectInSeq(s, LAMBDA i : i.sku = sku)
<1>1. Len(s) \in Nat
  BY CatalogIsSeq
<1>2. hit = IF Sold(s, sku) # {} THEN Min(Sold(s, sku)) ELSE 0
  BY DEF SelectInSeq, Sold
<1>3. Sold(s, sku) \in SUBSET (1..Len(s))
  BY DEF Sold
<1>4. First(Answer(s), sku) = hit
  BY DEF First, Answer, SelectInSeq
<1> HIDE DEF hit
<1>5. QED
  BY <1>1, <1>2, <1>3, <1>4, MinIsFirst

LEMMA FirstIsOne ==
  ASSUME NEW m \in DOMAIN CatalogFile, NEW sku, NEW a, NEW b,
         FirstOf(Sold(CatalogFile[m], sku), a), FirstOf(Sold(CatalogFile[m], sku), b)
  PROVE  a = b
<1>1. Sold(CatalogFile[m], sku) \subseteq Int
  BY CatalogIsSeq DEF Sold
<1>2. QED
  BY <1>1 DEF FirstOf

LEMMA ListedOffer ==
  ASSUME NEW p, NEW l, P!Listed(p, l)
  PROVE  /\ p.merchant \in DOMAIN CatalogFile /\ GetCatalog(p.merchant) = Answer(CatalogFile[p.merchant])
         /\ \E hit \in Sold(CatalogFile[p.merchant], l.sku) :
              /\ FirstOf(Sold(CatalogFile[p.merchant], l.sku), hit)
              /\ P!Offer(p, l) = CatalogFile[p.merchant][hit]
<1> DEFINE m == p.merchant
<1>1. GetItem(m, l.sku).error = "none" /\ P!Offer(p, l) = GetItem(m, l.sku).items[1]
  BY ListedIsFound
<1>2. /\ m \in DOMAIN CatalogFile /\ GetCatalog(m) = Answer(CatalogFile[m])
      /\ \E hit \in Sold(CatalogFile[m], l.sku) : Found(m, l.sku, hit)
  BY <1>1, ItemAnswers
<1>3. PICK hit \in Sold(CatalogFile[m], l.sku) : Found(m, l.sku, hit)
  BY <1>2
<1>4. GetItem(m, l.sku).items[1] = CatalogFile[m][hit]
  BY <1>3 DEF Found, Answer
<1>5. QED
  BY <1>1, <1>2, <1>3, <1>4 DEF Found

LEMMA AllowedIsPriced ==
  ASSUME LoopInv, at = "decided", verdict = "allowed", NEW l \in P!Lines(Cart)
  PROVE  P!Listed(Cart, l) /\ l.unit = P!Offer(Cart, l).unit
<1>1. P!EvaluateProposal(Cart, req.terms) = "allowed"
  BY DEF LoopInv, PolicyIsTheLoop
<1>2. ~P!InventedPrice(Cart)
  BY <1>1 DEF P!EvaluateProposal
<1>3. QED
  BY <1>2 DEF P!InventedPrice

LEMMA PricedIsNotInvented ==
  ASSUME LoopInv, at = "decided",
         \A l \in P!Lines(Cart) : P!Listed(Cart, l) /\ l.unit = P!Offer(Cart, l).unit
  PROVE  verdict # "invented_price"
<1>1. ~P!InventedPrice(Cart)
  BY DEF P!InventedPrice
<1>2. P!EvaluateProposal(Cart, req.terms) # "invented_price"
  BY <1>1 DEF P!EvaluateProposal
<1>3. QED
  BY <1>2 DEF LoopInv, PolicyIsTheLoop

(* What an Agent reads is what it is held to, by whichever door, if no     *)
(* merchant of the file is named "": the MCP tool takes that name for no   *)
(* name at all, the HTTP routes do not.                                    *)
THEOREM QuotesAreKept ==
  ASSUME AllNamed
  PROVE  DecisionSpec => []QuotesHold
<1>1. LoopInv => QuotesHold
  <2> SUFFICES ASSUME LoopInv, at = "decided" PROVE QuotesHold
    BY DEF QuotesHold
  <2> DEFINE m == Cart.merchant
             Kept(shown) ==
               /\ verdict = "allowed" /\ Cart.items # <<>> => shown.error = "none"
               /\ verdict = "allowed" =>
                    \A l \in P!Lines(Cart) : \E i \in DOMAIN shown.items : Quotes(l, shown.items[i])
               /\ shown.error = "none" /\ (\A l \in P!Lines(Cart) :
                      LET n == First(shown, l.sku) IN n # 0 /\ Quotes(l, shown.items[n])) =>
                    verdict # "invented_price"
             Sure(l) == LET offer == ReadCatalogItem(m, l.sku)
                        IN offer.error = "none" /\ Quotes(l, offer.items[1])
  <2>1. ASSUME NEW shown \in Views PROVE Kept(shown)
    <3>1. ASSUME verdict = "allowed", NEW l \in P!Lines(Cart)
          PROVE  shown.error = "none" /\ \E i \in DOMAIN shown.items : Quotes(l, shown.items[i])
      <4>1. P!Listed(Cart, l) /\ l.unit = P!Offer(Cart, l).unit
        BY <3>1, AllowedIsPriced
      <4>2. /\ m \in DOMAIN CatalogFile /\ GetCatalog(m) = Answer(CatalogFile[m])
            /\ \E hit \in Sold(CatalogFile[m], l.sku) : P!Offer(Cart, l) = CatalogFile[m][hit]
        BY <4>1, ListedOffer
      <4>3. PICK hit \in Sold(CatalogFile[m], l.sku) : P!Offer(Cart, l) = CatalogFile[m][hit]
        BY <4>2
      <4>4. shown.error = "none" /\ shown.items = CatalogFile[m]
        <5>1. GetCatalog(m).error = "none"
          BY <4>2 DEF Answer
        <5>2. shown.error = "none" /\ shown = Answer(CatalogFile[m])
          BY <5>1, ViewsShow
        <5>3. QED
          BY <5>2 DEF Answer
      <4>5. hit \in DOMAIN shown.items /\ Quotes(l, shown.items[hit])
        BY <4>1, <4>2, <4>3, <4>4, CatalogIsSeq DEF Quotes, Sold
      <4>6. QED
        BY <4>4, <4>5
    <3>2. ASSUME verdict = "allowed", Cart.items # <<>> PROVE shown.error = "none"
      <4>1. 1 \in DOMAIN Cart.items
        <5>1. Cart.items \in Seq([sku : STRING, qty : Nat \ {0}, unit : Nat])
          BY CartIsProposal DEF LoopInv, IsProposal
        <5>2. Len(Cart.items) # 0
          BY <3>2, <5>1, EmptySeq
        <5>3. Len(Cart.items) \in Nat /\ DOMAIN Cart.items = 1..Len(Cart.items)
          BY <5>1, LenProperties
        <5>4. QED
          BY <5>2, <5>3
      <4>2. Cart.items[1] \in P!Lines(Cart)
        BY <4>1 DEF P!Lines
      <4>3. QED
        BY <3>1, <3>2, <4>2
    <3>3. ASSUME shown.error = "none",
                 \A l \in P!Lines(Cart) :
                   LET n == First(shown, l.sku) IN n # 0 /\ Quotes(l, shown.items[n])
          PROVE  verdict # "invented_price"
      <4>1. m \in DOMAIN CatalogFile /\ shown = Answer(CatalogFile[m]) /\ shown.items = CatalogFile[m]
        <5>1. m \in DOMAIN CatalogFile /\ shown = Answer(CatalogFile[m])
          BY <3>3, ViewsShow
        <5>2. QED
          BY <5>1 DEF Answer
      <4>2. GetCatalog(m).error = "none"
        BY <3>3, ViewsShow
      <4>3. ASSUME NEW l \in P!Lines(Cart)
            PROVE  P!Listed(Cart, l) /\ l.unit = P!Offer(Cart, l).unit
        <5> DEFINE n == First(shown, l.sku)
        <5>1. n # 0 /\ Quotes(l, shown.items[n]) /\ FirstOf(Sold(CatalogFile[m], l.sku), n)
          BY <3>3, <4>1, FirstShown
        <5>2. Sold(CatalogFile[m], l.sku) # {}
          BY <5>1 DEF FirstOf
        <5>3. \E hit \in Sold(CatalogFile[m], l.sku) : Found(m, l.sku, hit)
          BY <4>2, <5>2, ItemAnswers
        <5>4. GetItem(m, l.sku).error = "none"
          <6>1. PICK hit \in Sold(CatalogFile[m], l.sku) : Found(m, l.sku, hit)
            BY <5>3
          <6>2. QED
            BY <6>1 DEF Found, Answer
        <5>5. P!Listed(Cart, l)
          BY <5>4, ListedIsFound
        <5>6. PICK hit \in Sold(CatalogFile[m], l.sku) :
                /\ FirstOf(Sold(CatalogFile[m], l.sku), hit)
                /\ P!Offer(Cart, l) = CatalogFile[m][hit]
          BY <5>5, ListedOffer
        <5>7. hit = n
          BY <4>1, <5>1, <5>6, FirstIsOne
        <5>8. QED
          BY <4>1, <5>1, <5>5, <5>6, <5>7 DEF Quotes
      <4>4. QED
        BY <4>3, PricedIsNotInvented
    <3>4. QED
      BY <3>1, <3>2, <3>3
  <2>2. (\A l \in P!Lines(Cart) : Sure(l)) => verdict # "invented_price"
    <3> SUFFICES ASSUME \A l \in P!Lines(Cart) : Sure(l) PROVE verdict # "invented_price"
      OBVIOUS
    <3>1. ASSUME NEW l \in P!Lines(Cart)
          PROVE  P!Listed(Cart, l) /\ l.unit = P!Offer(Cart, l).unit
      <4>1. /\ ReadCatalogItem(m, l.sku).error = "none"
            /\ Quotes(l, ReadCatalogItem(m, l.sku).items[1])
        OBVIOUS
      <4>2. ReadCatalogItem(m, l.sku) = GetItem(m, l.sku)
        BY <4>1 DEF ReadCatalogItem, Error
      <4>3. P!Listed(Cart, l) /\ P!Offer(Cart, l) = GetItem(m, l.sku).items[1]
        BY <4>1, <4>2, ListedIsFound
      <4>4. QED
        BY <4>1, <4>2, <4>3 DEF Quotes
    <3>2. QED
      BY <3>1, PricedIsNotInvented
  <2> HIDE DEF Kept, Sure
  <2>3. (\A shown \in Views : Kept(shown)) /\ ((\A l \in P!Lines(Cart) : Sure(l)) => verdict # "invented_price")
    BY <2>1, <2>2
  <2>4. QED
    BY <2>3 DEF QuotesHold, Kept, Sure
<1>2. QED
  BY <1>1, LoopInvariant, PTL
=============================================================================
