------------------------------ MODULE SumLemmas -----------------------------
(***************************************************************************)
(* Sums over finite sets, which the models take from the community modules *)
(* (SumFunctionOnSet), for sets of any size.  A fact about all finite sets *)
(* is proved by looking at a smallest set for which it fails, a fact about *)
(* all numbers by looking at the least.                                    *)
(***************************************************************************)
EXTENDS Functions, FiniteSetTheorems, TLAPS

\* The element that a sum takes next.
Chosen(s) == CHOOSE x \in s : TRUE

\* g is the recursive function by which the sum of f over S is defined.
SumsOver(g, f, S) ==
    g = [s \in SUBSET S |-> IF s = {} THEN 0 ELSE f[Chosen(s)] + g[s \ {Chosen(s)}]]

\* A set of subsets of a finite set has one of which none of the others is a part.
LEMMA Smallest ==
    ASSUME NEW S, IsFiniteSet(S), NEW T, T \subseteq SUBSET S, T # {}
    PROVE  \E m \in T : \A t \in T : t \subseteq m => t = m
<1>1. IsWellFoundedOn(StrictSubsetOrdering(S), SUBSET S)
  BY FS_FiniteSubsetsOfFinite, FS_StrictSubsetOrderingWellFounded
<1>2. PICK m \in T : \A t \in T : <<t, m>> \notin StrictSubsetOrdering(S)
  BY <1>1, WFMin
<1> QED
  BY <1>2 DEF StrictSubsetOrdering

\* A set of natural numbers has a least one.
LEMMA LeastNumber ==
    ASSUME NEW T, T \subseteq Nat, T # {}
    PROVE  \E m \in T : \A t \in T : m <= t
<1>1. PICK t \in T : TRUE
  OBVIOUS
<1> DEFINE U == {1 .. k : k \in {j \in T : j <= t}}
           S == 1 .. t
<1>2. U \subseteq SUBSET S /\ U # {}
  BY <1>1
<1>3. IsFiniteSet(S)
  BY <1>1, FS_Interval
<1>4. PICK m \in U : \A u \in U : u \subseteq m => u = m
  <2> HIDE DEF U, S
  <2> QED
    BY <1>2, <1>3, Smallest
<1>5. PICK k \in T : k <= t /\ m = 1 .. k
  OBVIOUS
<1>6. ASSUME NEW j \in T, j < k
      PROVE  FALSE
  <2>1. 1 .. j \in U
    BY <1>1, <1>5, <1>6
  <2>2. 1 .. j \subseteq 1 .. k /\ k \in 1 .. k /\ k \notin 1 .. j
    BY <1>5, <1>6
  <2> QED
    BY <1>4, <1>5, <2>1, <2>2
<1> QED
  BY <1>5, <1>6

\* There is at most one such function.
LEMMA SumsAgree ==
    ASSUME NEW f, NEW S, NEW g, NEW R, NEW h, IsFiniteSet(S), SumsOver(g, f, S), SumsOver(h, f, R)
    PROVE  \A s \in (SUBSET S) \cap (SUBSET R) : g[s] = h[s]
<1> DEFINE T == {s \in (SUBSET S) \cap (SUBSET R) : g[s] # h[s]}
<1>1. SUFFICES ASSUME T # {} PROVE FALSE
  OBVIOUS
<1>2. PICK m \in T : \A t \in T : t \subseteq m => t = m
  <2>1. T \subseteq SUBSET S
    OBVIOUS
  <2> HIDE DEF T
  <2> QED
    BY <1>1, <2>1, Smallest
<1>3. CASE m = {}
  BY <1>3 DEF SumsOver
<1>4. CASE m # {}
  <2> DEFINE r == m \ {Chosen(m)}
  <2>1. Chosen(m) \in m
    BY <1>4 DEF Chosen
  <2>2. r \in (SUBSET S) \cap (SUBSET R) /\ r # m /\ r \subseteq m
    BY <2>1
  <2>3. g[r] = h[r]
    BY <1>2, <2>2
  <2>4. g[m] = f[Chosen(m)] + g[r] /\ h[m] = f[Chosen(m)] + h[r]
    BY <1>4 DEF SumsOver
  <2> QED
    BY <2>3, <2>4
<1> QED
  BY <1>3, <1>4

\* There is one for every finite set.
LEMMA SumsExist ==
    ASSUME NEW f, NEW S, IsFiniteSet(S)
    PROVE  \E g : SumsOver(g, f, S)
<1> DEFINE T == {s \in SUBSET S : ~\E g : SumsOver(g, f, s)}
<1>1. SUFFICES ASSUME T # {} PROVE FALSE
  OBVIOUS
<1>2. PICK m \in T : \A t \in T : t \subseteq m => t = m
  <2>1. T \subseteq SUBSET S
    OBVIOUS
  <2> HIDE DEF T
  <2> QED
    BY <1>1, <2>1, Smallest
<1> DEFINE of(s) == CHOOSE g : SumsOver(g, f, s)
           rest(s) == s \ {Chosen(s)}
           g == [s \in SUBSET m |-> IF s = {} THEN 0 ELSE f[Chosen(s)] + of(rest(s))[rest(s)]]
<1>3. \A s \in SUBSET m : s # m => SumsOver(of(s), f, s)
  BY <1>2
<1>4. \A s \in SUBSET m : s # {} => rest(s) \in SUBSET m /\ rest(s) # m /\ rest(s) \subseteq s
  BY DEF Chosen
<1> HIDE DEF of
<1>5. ASSUME NEW s \in SUBSET m, s # {}
      PROVE  g[rest(s)] = of(rest(s))[rest(s)]
  <2> DEFINE r == rest(s)
  <2>1. r \in SUBSET m /\ SumsOver(of(r), f, r)
    BY <1>3, <1>4, <1>5
  <2>2. CASE r = {}
    BY <2>1, <2>2 DEF SumsOver
  <2>3. CASE r # {}
    <3>1. rest(r) \in SUBSET m /\ SumsOver(of(rest(r)), f, rest(r)) /\ rest(r) \subseteq r
      BY <1>3, <1>4, <2>1, <2>3
    <3>2. IsFiniteSet(r)
      BY <2>1, FS_Subset
    <3>3. of(r)[rest(r)] = of(rest(r))[rest(r)]
      <4> HIDE DEF r, rest, g
      <4>1. \A t \in (SUBSET r) \cap (SUBSET rest(r)) : of(r)[t] = of(rest(r))[t]
        BY <2>1, <3>1, <3>2, SumsAgree
      <4> QED
        BY <3>1, <4>1
    <3>4. of(r)[r] = f[Chosen(r)] + of(r)[rest(r)]
      BY <2>1, <2>3 DEF SumsOver
    <3>5. g[r] = f[Chosen(r)] + of(rest(r))[rest(r)]
      BY <2>1, <2>3
    <3> QED
      BY <3>3, <3>4, <3>5
  <2> QED
    BY <2>2, <2>3
<1>6. \A s \in SUBSET m : g[s] = IF s = {} THEN 0 ELSE f[Chosen(s)] + g[rest(s)]
  BY <1>5
<1>7. g = [s \in SUBSET m |-> g[s]]
  OBVIOUS
<1> HIDE DEF g
<1>8. g = [s \in SUBSET m |-> IF s = {} THEN 0 ELSE f[Chosen(s)] + g[rest(s)]]
  BY <1>6, <1>7
<1>9. SumsOver(g, f, m)
  BY <1>8 DEF SumsOver
<1> QED
  BY <1>2, <1>9

\* A sum is what the function gives.
LEMMA SumIs ==
    ASSUME NEW f, NEW S, IsFiniteSet(S), NEW g, SumsOver(g, f, S)
    PROVE  \A s \in SUBSET S : SumFunctionOnSet(f, s) = g[s]
<1>1. ASSUME NEW s \in SUBSET S
      PROVE  SumFunctionOnSet(f, s) = g[s]
  <2> DEFINE h == CHOOSE h : h = [t \in SUBSET s |-> IF t = {} THEN 0
                            ELSE f[CHOOSE x \in t : TRUE] + h[t \ {CHOOSE x \in t : TRUE}]]
  <2>1. SumFunctionOnSet(f, s) = h[s]
    BY DEF SumFunctionOnSet, FoldFunctionOnSet, MapThenFoldSet
  <2>2. IsFiniteSet(s)
    BY FS_Subset
  <2>3. \E k : SumsOver(k, f, s)
    BY <2>2, SumsExist
  <2>4. SumsOver(h, f, s)
    BY <2>3 DEF SumsOver, Chosen
  <2> HIDE DEF h
  <2>5. h[s] = g[s]
    BY <2>2, <2>4, SumsAgree
  <2> QED
    BY <2>1, <2>5
<1> QED
  BY <1>1
-----------------------------------------------------------------------------
\* Nothing sums to 0.
LEMMA SumOfNone ==
    ASSUME NEW f
    PROVE  SumFunctionOnSet(f, {}) = 0
<1>1. IsFiniteSet({}) /\ {} \in SUBSET {}
  BY FS_EmptySet
<1>2. PICK g : SumsOver(g, f, {})
  BY <1>1, SumsExist
<1>3. g[{}] = 0
  BY <1>1, <1>2 DEF SumsOver
<1> QED
  BY <1>1, <1>2, <1>3, SumIs

\* One step of the recursion.
LEMMA SumStep ==
    ASSUME NEW f, NEW S, IsFiniteSet(S), S # {}
    PROVE  /\ Chosen(S) \in S
           /\ SumFunctionOnSet(f, S) = f[Chosen(S)] + SumFunctionOnSet(f, S \ {Chosen(S)})
<1>1. PICK g : SumsOver(g, f, S)
  BY SumsExist
<1>2. Chosen(S) \in S
  BY DEF Chosen
<1>3. g[S] = f[Chosen(S)] + g[S \ {Chosen(S)}]
  BY <1>1 DEF SumsOver
<1>4. SumFunctionOnSet(f, S) = g[S] /\ SumFunctionOnSet(f, S \ {Chosen(S)}) = g[S \ {Chosen(S)}]
  BY <1>1, SumIs
<1> QED
  BY <1>2, <1>3, <1>4

\* The sum of natural numbers is one, that of integers an integer.
LEMMA SumType ==
    ASSUME NEW f, NEW S, IsFiniteSet(S), NEW N \in {Nat, Int}, \A x \in S : f[x] \in N
    PROVE  SumFunctionOnSet(f, S) \in N
<1> DEFINE T == {s \in SUBSET S : SumFunctionOnSet(f, s) \notin N}
<1>1. SUFFICES ASSUME T # {} PROVE FALSE
  OBVIOUS
<1>2. PICK m \in T : \A t \in T : t \subseteq m => t = m
  <2>1. T \subseteq SUBSET S
    OBVIOUS
  <2> HIDE DEF T
  <2> QED
    BY <1>1, <2>1, Smallest
<1>3. CASE m = {}
  BY <1>3, <1>2, SumOfNone
<1>4. CASE m # {}
  <2>1. IsFiniteSet(m)
    BY FS_Subset
  <2>2. /\ Chosen(m) \in m
        /\ SumFunctionOnSet(f, m) = f[Chosen(m)] + SumFunctionOnSet(f, m \ {Chosen(m)})
    BY <1>4, <2>1, SumStep
  <2>3. SumFunctionOnSet(f, m \ {Chosen(m)}) \in N
    BY <1>2, <2>2
  <2>4. f[Chosen(m)] \in N
    BY <2>2
  <2>5. SumFunctionOnSet(f, m) \in N
    BY <2>2, <2>3, <2>4
  <2> QED
    BY <2>5
<1> QED
  BY <1>3, <1>4

\* Any element may be taken first.
LEMMA SumWith ==
    ASSUME NEW f, NEW S, IsFiniteSet(S), \A y \in S : f[y] \in Int, NEW x \in S
    PROVE  SumFunctionOnSet(f, S) = f[x] + SumFunctionOnSet(f, S \ {x})
<1> DEFINE with(s, y) == SumFunctionOnSet(f, s) = f[y] + SumFunctionOnSet(f, s \ {y})
           T == {s \in SUBSET S : \E y \in s : ~with(s, y)}
<1>1. SUFFICES ASSUME T # {} PROVE FALSE
  OBVIOUS
<1>2. PICK m \in T : \A t \in T : t \subseteq m => t = m
  <2>1. T \subseteq SUBSET S
    OBVIOUS
  <2> HIDE DEF T
  <2> QED
    BY <1>1, <2>1, Smallest
<1>3. PICK y \in m : ~with(m, y)
  OBVIOUS
<1>4. m \subseteq S /\ \A s \in SUBSET m : s # m => \A z \in s : with(s, z)
  BY <1>2
<1> HIDE DEF T
<1>5. \A s \in SUBSET m : IsFiniteSet(s) /\ SumFunctionOnSet(f, s) \in Int
  <2>1. \A s \in SUBSET m : IsFiniteSet(s)
    BY <1>4, FS_Subset
  <2> QED
    BY <1>4, <2>1, SumType
<1>6. PICK c \in m : with(m, c)
  BY <1>3, <1>5, SumStep
<1>7. c # y
  BY <1>3, <1>6
<1>8. with(m \ {c}, y) /\ with(m \ {y}, c)
  BY <1>3, <1>4, <1>6, <1>7
<1>9. (m \ {c}) \ {y} = (m \ {y}) \ {c}
  OBVIOUS
<1>10. f[c] \in Int /\ f[y] \in Int /\ SumFunctionOnSet(f, (m \ {c}) \ {y}) \in Int
  BY <1>3, <1>4, <1>5, <1>6
<1>11. SumFunctionOnSet(f, m) = f[c] + (f[y] + SumFunctionOnSet(f, (m \ {c}) \ {y}))
  BY <1>6, <1>8
<1>12. SumFunctionOnSet(f, m \ {y}) = f[c] + SumFunctionOnSet(f, (m \ {c}) \ {y})
  BY <1>8, <1>9
<1>13. with(m, y)
  BY <1>10, <1>11, <1>12
<1> QED
  BY <1>3, <1>13

\* The sum over a single element.
LEMMA SumOfOne ==
    ASSUME NEW f, NEW x, f[x] \in Int
    PROVE  SumFunctionOnSet(f, {x}) = f[x]
<1>1. IsFiniteSet({x}) /\ \A y \in {x} : f[y] \in Int
  BY FS_Singleton
<1>2. SumFunctionOnSet(f, {x}) = f[x] + SumFunctionOnSet(f, {x} \ {x})
  BY <1>1, SumWith
<1>3. {x} \ {x} = {}
  OBVIOUS
<1>4. SumFunctionOnSet(f, {x} \ {x}) = 0
  BY <1>3, SumOfNone
<1> QED
  BY <1>2, <1>4
=============================================================================
