---------------------------- MODULE Packing_proofs --------------------------
(***************************************************************************)
(* Packing finds the nearest amounts that have a representation, for any   *)
(* widths of exponent and mantissa and any base.                           *)
(***************************************************************************)
EXTENDS Packing, SumLemmas, SequenceTheorems

-----------------------------------------------------------------------------
(***************************************************************************)
(* Natural numbers.                                                        *)
(***************************************************************************)

\* A set with one element more has twice as many subsets.
LEMMA TwoPower ==
    ASSUME NEW n \in Nat
    PROVE  2^n \in Nat \ {0} /\ 2^(n + 1) = 2 * 2^n
<1> DEFINE S == 1 .. n
           x == n + 1
           with == {s \cup {x} : s \in SUBSET S}
<1>1. /\ IsFiniteSet(S) /\ Cardinality(S) = n
      /\ IsFiniteSet(1 .. n + 1) /\ Cardinality(1 .. n + 1) = n + 1
  BY FS_Interval
<1>2. /\ IsFiniteSet(SUBSET S) /\ Cardinality(SUBSET S) = 2^n
      /\ Cardinality(SUBSET (1 .. n + 1)) = 2^(n + 1)
  BY <1>1, FS_SUBSET
<1>3. x \notin S /\ 1 .. n + 1 = S \cup {x}
  OBVIOUS
<1> HIDE DEF S, x
<1>4. SUBSET (1 .. n + 1) = (SUBSET S) \cup with /\ (SUBSET S) \cap with = {}
  <2>1. ASSUME NEW s \in SUBSET (S \cup {x})
        PROVE  s \in (SUBSET S) \cup with
    <3>1. CASE x \in s
      <4>1. s = (s \ {x}) \cup {x} /\ s \ {x} \in SUBSET S
        BY <3>1
      <4> QED
        BY <4>1
    <3>2. CASE x \notin s
      BY <3>2
    <3> QED
      BY <3>1, <3>2
  <2>2. with \subseteq SUBSET (S \cup {x})
    OBVIOUS
  <2>3. SUBSET S \subseteq SUBSET (S \cup {x})
    OBVIOUS
  <2>4. (SUBSET S) \cap with = {}
    BY <1>3
  <2> QED
    BY <1>3, <2>1, <2>2, <2>3, <2>4
<1>5. IsFiniteSet(with) /\ Cardinality(with) = Cardinality(SUBSET S)
  <2> DEFINE f == [s \in SUBSET S |-> s \cup {x}]
  <2>1. f \in Bijection(SUBSET S, with)
    <3>1. \A s \in SUBSET S : (s \cup {x}) \ {x} = s
      BY <1>3
    <3>2. f \in Injection(SUBSET S, with)
      BY <3>1 DEF Injection, IsInjective
    <3>3. f \in Surjection(SUBSET S, with)
      BY DEF Surjection
    <3> QED
      BY <3>2, <3>3 DEF Bijection
  <2> QED
    BY <1>2, <2>1, FS_Bijection DEF ExistsBijection
<1>6. Cardinality((SUBSET S) \cup with) = Cardinality(SUBSET S) + Cardinality(with)
  <2>1. Cardinality((SUBSET S) \cap with) = 0
    BY <1>4, FS_EmptySet
  <2>2. Cardinality(SUBSET S) \in Nat /\ Cardinality(with) \in Nat
    BY <1>2, <1>5, FS_CardinalityType
  <2> DEFINE without == SUBSET S
  <2>3. IsFiniteSet(without) /\ IsFiniteSet(with)
    BY <1>2, <1>5
  <2> HIDE DEF with, without
  <2>4. Cardinality(without \cup with)
          = Cardinality(without) + Cardinality(with) - Cardinality(without \cap with)
    BY <2>3, FS_Union
  <2> QED
    BY <2>1, <2>2, <2>4 DEF without
<1>7. Cardinality(SUBSET S) \in Nat \ {0}
  <2>1. {} \in SUBSET S
    OBVIOUS
  <2> QED
    BY <1>2, <2>1, FS_CardinalityType, FS_EmptySet
<1>8. Cardinality((SUBSET S) \cup with) = 2^(n + 1)
  BY <1>2, <1>4
<1> HIDE DEF with
<1> QED
  BY <1>2, <1>5, <1>6, <1>7, <1>8

\* There is one subset of nothing.
LEMMA TwoToNone == 2^0 = 1
<1>1. IsFiniteSet({}) /\ Cardinality({}) = 0
  BY FS_EmptySet
<1>2. Cardinality(SUBSET {}) = 2^0
  BY <1>1, FS_SUBSET
<1>3. SUBSET {} = {{}}
  OBVIOUS
<1> QED
  BY <1>2, <1>3, FS_Singleton

\* What quotient and remainder are.
LEMMA Divided ==
    ASSUME NEW n \in Nat, NEW d \in Nat \ {0}
    PROVE  n \div d \in Nat /\ n % d \in 0 .. d - 1 /\ n = (n \div d) * d + (n % d)
OBVIOUS

\* Whatever is like them is the quotient and the remainder.
LEMMA Division ==
    ASSUME NEW n \in Nat, NEW d \in Nat \ {0}, NEW q \in Nat, NEW r \in 0 .. d - 1, n = q * d + r
    PROVE  n \div d = q /\ n % d = r
OBVIOUS
-----------------------------------------------------------------------------
(***************************************************************************)
(* Bits.                                                                   *)
(***************************************************************************)

\* One bit more of a number.
LEMMA NextBit ==
    ASSUME NEW n \in Nat, NEW p \in Nat \ {0}
    PROVE  n % (2 * p) = ((n \div p) % 2) * p + (n % p)
<1> DEFINE q == n \div p
           r == n % p
           b == q % 2
           h == q \div 2
<1>1. q \in Nat /\ r \in 0 .. p - 1 /\ n = q * p + r
  BY Divided
<1>2. h \in Nat /\ b \in 0 .. 1 /\ q = h * 2 + b
  <2> HIDE DEF q
  <2> QED
    BY <1>1, Divided
<1> HIDE DEF q, r, b, h
<1>3. b * p + r \in 0 .. 2 * p - 1
  BY <1>1, <1>2
<1>4. n = h * (2 * p) + (b * p + r)
  BY <1>1, <1>2
<1>5. 2 * p \in Nat \ {0}
  OBVIOUS
<1>6. n % (2 * p) = b * p + r
  BY <1>2, <1>3, <1>4, <1>5, Division
<1> QED
  BY <1>6 DEF b, q, r

\* numberToBits makes as many bits as it is asked for.
LEMMA BitsType ==
    ASSUME NEW n \in Nat, NEW k \in Nat
    PROVE  /\ NumberToBits(n, k) \in Seq({0, 1})
           /\ Len(NumberToBits(n, k)) = k
           /\ DOMAIN NumberToBits(n, k) = 1 .. k
<1>1. ASSUME NEW i \in 1 .. k
      PROVE  (n \div 2^(i - 1)) % 2 \in {0, 1}
  <2>1. 2^(i - 1) \in Nat \ {0}
    BY TwoPower
  <2>2. n \div 2^(i - 1) \in Nat
    BY <2>1, Divided
  <2> HIDE DEF NumberToBits
  <2> QED
    BY <2>2
<1>2. NumberToBits(n, k) \in [1 .. k -> {0, 1}]
  BY <1>1 DEF NumberToBits
<1> QED
  BY <1>2, SeqDef, LenProperties

\* The bits from the least significant one on stand for the remainder.
LEMMA BitsOfRemainder ==
    ASSUME NEW n \in Nat, NEW k \in Nat,
           NEW f, \A i \in 1 .. k : f[i] = NumberToBits(n, k)[i] * 2^(i - 1)
    PROVE  \A j \in 0 .. k : SumFunctionOnSet(f, 1 .. j) = n % 2^j
<1> DEFINE T == {j \in 0 .. k : SumFunctionOnSet(f, 1 .. j) # n % 2^j}
<1>1. SUFFICES ASSUME T # {} PROVE FALSE
  OBVIOUS
<1>2. PICK j \in T : \A i \in T : j <= i
  <2>1. T \subseteq Nat
    OBVIOUS
  <2> HIDE DEF T
  <2> QED
    BY <1>1, <2>1, LeastNumber
<1>3. CASE j = 0
  <2>1. 1 .. j = {} /\ SumFunctionOnSet(f, {}) = 0
    BY <1>3, SumOfNone
  <2>2. n % 2^j = 0
    BY <1>3, TwoToNone
  <2> QED
    BY <2>1, <2>2
<1>4. CASE j # 0
  <2> DEFINE p == 2^(j - 1)
             i == j - 1
             S == 1 .. j
  <2>1. j \in 1 .. k /\ i \in 0 .. k
    BY <1>4
  <2>2. i \notin T
    BY <1>2, <2>1
  <2>3. SumFunctionOnSet(f, 1 .. i) = n % p
    BY <2>1, <2>2
  <2>4. p \in Nat \ {0} /\ 2^j = 2 * p
    <3>1. i \in Nat /\ j = i + 1
      BY <2>1
    <3> QED
      BY <3>1, TwoPower
  <2>5. f[j] = ((n \div p) % 2) * p
    BY <2>1 DEF NumberToBits
  <2>6. \A x \in S : f[x] \in Int
    <3>1. ASSUME NEW x \in S
          PROVE  f[x] \in Int
      <4>1. x \in 1 .. k /\ x - 1 \in Nat
        BY <2>1
      <4>2. 2^(x - 1) \in Nat
        BY <4>1, TwoPower
      <4>3. NumberToBits(n, k)[x] \in {0, 1}
        BY <4>1, BitsType, ElementOfSeq
      <4>4. f[x] = NumberToBits(n, k)[x] * 2^(x - 1)
        BY <4>1
      <4> QED
        BY <4>2, <4>3, <4>4
    <3> QED
      BY <3>1
  <2>7. IsFiniteSet(S) /\ j \in S /\ S \ {j} = 1 .. i
    <3>1. IsFiniteSet(S)
      BY <2>1, FS_Interval
    <3>2. j \in S /\ S \ {j} = 1 .. i
      BY <2>1
    <3> QED
      BY <3>1, <3>2
  <2>8. SumFunctionOnSet(f, S) = f[j] + SumFunctionOnSet(f, S \ {j})
    <3>1. IsFiniteSet(S) /\ j \in S
      BY <2>7
    <3> HIDE DEF S, T, p, i
    <3> QED
      BY <2>6, <3>1, SumWith
  <2>9. n % (2 * p) = ((n \div p) % 2) * p + (n % p)
    <3> HIDE DEF p
    <3> QED
      BY <2>4, NextBit
  <2>10. SumFunctionOnSet(f, S) = n % 2^j
    BY <2>3, <2>4, <2>5, <2>7, <2>8, <2>9
  <2> QED
    BY <2>10
<1> QED
  BY <1>3, <1>4

\* A number that fits into its bits is what they stand for.
LEMMA BitsKeep ==
    ASSUME NEW k \in Nat, NEW n \in Nat, n < 2^k
    PROVE  BitsToNumber(NumberToBits(n, k)) = n
<1> DEFINE f == [i \in 1 .. k |-> NumberToBits(n, k)[i] * 2^(i - 1)]
<1>1. BitsToNumber(NumberToBits(n, k)) = SumFunctionOnSet(f, 1 .. k)
  <2>1. DOMAIN NumberToBits(n, k) = 1 .. k
    BY BitsType
  <2>2. BitsToNumber(NumberToBits(n, k)) = SumFunction(f)
    BY <2>1 DEF BitsToNumber
  <2>3. DOMAIN f = 1 .. k
    OBVIOUS
  <2> QED
    BY <2>2, <2>3 DEF SumFunction
<1>2. SumFunctionOnSet(f, 1 .. k) = n % 2^k
  <2>1. \A i \in 1 .. k : f[i] = NumberToBits(n, k)[i] * 2^(i - 1)
    OBVIOUS
  <2> HIDE DEF f
  <2>2. \A j \in 0 .. k : SumFunctionOnSet(f, 1 .. j) = n % 2^j
    BY <2>1, BitsOfRemainder
  <2>3. k \in 0 .. k
    OBVIOUS
  <2> QED
    BY <2>2, <2>3
<1>3. n % 2^k = n
  <2>1. 2^k \in Nat \ {0}
    BY TwoPower
  <2> QED
    BY <2>1
<1> QED
  BY <1>1, <1>2, <1>3
-----------------------------------------------------------------------------
(***************************************************************************)
(* Bytes.                                                                  *)
(***************************************************************************)

\* What is turned round twice is as it was.
LEMMA ReverseTwice ==
    ASSUME NEW S, NEW s \in Seq(S)
    PROVE  Reverse(s) \in Seq(S) /\ Len(Reverse(s)) = Len(s) /\ Reverse(Reverse(s)) = s
<1>1. Len(s) \in Nat /\ s \in [1 .. Len(s) -> S]
  BY LenProperties
<1>2. ASSUME NEW t \in Seq(S), Len(t) = Len(s)
      PROVE  /\ Reverse(t) \in Seq(S) /\ Len(Reverse(t)) = Len(s)
             /\ \A i \in 1 .. Len(s) : Reverse(t)[i] = t[Len(s) - i + 1]
  <2>1. \A i \in 1 .. Len(s) : Len(s) - i + 1 \in 1 .. Len(s)
    BY <1>1
  <2>2. Reverse(t) \in [1 .. Len(s) -> S]
    BY <1>2, <2>1, ElementOfSeq DEF Reverse
  <2>3. Reverse(t) \in Seq(S)
    BY <1>1, <2>2, SeqDef
  <2> QED
    BY <1>1, <1>2, <2>2, <2>3, LenProperties DEF Reverse
<1>3. /\ Reverse(s) \in Seq(S) /\ Len(Reverse(s)) = Len(s)
      /\ \A i \in 1 .. Len(s) : Reverse(s)[i] = s[Len(s) - i + 1]
  BY <1>2
<1>4. /\ Reverse(Reverse(s)) \in Seq(S) /\ Len(Reverse(Reverse(s))) = Len(s)
      /\ \A i \in 1 .. Len(s) : Reverse(Reverse(s))[i] = Reverse(s)[Len(s) - i + 1]
  BY <1>2, <1>3
<1>5. \A i \in 1 .. Len(s) : Reverse(Reverse(s))[i] = s[i]
  BY <1>1, <1>3, <1>4
<1> QED
  BY <1>3, <1>4, <1>5, SeqEqual

\* The bits in the bytes, one after the other, are those that went into them.
LEMMA BytesKeep ==
    ASSUME NEW S, NEW bits \in Seq(S), NEW n \in Nat \ {0}, Len(bits) = 8 * n
    PROVE  /\ BitsIntoBytesInBEOrder(bits) \in [1 .. n -> [1 .. 8 -> S]]
           /\ BitsIntoBytesInBEOrder(bits) \in Seq(Seq(S))
           /\ Len(BitsIntoBytesInBEOrder(bits)) = n
           /\ Buffer2BitsBE(BitsIntoBytesInBEOrder(bits)) = bits
<1> DEFINE bytes == BitsIntoBytesInBEOrder(bits)
           upTo == [i \in 1 .. n |-> SubSeq(bits, 1, 8 * i)]
<1>1. Len(bits) \div 8 = n
  OBVIOUS
<1>2. bytes = [i \in 1 .. n |-> SubSeq(bits, 8 * (i - 1) + 1, 8 * i)]
  BY <1>1 DEF BitsIntoBytesInBEOrder
<1> HIDE DEF bytes
<1>3. ASSUME NEW i \in 1 .. n
      PROVE  bytes[i] \in Seq(S) /\ bytes[i] \in [1 .. 8 -> S]
  <2>1. /\ 8 * (i - 1) + 1 \in Int /\ 8 * i \in Int
        /\ \A j \in 8 * (i - 1) + 1 .. 8 * i : j \in 1 .. Len(bits)
        /\ 8 * (i - 1) + 1 <= 8 * i
        /\ 8 * i - (8 * (i - 1) + 1) + 1 = 8
    OBVIOUS
  <2>2. \A j \in 8 * (i - 1) + 1 .. 8 * i : bits[j] \in S
    BY <2>1, ElementOfSeq
  <2> DEFINE first == 8 * (i - 1) + 1
             last == 8 * i
  <2>3. bytes[i] = SubSeq(bits, first, last)
    BY <1>2
  <2>4. first \in Int /\ last \in Int /\ first <= last /\ last - first + 1 = 8
    BY <2>1
  <2> HIDE DEF first, last
  <2>5. bytes[i] \in Seq(S) /\ Len(bytes[i]) = 8
    BY <2>2, <2>3, <2>4, SubSeqProperties DEF first, last
  <2> QED
    BY <2>5, LenProperties
<1>4. bytes \in [1 .. n -> [1 .. 8 -> S]] /\ bytes \in [1 .. n -> Seq(S)]
  BY <1>2, <1>3
<1>5. bytes \in Seq(Seq(S)) /\ Len(bytes) = n
  BY <1>4, SeqDef, LenProperties
<1>6. \A i \in 1 .. n :
        upTo[i] = IF i = 1 THEN bytes[i] ELSE upTo[i - 1] \o bytes[i]
  <2>1. ASSUME NEW i \in 1 .. n, i # 1
        PROVE  upTo[i] = upTo[i - 1] \o bytes[i]
    <3> DEFINE k == 8 * (i - 1)
               l == 8 * i
    <3>1. /\ 1 \in 1 .. Len(bits) + 1 /\ k \in 0 .. Len(bits) /\ l \in k .. Len(bits)
          /\ 1 - 1 = 0
      BY <2>1
    <3>2. upTo[i] = SubSeq(bits, 1, l) /\ upTo[i - 1] = SubSeq(bits, 1, k)
      BY <2>1
    <3>3. bytes[i] = SubSeq(bits, k + 1, l)
      BY <1>2
    <3> HIDE DEF k, l
    <3>4. SubSeq(bits, 1, k) \o SubSeq(bits, k + 1, l) = SubSeq(bits, 1, l)
      BY <3>1, ConcatAdjacentSubSeq
    <3> QED
      BY <3>2, <3>3, <3>4
  <2>2. upTo[1] = bytes[1]
    BY <1>2
  <2> QED
    BY <2>1, <2>2
<1>7. upTo = [i \in 1 .. n |-> IF i = 1 THEN bytes[i] ELSE upTo[i - 1] \o bytes[i]]
  <2>1. upTo = [i \in 1 .. n |-> upTo[i]]
    OBVIOUS
  <2> HIDE DEF upTo
  <2> QED
    BY <1>6, <2>1
<1>8. upTo[n] = bits
  <2>1. upTo[n] = SubSeq(bits, 1, Len(bits))
    OBVIOUS
  <2> QED
    BY <2>1, SubSeqFull
<1> HIDE DEF upTo
<1> DEFINE flatten == CHOOSE flatten :
                        flatten = [i \in 1 .. Len(bytes) |->
                                    IF i = 1 THEN bytes[i] ELSE flatten[i - 1] \o bytes[i]]
<1>9. FlattenSeq(bytes) = flatten[n]
  BY <1>5 DEF FlattenSeq
<1>10. flatten = [i \in 1 .. n |-> IF i = 1 THEN bytes[i] ELSE flatten[i - 1] \o bytes[i]]
  BY <1>5, <1>7
<1> HIDE DEF flatten
<1>11. \A i \in 1 .. n : flatten[i] = upTo[i]
  <2> DEFINE T == {i \in 1 .. n : flatten[i] # upTo[i]}
  <2>1. SUFFICES ASSUME T # {} PROVE FALSE
    OBVIOUS
  <2>2. PICK i \in T : \A j \in T : i <= j
    <3>1. T \subseteq Nat
      OBVIOUS
    <3> HIDE DEF T
    <3> QED
      BY <2>1, <3>1, LeastNumber
  <2>3. CASE i = 1
    BY <1>7, <1>10, <2>3
  <2>4. CASE i # 1
    <3>1. i - 1 \in 1 .. n /\ i - 1 \notin T
      BY <2>2, <2>4
    <3>2. flatten[i - 1] = upTo[i - 1]
      BY <3>1
    <3>3. flatten[i] = flatten[i - 1] \o bytes[i] /\ upTo[i] = upTo[i - 1] \o bytes[i]
      BY <1>7, <1>10, <2>4
    <3> QED
      BY <3>2, <3>3
  <2> QED
    BY <2>3, <2>4
<1>12. Buffer2BitsBE(bytes) = bits
  BY <1>8, <1>9, <1>11 DEF Buffer2BitsBE
<1> QED
  BY <1>4, <1>5, <1>12 DEF bytes
-----------------------------------------------------------------------------
(***************************************************************************)
(* Exponents.                                                              *)
(***************************************************************************)

\* The largest mantissa and the largest exponent are positive.
LEMMA Largest == MaxExponent \in Nat \ {0} /\ MaxMantissa \in Nat \ {0}
<1>1. ASSUME NEW k \in Nat \ {0}
      PROVE  2^k - 1 \in Nat \ {0}
  <2>1. k - 1 \in Nat /\ (k - 1) + 1 = k
    BY <1>1
  <2>2. 2^(k - 1) \in Nat \ {0} /\ 2^k = 2 * 2^(k - 1)
    BY <2>1, TwoPower
  <2> QED
    BY <2>2
<1> QED
  BY <1>1, PackingAssumption DEF MaxExponent, MaxMantissa

\* There is a function that multiplies the base as often as its argument says.
LEMMA ScalesExist ==
    ASSUME NEW m \in Nat
    PROVE  \E g : g = [e \in 0 .. m |-> IF e = 0 THEN 1 ELSE ExpBase * g[e - 1]]
<1> DEFINE IsScale(g, k) == g = [e \in 0 .. k |-> IF e = 0 THEN 1 ELSE ExpBase * g[e - 1]]
           T == {k \in Nat : ~\E g : IsScale(g, k)}
<1>1. SUFFICES ASSUME T # {} PROVE FALSE
  OBVIOUS
<1>2. PICK k \in T : \A j \in T : k <= j
  <2>1. T \subseteq Nat
    OBVIOUS
  <2> HIDE DEF T
  <2> QED
    BY <1>1, <2>1, LeastNumber
<1>3. CASE k = 0
  <2> DEFINE h == [e \in 0 .. 0 |-> 1]
  <2>1. IsScale(h, k)
    BY <1>3
  <2> QED
    BY <2>1
<1>4. CASE k # 0
  <2>1. k - 1 \in Nat /\ k - 1 \notin T
    <3>1. k \in Nat
      OBVIOUS
    <3> HIDE DEF T
    <3>2. k - 1 \in Nat /\ ~(k <= k - 1)
      BY <1>4, <3>1
    <3> QED
      BY <1>2, <3>2
  <2>2. PICK g : IsScale(g, k - 1)
    BY <2>1
  <2> DEFINE h == [e \in 0 .. k |-> IF e = 0 THEN 1 ELSE ExpBase * g[e - 1]]
  <2>3. ASSUME NEW e \in 0 .. k - 1
        PROVE  h[e] = g[e]
    <3>1. e \in 0 .. k
      BY <2>1
    <3> QED
      BY <2>2, <3>1
  <2>4. \A e \in 0 .. k : h[e] = IF e = 0 THEN 1 ELSE ExpBase * h[e - 1]
    <3>1. \A e \in 1 .. k : e - 1 \in 0 .. k - 1
      BY <2>1
    <3>2. \A e \in 1 .. k : h[e] = ExpBase * g[e - 1] /\ h[e - 1] = g[e - 1]
      <4> HIDE DEF h
      <4>1. \A e \in 1 .. k : h[e - 1] = g[e - 1]
        BY <2>3, <3>1
      <4>2. \A e \in 1 .. k : h[e] = ExpBase * g[e - 1]
        BY DEF h
      <4> QED
        BY <4>1, <4>2
    <3>3. h[0] = 1
      OBVIOUS
    <3>4. \A e \in 0 .. k : e = 0 \/ e \in 1 .. k
      BY <2>1
    <3> HIDE DEF h
    <3> QED
      BY <3>2, <3>3, <3>4
  <2>5. IsScale(h, k)
    <3>1. h = [e \in 0 .. k |-> h[e]]
      OBVIOUS
    <3> HIDE DEF h
    <3> QED
      BY <2>4, <3>1
  <2> HIDE DEF h, IsScale
  <2> QED
    BY <2>5
<1> QED
  BY <1>3, <1>4

\* Scale does.
LEMMA ScaleStep ==
    /\ Scale[0] = 1
    /\ \A e \in 1 .. MaxExponent : e - 1 \in 0 .. MaxExponent /\ Scale[e] = ExpBase * Scale[e - 1]
<1>1. MaxExponent \in Nat
  BY Largest
<1>2. \E g : g = [e \in 0 .. MaxExponent |-> IF e = 0 THEN 1 ELSE ExpBase * g[e - 1]]
  BY <1>1, ScalesExist
<1>3. Scale = [e \in 0 .. MaxExponent |-> IF e = 0 THEN 1 ELSE ExpBase * Scale[e - 1]]
  BY <1>2 DEF Scale
<1> QED
  BY <1>1, <1>3

\* A larger exponent stands for a multiple of what a smaller one does.
LEMMA ScaleMultiple ==
    ASSUME NEW e \in 0 .. MaxExponent, Scale[e] \in Nat \ {0}
    PROVE  \A f \in e .. MaxExponent : \E k \in Nat \ {0} : Scale[f] = k * Scale[e]
<1> DEFINE T == {f \in e .. MaxExponent : ~\E k \in Nat \ {0} : Scale[f] = k * Scale[e]}
<1>1. SUFFICES ASSUME T # {} PROVE FALSE
  OBVIOUS
<1>2. PICK f \in T : \A g \in T : f <= g
  <2>1. T \subseteq Nat
    BY Largest
  <2> HIDE DEF T
  <2> QED
    BY <1>1, <2>1, LeastNumber
<1>3. CASE f = e
  <2>1. Scale[f] = 1 * Scale[e]
    BY <1>3
  <2> QED
    BY <2>1
<1>4. CASE f # e
  <2>1. f \in 1 .. MaxExponent /\ f - 1 \in e .. MaxExponent /\ f - 1 \notin T
    BY <1>2, <1>4, Largest
  <2>2. PICK k \in Nat \ {0} : Scale[f - 1] = k * Scale[e]
    BY <2>1
  <2>3. Scale[f] = ExpBase * (k * Scale[e])
    BY <2>1, <2>2, ScaleStep
  <2>4. ExpBase * k \in Nat \ {0} /\ ExpBase * (k * Scale[e]) = (ExpBase * k) * Scale[e]
    BY PackingAssumption
  <2> QED
    BY <2>3, <2>4
<1> QED
  BY <1>3, <1>4

\* So all of them are positive.
LEMMA ScaleType == \A e \in 0 .. MaxExponent : Scale[e] \in Nat \ {0}
<1>1. 0 \in 0 .. MaxExponent /\ Scale[0] = 1
  BY Largest, ScaleStep
<1>2. \A f \in 0 .. MaxExponent : \E k \in Nat \ {0} : Scale[f] = k * Scale[0]
  BY <1>1, ScaleMultiple
<1> QED
  BY <1>1, <1>2

-----------------------------------------------------------------------------
(***************************************************************************)
(* Bits and bytes together.                                                *)
(***************************************************************************)

\* What floatToInteger makes of the bytes is what went into them.
LEMMA ReadBack ==
    ASSUME NEW e \in 0 .. MaxExponent, NEW m \in 0 .. MaxMantissa
    PROVE  /\ ReverseBits(Encode(e, m))
                \in [1 .. (ExpBits + MantissaBits) \div 8 -> [1 .. 8 -> {0, 1}]]
           /\ FloatToInteger(ReverseBits(Encode(e, m))) = Scale[e] * m
<1> DEFINE first == NumberToBits(e, ExpBits)
           second == NumberToBits(m, MantissaBits)
           bits == first \o second
           bytes == BitsIntoBytesInBEOrder(Reverse(bits))
           n == (ExpBits + MantissaBits) \div 8
<1>1. /\ ExpBits \in Nat \ {0} /\ MantissaBits \in Nat \ {0} /\ n \in Nat \ {0}
      /\ ExpBits + MantissaBits = 8 * n
  BY PackingAssumption
<1>2. /\ e \in Nat /\ e < 2^ExpBits /\ m \in Nat /\ m < 2^MantissaBits
  <2>1. 2^ExpBits \in Nat /\ 2^MantissaBits \in Nat
    BY <1>1, TwoPower
  <2> QED
    BY <2>1 DEF MaxExponent, MaxMantissa
<1>3. /\ first \in Seq({0, 1}) /\ Len(first) = ExpBits /\ BitsToNumber(first) = e
      /\ second \in Seq({0, 1}) /\ Len(second) = MantissaBits /\ BitsToNumber(second) = m
  BY <1>1, <1>2, BitsType, BitsKeep
<1> HIDE DEF first, second, n
<1>4. bits \in Seq({0, 1}) /\ Len(bits) = 8 * n
  BY <1>1, <1>3, ConcatProperties
<1>5. SubSeq(bits, 1, ExpBits) = first
  <2>1. 1 \in 1 .. Len(first) /\ ExpBits \in 1 .. Len(first)
    BY <1>1, <1>3
  <2>2. SubSeq(bits, 1, ExpBits) = SubSeq(first, 1, ExpBits)
    BY <1>3, <2>1, SubSeqOfConcat1
  <2> QED
    BY <1>3, <2>2, SubSeqFull
<1>6. SubSeq(bits, ExpBits + 1, ExpBits + MantissaBits) = second
  <2> DEFINE from == ExpBits + 1
             to == ExpBits + MantissaBits
  <2>1. /\ from \in Len(first) + 1 .. Len(first) + Len(second)
        /\ to \in Len(first) + 1 .. Len(first) + Len(second)
        /\ from - Len(first) = 1 /\ to - Len(first) = Len(second)
    <3>1. Len(first) = ExpBits /\ Len(second) = MantissaBits
      BY <1>3
    <3> QED
      BY <1>1, <3>1
  <2> SUFFICES SubSeq(bits, from, to) = second
    OBVIOUS
  <2> HIDE DEF from, to
  <2>2. first \in Seq({0, 1}) /\ second \in Seq({0, 1})
    BY <1>3
  <2>3. SubSeq(bits, from, to) = SubSeq(second, from - Len(first), to - Len(first))
    BY <2>1, <2>2, SubSeqOfConcat2
  <2> QED
    BY <2>1, <2>2, <2>3, SubSeqFull
<1> HIDE DEF bits
<1>7. Reverse(bits) \in Seq({0, 1}) /\ Len(Reverse(bits)) = 8 * n /\ Reverse(Reverse(bits)) = bits
  BY <1>4, ReverseTwice
<1>8. /\ bytes \in [1 .. n -> [1 .. 8 -> {0, 1}]] /\ bytes \in Seq(Seq({0, 1}))
      /\ Buffer2BitsBE(bytes) = Reverse(bits)
  BY <1>1, <1>7, BytesKeep
<1> HIDE DEF bytes
<1>9. ReverseBits(Encode(e, m)) = bytes
  <2>1. Encode(e, m) = Reverse(bytes)
    BY DEF Encode, bytes, bits, first, second
  <2> QED
    BY <1>8, <2>1, ReverseTwice DEF ReverseBits
<1>10. FloatToInteger(bytes) = Scale[e] * m
  BY <1>3, <1>5, <1>6, <1>7, <1>8 DEF FloatToInteger
<1> QED
  BY <1>8, <1>9, <1>10 DEF n
-----------------------------------------------------------------------------
(***************************************************************************)
(* Rounding.                                                               *)
(***************************************************************************)

\* The quotient is the greatest multiple that is not greater.
LEMMA Quotient ==
    ASSUME NEW n \in Nat, NEW d \in Nat \ {0}, NEW c \in Nat
    PROVE  c * d <= n <=> c <= n \div d
<1> DEFINE q == n \div d
           r == n % d
<1>1. q \in Nat /\ r \in 0 .. d - 1 /\ n = q * d + r
  BY Divided
<1> SUFFICES c * d <= n <=> c <= q
  OBVIOUS
<1> HIDE DEF q, r
<1>2. ASSUME c <= q
      PROVE  c * d <= q * d
  BY <1>1, <1>2
<1>3. ASSUME c > q
      PROVE  c * d >= q * d + d
  <2>1. c >= q + 1 /\ (q + 1) * d = q * d + d
    BY <1>1, <1>3
  <2>2. c * d >= (q + 1) * d
    BY <1>1, <2>1
  <2> QED
    BY <1>1, <2>1, <2>2
<1> QED
  BY <1>1, <1>2, <1>3

\* The quotient rounded up is the least multiple that is not less, and what is computed
\* from the quotient and the remainder.
LEMMA QuotientUp ==
    ASSUME NEW n \in Nat, NEW d \in Nat \ {0}
    PROVE  /\ (n + d - 1) \div d = IF n % d # 0 THEN n \div d + 1 ELSE n \div d
           /\ (n + d - 1) \div d \in Nat
           /\ \A c \in Nat : c * d >= n <=> c >= (n + d - 1) \div d
<1> DEFINE q == n \div d
           r == n % d
           up == (n + d - 1) \div d
<1>1. q \in Nat /\ r \in 0 .. d - 1 /\ n = q * d + r
  BY Divided
<1>2. up = IF r # 0 THEN q + 1 ELSE q
  <2> HIDE DEF q, r
  <2>1. n + d - 1 \in Nat
    OBVIOUS
  <2>2. CASE r # 0
    <3>1. q + 1 \in Nat /\ r - 1 \in 0 .. d - 1 /\ n + d - 1 = (q + 1) * d + (r - 1)
      BY <1>1, <2>2
    <3> QED
      BY <2>1, <2>2, <3>1, Division
  <2>3. CASE r = 0
    <3>1. d - 1 \in 0 .. d - 1 /\ n + d - 1 = q * d + (d - 1)
      BY <1>1, <2>3
    <3> QED
      BY <1>1, <2>1, <2>3, <3>1, Division
  <2> QED
    BY <2>2, <2>3
<1>3. ASSUME NEW c \in Nat
      PROVE  c * d >= n <=> c >= up
  <2> HIDE DEF up
  <2>1. c <= q => c * d <= q * d
    <3> HIDE DEF q, r
    <3> QED
      BY <1>1
  <2>2. c > q => c * d >= q * d + d
    <3> HIDE DEF q, r
    <3>1. ASSUME c >= q + 1
          PROVE  c * d >= (q + 1) * d
      BY <1>1, <3>1
    <3>2. (q + 1) * d = q * d + d
      BY <1>1
    <3> QED
      BY <1>1, <3>1, <3>2
  <2> HIDE DEF q, r
  <2>3. c = q => c * d = q * d
    OBVIOUS
  <2>4. c < q => c * d + d <= q * d
    <3>1. ASSUME q >= c + 1
          PROVE  (c + 1) * d <= q * d
      BY <1>1, <3>1
    <3>2. (c + 1) * d = c * d + d
      OBVIOUS
    <3> QED
      BY <1>1, <3>1, <3>2
  <2>5. q * d \in Nat /\ c * d \in Nat
    BY <1>1
  <2> QED
    BY <1>1, <1>2, <2>1, <2>2, <2>3, <2>4, <2>5
<1> QED
  BY <1>1, <1>2, <1>3

\* The code finds the least exponent that leaves room.
LEMMA LeastFits ==
    ASSUME NEW n \in Nat, ~TooBig(n)
    PROVE  /\ LeastExponent(n) \in 0 .. MaxExponent
           /\ n <= MaxMantissa * Scale[LeastExponent(n)]
           /\ \A f \in 0 .. LeastExponent(n) - 1 : n > MaxMantissa * Scale[f]
<1> DEFINE T == {e \in 0 .. MaxExponent : n <= MaxMantissa * Scale[e]}
<1>1. MaxExponent \in T /\ T \subseteq Nat
  <2>1. MaxExponent \in 0 .. MaxExponent /\ Scale[MaxExponent] \in Nat
    BY Largest, ScaleType
  <2> QED
    BY <2>1, Largest DEF TooBig
<1>2. PICK e \in T : \A f \in T : e <= f
  <2> HIDE DEF T
  <2> QED
    BY <1>1, LeastNumber
<1>3. e \in 0 .. MaxExponent /\ n <= MaxMantissa * Scale[e]
  OBVIOUS
<1>4. ASSUME NEW f \in 0 .. e - 1
      PROVE  n > MaxMantissa * Scale[f]
  <2>1. f \in 0 .. MaxExponent /\ ~(e <= f)
    BY <1>3, Largest
  <2>2. f \notin T
    BY <1>2, <2>1
  <2>3. MaxMantissa * Scale[f] \in Nat
    BY <2>1, Largest, ScaleType
  <2> QED
    BY <2>1, <2>2, <2>3
<1> HIDE DEF T
<1> QED
  BY <1>3, <1>4 DEF LeastExponent

\* The smaller of two numbers.
LEMMA Smaller ==
    ASSUME NEW a \in Nat, NEW b \in Nat
    PROVE  /\ Min({a, b}) \in {a, b} /\ Min({a, b}) <= a /\ Min({a, b}) <= b
<1>1. \E x \in {a, b} : \A y \in {a, b} : x <= y
  <2>1. CASE a <= b
    BY <2>1
  <2>2. CASE ~(a <= b)
    BY <2>2
  <2> QED
    BY <2>1, <2>2
<1> QED
  BY <1>1 DEF Min

\* The amount that stands for n with exponent e, rounded down.
LEMMA BelowType ==
    ASSUME NEW n \in Nat, NEW e \in 0 .. MaxExponent
    PROVE  /\ n \div Scale[e] \in Nat /\ Scale[e] \in Nat \ {0}
           /\ Below(n, e) \in 0 .. MaxMantissa
           /\ Below(n, e) <= n \div Scale[e]
           /\ Below(n, e) \in {n \div Scale[e], MaxMantissa}
           /\ Below(n, e) * Scale[e] \in Nat
           /\ Below(n, e) * Scale[e] <= n
<1>1. Scale[e] \in Nat \ {0} /\ MaxMantissa \in Nat
  BY ScaleType, Largest
<1>2. n \div Scale[e] \in Nat
  BY <1>1, Divided
<1>3. /\ Below(n, e) \in 0 .. MaxMantissa
      /\ Below(n, e) <= n \div Scale[e]
      /\ Below(n, e) \in {n \div Scale[e], MaxMantissa}
  BY <1>1, <1>2, Smaller DEF Below
<1>4. Below(n, e) \in Nat
  BY <1>1, <1>3
<1>5. Below(n, e) * Scale[e] <= n
  BY <1>1, <1>3, <1>4, Quotient
<1> QED
  BY <1>1, <1>2, <1>3, <1>4, <1>5

\* A mantissa under the least exponent stands for as much as any under a larger one.
LEMMA LargerExponent ==
    ASSUME NEW n \in Nat, NEW e \in 0 .. MaxExponent, NEW f \in e .. MaxExponent
    PROVE  Below(n, f) * Scale[f] <= (n \div Scale[e]) * Scale[e]
<1>1. /\ f \in 0 .. MaxExponent /\ Scale[e] \in Nat \ {0} /\ n \div Scale[e] \in Nat
      /\ Below(n, f) \in Nat /\ Below(n, f) * Scale[f] <= n
  <2>1. f \in 0 .. MaxExponent
    BY Largest
  <2> QED
    BY <2>1, BelowType, Largest
<1>2. PICK k \in Nat \ {0} : Scale[f] = k * Scale[e]
  BY <1>1, ScaleMultiple
<1>3. /\ Below(n, f) * k \in Nat
      /\ Below(n, f) * Scale[f] = (Below(n, f) * k) * Scale[e]
  BY <1>1, <1>2
<1>4. Below(n, f) * k <= n \div Scale[e]
  BY <1>1, <1>3, Quotient
<1> DEFINE c == Below(n, f) * k
           d == Scale[e]
           q == n \div d
<1>5. c \in Nat /\ d \in Nat /\ q \in Nat /\ c <= q
  BY <1>1, <1>3, <1>4
<1> HIDE DEF c, d, q
<1>6. c * d <= q * d
  BY <1>5
<1> QED
  BY <1>3, <1>6 DEF c, d, q

\* The largest mantissa under the exponent before the least one stands for as much as any
\* under a smaller one.
LEMMA SmallerExponent ==
    ASSUME NEW n \in Nat, NEW e \in 0 .. MaxExponent, NEW f \in 0 .. e
    PROVE  Below(n, f) * Scale[f] <= MaxMantissa * Scale[e]
<1>1. /\ f \in 0 .. MaxExponent /\ Scale[f] \in Nat \ {0} /\ MaxMantissa \in Nat
      /\ Below(n, f) \in Nat /\ Below(n, f) <= MaxMantissa
  <2>1. f \in 0 .. MaxExponent
    BY Largest
  <2> QED
    BY <2>1, BelowType, Largest
<1>2. e \in f .. MaxExponent
  BY Largest
<1>3. PICK k \in Nat \ {0} : Scale[e] = k * Scale[f]
  BY <1>1, <1>2, ScaleMultiple
<1> DEFINE b == Below(n, f)
           d == Scale[f]
           m == MaxMantissa
<1>4. b \in Nat /\ d \in Nat /\ m \in Nat /\ b <= m
  BY <1>1
<1> HIDE DEF b, d, m
<1>5. b * d <= m * d
  BY <1>4
<1>6. m * d <= m * (k * d)
  <2>1. m * (k * d) = k * (m * d) /\ m * d \in Nat
    BY <1>4
  <2> DEFINE p == m * d
  <2> HIDE DEF p
  <2>2. p \in Nat => p <= k * p
    OBVIOUS
  <2> QED
    BY <2>1, <2>2 DEF p
<1>7. b * d <= m * (k * d)
  <2>1. b * d \in Nat /\ m * d \in Nat /\ m * (k * d) \in Nat
    BY <1>4
  <2> QED
    BY <1>5, <1>6, <2>1
<1> QED
  BY <1>3, <1>7 DEF b, d, m

\* The bytes a rollup transaction has for an amount.
Buffers == [1 .. (ExpBits + MantissaBits) \div 8 -> [1 .. 8 -> {0, 1}]]

\* The integers that n may be rounded down to, and the greatest of them.
IsGreatestBelow(n, value) ==
    /\ value \in Nat
    /\ \E e \in 0 .. MaxExponent : value = Below(n, e) * Scale[e]
    /\ \A e \in 0 .. MaxExponent : Below(n, e) * Scale[e] <= value

\* The least exponent leaves room for the mantissa.
LEMMA MantissaFits ==
    ASSUME NEW n \in Nat, ~TooBig(n), NEW e, e = LeastExponent(n)
    PROVE  /\ e \in 0 .. MaxExponent /\ Scale[e] \in Nat \ {0}
           /\ n \div Scale[e] \in 0 .. MaxMantissa
           /\ Below(n, e) = n \div Scale[e]
<1>1. e \in 0 .. MaxExponent /\ n <= MaxMantissa * Scale[e]
  BY LeastFits
<1> DEFINE s == Scale[e]
           q == n \div s
           m == MaxMantissa
<1>2. s \in Nat \ {0} /\ q \in Nat /\ m \in Nat /\ n <= m * s
  BY <1>1, BelowType, Largest
<1>3. q <= m
  <2>1. m + 1 \in Nat /\ (m + 1) * s = m * s + s
    BY <1>2
  <2>2. m + 1 <= q => (m + 1) * s <= n
    <3> HIDE DEF m, s
    <3> QED
      BY <1>2, <2>1, Quotient DEF q
  <2> HIDE DEF m, s, q
  <2>3. m * s \in Nat
    BY <1>2
  <2> QED
    BY <1>2, <2>1, <2>2, <2>3
<1>4. Below(n, e) \in {q, m} /\ Below(n, e) <= q
  BY <1>1, BelowType
<1> HIDE DEF q, m, s
<1>5. Below(n, e) = q
  BY <1>2, <1>3, <1>4
<1> QED
  BY <1>1, <1>2, <1>3, <1>5 DEF q, m, s

\* integerToFloat rounds down to the nearest: no smaller exponent gives more than the one
\* before the least, and no larger one more than the least.
LEMMA RoundsDown ==
    ASSUME NEW n \in Nat, ~TooBig(n)
    PROVE  Pack(n) \in Buffers /\ IsGreatestBelow(n, ClosestPackable(n))
<1> DEFINE e == LeastExponent(n)
           s == Scale[e]
           q == n \div s
           low == q * s
<1>1. /\ e \in 0 .. MaxExponent /\ s \in Nat \ {0} /\ q \in 0 .. MaxMantissa
      /\ low = Below(n, e) * Scale[e] /\ low \in Nat
  <2>1. /\ e \in 0 .. MaxExponent /\ s \in Nat \ {0} /\ q \in 0 .. MaxMantissa
        /\ Below(n, e) = q
    BY MantissaFits
  <2> QED
    BY <2>1, BelowType
<1>2. \A f \in e .. MaxExponent : Below(n, f) * Scale[f] <= low
  BY <1>1, LargerExponent
<1>3. ASSUME NEW f \in 0 .. MaxExponent, NEW m \in 0 .. MaxMantissa,
             IntegerToFloat(n) = Encode(f, m), m * Scale[f] = Below(n, f) * Scale[f],
             \A g \in 0 .. MaxExponent : Below(n, g) * Scale[g] <= m * Scale[f]
      PROVE  Pack(n) \in Buffers /\ IsGreatestBelow(n, ClosestPackable(n))
  <2>1. /\ Pack(n) = ReverseBits(Encode(f, m))
        /\ Pack(n) \in Buffers /\ ClosestPackable(n) = Scale[f] * m
    BY <1>3, ReadBack DEF Pack, ClosestPackable, Buffers
  <2>2. Scale[f] \in Nat /\ m \in Nat
    BY ScaleType, Largest
  <2>3. ClosestPackable(n) = m * Scale[f] /\ m * Scale[f] \in Nat
    BY <2>1, <2>2
  <2> QED
    BY <1>3, <2>1, <2>3 DEF IsGreatestBelow
<1>4. CASE e = 0
  <2>1. IntegerToFloat(n) = Encode(e, q)
    BY <1>4 DEF IntegerToFloat
  <2>2. \A g \in 0 .. MaxExponent : Below(n, g) * Scale[g] <= low
    BY <1>2, <1>4
  <2> HIDE DEF e
  <2> QED
    BY <1>1, <1>3, <2>1, <2>2
<1>5. CASE e # 0
  <2> DEFINE f == e - 1
             p == Scale[f]
             high == MaxMantissa * p
  <2>1. f \in 0 .. MaxExponent /\ f \in 0 .. e - 1 /\ f \in Nat
    <3> HIDE DEF e, s, q, low, p, high
    <3> QED
      BY <1>1, <1>5, Largest
  <2>2. p \in Nat \ {0} /\ MaxMantissa \in Nat /\ n > high /\ high \in Nat
    BY <2>1, LeastFits, ScaleType, Largest
  <2>3. Below(n, f) = MaxMantissa
    <3>1. MaxMantissa <= n \div p
      <4> HIDE DEF p, f
      <4> QED
        BY <2>2, Quotient
    <3>2. /\ Below(n, f) \in {n \div p, MaxMantissa} /\ Below(n, f) \in 0 .. MaxMantissa
          /\ n \div p \in Nat
      BY <2>1, BelowType
    <3> QED
      BY <2>2, <3>1, <3>2
  <2>4. \A g \in 0 .. f : Below(n, g) * Scale[g] <= high
    BY <2>1, SmallerExponent
  <2>5. \A g \in 0 .. MaxExponent : g \in 0 .. f \/ g \in e .. MaxExponent
    BY <1>1, <2>1
  <2>6. \A g \in 0 .. MaxExponent : Below(n, g) * Scale[g] \in Nat
    BY BelowType
  <2>7. IntegerToFloat(n) = IF n - p * MaxMantissa < n - low
                            THEN Encode(f, MaxMantissa) ELSE Encode(e, q)
    BY <1>5 DEF IntegerToFloat
  <2>8. p * MaxMantissa = high
    BY <2>2
  <2>9. MaxMantissa \in 0 .. MaxMantissa
    BY <2>2
  <2> HIDE DEF e, f, p, high, low, s
  <2>10. CASE high > low
    <3>1. IntegerToFloat(n) = Encode(f, MaxMantissa)
      BY <1>1, <2>2, <2>7, <2>8, <2>10
    <3>2. \A g \in 0 .. MaxExponent : Below(n, g) * Scale[g] <= high
      BY <1>1, <1>2, <2>2, <2>4, <2>5, <2>6, <2>10
    <3>3. high = Below(n, f) * Scale[f] /\ high = MaxMantissa * Scale[f]
      BY <2>3 DEF high, p
    <3> QED
      BY <1>3, <2>1, <2>9, <3>1, <3>2, <3>3
  <2>11. CASE ~(high > low)
    <3>1. IntegerToFloat(n) = Encode(e, q)
      BY <1>1, <2>2, <2>7, <2>8, <2>11
    <3>2. \A g \in 0 .. MaxExponent : Below(n, g) * Scale[g] <= low
      BY <1>1, <1>2, <2>2, <2>4, <2>5, <2>6, <2>11
    <3>3. low = q * Scale[e]
      BY DEF low, s
    <3> QED
      BY <1>1, <1>3, <3>1, <3>2, <3>3
  <2> QED
    BY <2>10, <2>11
<1> QED
  BY <1>4, <1>5

\* integerToFloatUp rounds up to the nearest: under a smaller exponent than the least there
\* is no room, and a larger one gives no less.
LEMMA RoundsUp ==
    ASSUME NEW n \in Nat, ~TooBig(n)
    PROVE  /\ PackUp(n) \in Buffers
           /\ \E e \in 0 .. MaxExponent :
                 /\ Above(n, e) <= MaxMantissa
                 /\ ClosestGreaterOrEqPackable(n) = Above(n, e) * Scale[e]
           /\ \A f \in 0 .. MaxExponent :
                 Above(n, f) <= MaxMantissa =>
                     ClosestGreaterOrEqPackable(n) <= Above(n, f) * Scale[f]
           /\ \A f \in 0 .. MaxExponent : Above(n, f) * Scale[f] \in Nat
           /\ ClosestGreaterOrEqPackable(n) \in Nat
<1> DEFINE e == LeastExponent(n)
           s == Scale[e]
           m == Above(n, e)
<1>1. /\ e \in 0 .. MaxExponent /\ n <= MaxMantissa * s
      /\ \A f \in 0 .. e - 1 : n > MaxMantissa * Scale[f]
  BY LeastFits
<1>2. ASSUME NEW f \in 0 .. MaxExponent
      PROVE  /\ Scale[f] \in Nat \ {0}
             /\ Above(n, f) = IF n % Scale[f] # 0 THEN n \div Scale[f] + 1 ELSE n \div Scale[f]
             /\ Above(n, f) \in Nat
             /\ \A c \in Nat : c * Scale[f] >= n <=> c >= Above(n, f)
  <2>1. Scale[f] \in Nat \ {0}
    BY ScaleType
  <2> QED
    BY <2>1, QuotientUp DEF Above
<1>3. m \in 0 .. MaxMantissa /\ s \in Nat \ {0} /\ m * s \in Nat
  <2>1. MaxMantissa \in Nat /\ MaxMantissa * s >= n
    BY <1>1, <1>2, Largest
  <2> HIDE DEF e
  <2>2. m \in Nat /\ s \in Nat \ {0} /\ MaxMantissa >= m
    BY <1>1, <1>2, <2>1
  <2> HIDE DEF m, s
  <2> QED
    BY <2>1, <2>2
<1>4. IntegerToFloatUp(n) = Encode(e, m)
  BY <1>1, <1>2 DEF IntegerToFloatUp
<1> HIDE DEF e
<1>5. PackUp(n) \in Buffers /\ ClosestGreaterOrEqPackable(n) = s * m
  BY <1>1, <1>3, <1>4, ReadBack DEF PackUp, ClosestGreaterOrEqPackable, Buffers
<1>6. ClosestGreaterOrEqPackable(n) = m * s
  <2> HIDE DEF m, s
  <2> QED
    BY <1>3, <1>5
<1>7. ASSUME NEW f \in 0 .. MaxExponent, Above(n, f) <= MaxMantissa
      PROVE  m * s <= Above(n, f) * Scale[f]
  <2> DEFINE a == Above(n, f)
             t == Scale[f]
  <2>1. a \in Nat /\ t \in Nat \ {0} /\ a * t >= n /\ a <= MaxMantissa /\ MaxMantissa \in Nat
    BY <1>2, <1>7, Largest
  <2>2. f \in e .. MaxExponent
    <3>1. ASSUME f \in 0 .. e - 1
          PROVE  FALSE
      <4>1. n > MaxMantissa * t
        BY <1>1, <3>1
      <4> HIDE DEF a, t
      <4>2. a * t <= MaxMantissa * t
        BY <2>1
      <4>3. a * t \in Nat /\ MaxMantissa * t \in Nat
        BY <2>1
      <4> QED
        BY <2>1, <4>1, <4>2, <4>3
    <3> QED
      BY <1>1, <3>1, Largest
  <2>3. PICK k \in Nat \ {0} : t = k * s
    BY <1>1, <1>3, <2>2, ScaleMultiple
  <2>4. a * k \in Nat /\ a * t = (a * k) * s
    <3> HIDE DEF a, t, s
    <3> QED
      BY <1>3, <2>1, <2>3
  <2>5. a * k >= m
    <3> HIDE DEF a, t
    <3> QED
      BY <1>1, <1>2, <2>1, <2>4
  <2> DEFINE c == a * k
  <2>6. c \in Nat /\ c >= m /\ a * t = c * s
    BY <2>4, <2>5
  <2> HIDE DEF c, m, s, a, t
  <2>7. m * s <= c * s
    BY <1>3, <2>6
  <2> QED
    BY <2>6, <2>7 DEF a, t
<1> QED
  <2>1. \A f \in 0 .. MaxExponent : Above(n, f) * Scale[f] \in Nat
    BY <1>2
  <2> QED
    BY <1>1, <1>3, <1>5, <1>6, <1>7, <2>1
-----------------------------------------------------------------------------
(***************************************************************************)
(* What holds of every integer that is not too big, and so of every one    *)
(* the program comes by.                                                   *)
(***************************************************************************)

\* Each is a natural number with room for it.
Fits == integer \in Nat /\ ~TooBig(integer)

\* The program never holds an integer the code throws on.
LEMMA FitsAlways == Spec => []Fits
<1>1. Init => Fits
  BY PackingAssumption DEF Init, Fits
<1>2. Fits /\ [Next]_integer => Fits'
  <2> SUFFICES ASSUME Fits, [Next]_integer
               PROVE  Fits'
    OBVIOUS
  <2>1. ASSUME NEW d \in Digits, AppendDigit(d)
        PROVE  Fits'
    <3>1. ExpBase \in Nat /\ d \in Nat /\ integer \in Nat
      BY PackingAssumption DEF Fits
    <3>2. ExpBase * integer + d \in Nat
      BY <3>1
    <3> QED
      BY <2>1, <3>2 DEF AppendDigit, Fits, TooBig
  <2>2. CASE UNCHANGED integer
    BY <2>2 DEF Fits, TooBig
  <2> QED
    BY <2>1, <2>2 DEF Next
<1> QED
  BY <1>1, <1>2, PTL DEF Spec

\* The greatest of a set of numbers is the one that is in it and not exceeded.
LEMMA GreatestIsMax ==
    ASSUME NEW S \in SUBSET Nat, NEW x \in S, \A y \in S : y <= x
    PROVE  Max(S) = x
<1>1. ASSUME NEW z \in S, \A y \in S : y <= z
      PROVE  z = x
  BY <1>1
<1> QED
  BY <1>1 DEF Max

\* The least is the one that is in it and exceeds none.
LEMMA LeastIsMin ==
    ASSUME NEW S \in SUBSET Nat, NEW x \in S, \A y \in S : x <= y
    PROVE  Min(S) = x
<1>1. ASSUME NEW z \in S, \A y \in S : z <= y
      PROVE  z = x
  BY <1>1
<1> QED
  BY <1>1 DEF Min

\* What is packed always has the rollup's number of bytes, eight bits each, whatever the
\* widths of mantissa and exponent.
THEOREM TypeCorrect == Spec => []TypeOK
<1>1. Fits => TypeOK
  BY RoundsDown, RoundsUp DEF Fits, TypeOK, Buffers
<1> QED
  BY <1>1, FitsAlways, PTL

\* The two exponents integerToFloat looks at are enough: the amount it comes to is the
\* greatest under all of them that does not exceed the integer.
THEOREM PackingRoundsDown == Spec => []ClosestRoundsDown
<1>1. ASSUME Fits
      PROVE  ClosestRoundsDown
  <2> DEFINE S == {Below(integer, e) * Scale[e] : e \in 0 .. MaxExponent}
             value == ClosestPackable(integer)
  <2>1. integer \in Nat /\ IsGreatestBelow(integer, value)
    BY <1>1, RoundsDown DEF Fits
  <2>2. S \subseteq Nat
    BY <2>1, BelowType
  <2>3. value \in S /\ \A y \in S : y <= value
    BY <2>1 DEF IsGreatestBelow
  <2> HIDE DEF S, value
  <2>4. Max(S) = value
    BY <2>2, <2>3, GreatestIsMax
  <2> QED
    BY <2>4 DEF ClosestRoundsDown, S, value
<1> QED
  BY <1>1, FitsAlways, PTL

\* integerToFloatUp comes to the least amount that is not less than the integer, and the
\* mantissa it adds one to never outgrows its bits.
THEOREM PackingRoundsUp == Spec => []ClosestRoundsUp
<1>1. ASSUME Fits
      PROVE  ClosestRoundsUp
  <2> DEFINE fits == {e \in 0 .. MaxExponent : Above(integer, e) <= MaxMantissa}
             S == {Above(integer, e) * Scale[e] : e \in fits}
             value == ClosestGreaterOrEqPackable(integer)
  <2>1. integer \in Nat /\ ~TooBig(integer)
    BY <1>1 DEF Fits
  <2>2. S \subseteq Nat
    BY <2>1, RoundsUp
  <2>3. value \in S /\ \A y \in S : value <= y
    BY <2>1, RoundsUp
  <2> HIDE DEF S, value
  <2>4. Min(S) = value
    BY <2>2, <2>3, LeastIsMin
  <2> QED
    BY <2>4 DEF ClosestRoundsUp, S, value
<1> QED
  BY <1>1, FitsAlways, PTL

\* What passes the check of packAmountChecked and packFeeChecked is what has a
\* representation, no more and no less: the check never refuses an amount for being packed
\* under the wrong exponent.
THEOREM PackableMeansRepresentable == Spec => []PackableIffRepresentable
<1>1. ASSUME NEW n \in Nat, ~TooBig(n), IsPackable(n)
      PROVE  Representable(n)
  <2>1. PICK e \in 0 .. MaxExponent : n = Below(n, e) * Scale[e]
    BY <1>1, RoundsDown DEF IsPackable, IsGreatestBelow
  <2> DEFINE b == Below(n, e)
             s == Scale[e]
  <2>2. b \in 0 .. MaxMantissa /\ MaxMantissa \in Nat /\ s \in Nat \ {0} /\ n = b * s
    BY <2>1, BelowType, Largest
  <2> SUFFICES n % s = 0 /\ n \div s <= MaxMantissa
    BY DEF Representable
  <2> HIDE DEF b, s
  <2>3. b \in Nat /\ 0 \in 0 .. s - 1 /\ n = b * s + 0
    BY <2>2
  <2>4. n \div s = b /\ n % s = 0
    BY <2>2, <2>3, Division
  <2> QED
    BY <2>2, <2>4
<1>2. ASSUME NEW n \in Nat, ~TooBig(n), Representable(n)
      PROVE  IsPackable(n)
  <2>1. PICK e \in 0 .. MaxExponent : n % Scale[e] = 0 /\ n \div Scale[e] <= MaxMantissa
    BY <1>2 DEF Representable
  <2> DEFINE s == Scale[e]
             q == n \div s
             value == ClosestPackable(n)
  <2>2. s \in Nat \ {0} /\ q \in Nat /\ MaxMantissa \in Nat /\ q <= MaxMantissa
    BY <2>1, BelowType, Largest
  <2>3. n = q * s
    <3>1. n = q * s + (n % s)
      BY <2>2, Divided
    <3>2. n % s = 0 /\ q * s \in Nat
      <4>1. n % s = 0
        BY <2>1
      <4> HIDE DEF q, s
      <4> QED
        BY <2>2, <4>1
    <3> HIDE DEF q, s
    <3> QED
      BY <3>1, <3>2
  <2>4. Below(n, e) = q
    <3>1. Below(n, e) \in {q, MaxMantissa} /\ Below(n, e) <= q /\ Below(n, e) \in Nat
      BY BelowType
    <3> HIDE DEF q
    <3> QED
      BY <2>2, <3>1
  <2>5. n <= value
    BY <2>3, <2>4, <1>2, RoundsDown DEF IsGreatestBelow
  <2>6. PICK f \in 0 .. MaxExponent : value = Below(n, f) * Scale[f]
    BY <1>2, RoundsDown DEF IsGreatestBelow
  <2>7. value \in Nat /\ value <= n
    BY <2>6, BelowType
  <2> HIDE DEF value
  <2>8. value = n
    BY <2>5, <2>7
  <2> QED
    BY <2>8 DEF value, IsPackable
<1>3. Fits => PackableIffRepresentable
  BY <1>1, <1>2 DEF Fits, PackableIffRepresentable
<1> QED
  BY <1>3, FitsAlways, PTL
=============================================================================
