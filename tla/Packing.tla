------------------------------- MODULE Packing ------------------------------
(***************************************************************************)
(* The floating-point representation of amounts and fees of src/utils.ts:  *)
(* integerToFloat, integerToFloatUp, floatToInteger and the functions over *)
(* them that a program calls.  A buffer is a sequence of bytes, a byte a   *)
(* sequence of eight bits, the most significant first.  The code asks for  *)
(* 5 bits of exponent and 35 (amounts) or 11 (fees) of mantissa, base 10;  *)
(* here the widths are parameters, since their numbers exceed TLC's.       *)
(***************************************************************************)
EXTENDS Integers, SequencesExt, FiniteSetsExt, Functions

CONSTANTS
    ExpBits, MantissaBits, ExpBase,
    Starts,         \* integers to begin with
    Digits          \* digits to append to them

ASSUME PackingAssumption ==
    /\ ExpBits \in Nat \ {0} /\ MantissaBits \in Nat \ {0}
    /\ (ExpBits + MantissaBits) % 8 = 0
    /\ ExpBase \in Nat \ {0, 1}
    /\ Starts \subseteq Nat /\ Digits \subseteq Nat

VARIABLES integer       \* the amount or fee a program wants to pack

MaxMantissa == 2^MantissaBits - 1
MaxExponent == 2^ExpBits - 1

\* What an exponent stands for, the base multiplied as often.
Scale[e \in 0 .. MaxExponent] == IF e = 0 THEN 1 ELSE ExpBase * Scale[e - 1]

\* Mutant: the bit is not singled out.
NumberToBitsUnmasked(number, bits) == [i \in 1 .. bits |-> number \div 2^(i - 1)]

\* Least significant bit first.
NumberToBits(number, bits) == [i \in 1 .. bits |-> (number \div 2^(i - 1)) % 2]

BitsToNumber(bits) == SumFunction([i \in DOMAIN bits |-> bits[i] * 2^(i - 1)])

BitsIntoBytesInBEOrder(bits) ==
    [byte \in 1 .. Len(bits) \div 8 |-> SubSeq(bits, 8 * (byte - 1) + 1, 8 * byte)]

Buffer2BitsBE(buffer) == FlattenSeq(buffer)

\* What is written into a buffer: exponent first, both from the least significant bit.
Encode(exponent, mantissa) ==
    Reverse(BitsIntoBytesInBEOrder(Reverse(
        NumberToBits(exponent, ExpBits) \o NumberToBits(mantissa, MantissaBits))))

\* The code throws "Integer is too big".
TooBig(n) == n > MaxMantissa * Scale[MaxExponent]

\* The loop over exponentTemp: the least exponent that leaves room for n.
LeastExponent(n) ==
    CHOOSE e \in 0 .. MaxExponent :
        /\ n <= MaxMantissa * Scale[e]
        /\ \A f \in 0 .. e - 1 : n > MaxMantissa * Scale[f]

\* Mutant: the largest mantissa under a smaller exponent is not tried.
IntegerToFloatOneVariant(n) ==
    LET e == LeastExponent(n) IN Encode(e, n \div Scale[e])

IntegerToFloat(n) ==
    LET e == LeastExponent(n)
        mantissa == n \div Scale[e]
        diff1 == n - mantissa * Scale[e]
        diff2 == n - Scale[e - 1] * MaxMantissa
    IN  IF e # 0 /\ diff2 < diff1 THEN Encode(e - 1, MaxMantissa) ELSE Encode(e, mantissa)

\* Mutant: one is added to every mantissa.
IntegerToFloatUpAlways(n) ==
    LET e == LeastExponent(n) IN Encode(e, n \div Scale[e] + 1)

IntegerToFloatUp(n) ==
    LET e == LeastExponent(n)
        mantissa == n \div Scale[e]
    IN  Encode(e, IF n % Scale[e] # 0 THEN mantissa + 1 ELSE mantissa)

\* Mutant: the array with the bits reversed is the one returned.
ReverseBitsInBytes(buffer) == Reverse([i \in DOMAIN buffer |-> Reverse(buffer[i])])

\* The bytes are reversed; the reversal of the bits in each goes into a new array that
\* is dropped.
ReverseBits(buffer) == Reverse(buffer)

FloatToInteger(buffer) ==
    LET bits == Reverse(Buffer2BitsBE(buffer))
    IN  Scale[BitsToNumber(SubSeq(bits, 1, ExpBits))]
            * BitsToNumber(SubSeq(bits, ExpBits + 1, ExpBits + MantissaBits))

Pack(n) == ReverseBits(IntegerToFloat(n))
PackUp(n) == ReverseBits(IntegerToFloatUp(n))

ClosestPackable(n) == FloatToInteger(Pack(n))
ClosestGreaterOrEqPackable(n) == FloatToInteger(PackUp(n))

\* isTransactionAmountPackable, isTransactionFeePackable; packAmountChecked and
\* packFeeChecked throw if it does not hold.
IsPackable(n) == ClosestPackable(n) = n

(***************************************************************************)
(* A program with one integer after the other.                             *)
(***************************************************************************)
Init == integer \in Starts /\ ~TooBig(integer)

AppendDigit(d) ==
    /\ integer' = ExpBase * integer + d
    /\ ~TooBig(integer')

Next == \E d \in Digits : AppendDigit(d)

Spec == Init /\ [][Next]_integer
-----------------------------------------------------------------------------
\* The mantissas that stand for n with exponent e, rounded down and up.
Below(n, e) == Min({n \div Scale[e], MaxMantissa})
Above(n, e) == (n + Scale[e] - 1) \div Scale[e]

\* n has a representation at all.
Representable(n) ==
    \E e \in 0 .. MaxExponent : n % Scale[e] = 0 /\ n \div Scale[e] <= MaxMantissa

\* What is packed has the length and the bytes that floatToInteger and the rollup expect.
TypeOK ==
    /\ integer \in Nat
    /\ {Pack(integer), PackUp(integer)}
        \subseteq [1 .. (ExpBits + MantissaBits) \div 8 -> [1 .. 8 -> {0, 1}]]

\* closestPackableTransactionAmount and -Fee give the greatest packable integer that is
\* not greater, in spite of looking at two exponents only.
ClosestRoundsDown ==
    ClosestPackable(integer) = Max({Below(integer, e) * Scale[e] : e \in 0 .. MaxExponent})

\* closestGreaterOrEqPackableTransaction- gives the least that is not less; the
\* mantissa it rounds up never outgrows its width.
ClosestRoundsUp ==
    LET fits == {e \in 0 .. MaxExponent : Above(integer, e) <= MaxMantissa}
    IN  ClosestGreaterOrEqPackable(integer) = Min({Above(integer, e) * Scale[e] : e \in fits})

\* An integer passes the check of packAmountChecked exactly if it can be represented,
\* and then it is what its bytes, read back, stand for.
PackableIffRepresentable == IsPackable(integer) <=> Representable(integer)
=============================================================================
