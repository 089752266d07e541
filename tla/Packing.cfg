\* A mantissa of fourteen bits and an exponent of two, base 10, in two bytes: every integer with the
\* digits 0, 3, 8 and 9, and around the boundaries 16383 * 10^e, up to the largest there is, 16383000.
SPECIFICATION Spec
CONSTANTS
    ExpBits = 2
    MantissaBits = 14
    ExpBase = 10
    Starts <- Boundaries
    Digits <- SomeDigits
INVARIANTS TypeOK ClosestRoundsDown ClosestRoundsUp PackableIffRepresentable
CHECK_DEADLOCK FALSE
