--------------------------- MODULE MCBatchBuilder ---------------------------
(* Small instances of BatchBuilder.                                        *)
EXTENDS BatchBuilder, TLC

CONSTANTS b1, DAI, RBTC

OneBuild == {b1}
TwoTokens == {DAI, RBTC}

TokenSymmetry == Permutations(Tokens)
=============================================================================
