---------------------------- MODULE MCSubmission ----------------------------
(* Small instances of Submission.                                          *)
EXTENDS Submission, TLC

CONSTANTS c1, c2, c3, transfer, batch, remote, keyChange, onchainKeyChange

ThreeCalls == {c1, c2, c3}
TwoCalls == {c1, c2}
OneTransfer == {transfer}
OneBatch == {batch}
OneRemote == {remote}
OneKeyChange == {keyChange}
OneOnchain == {onchainKeyChange}
TwoKeyChanges == {keyChange, onchainKeyChange}

\* The attempts of a program are interchangeable.
Symmetry == Permutations(Calls)
=============================================================================
