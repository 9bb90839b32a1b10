------------------------- MODULE MCThresholdClient -------------------------
(* Model-checking instances of ThresholdClient.                            *)
EXTENDS ThresholdClient, TLC

CONSTANTS a, b, c

\* A list of distinct nodes, one that names a node twice, a short one.
MCNodeLists == {<<a, b, c>>, <<a, b, a>>, <<b, c>>}
\* The defaults, a threshold of all, a threshold shamir.Split refuses.
MCSplits == {<<3, 2>>, <<2, 2>>, <<3, 3>>, <<2, 1>>}

CommandSymmetry == Permutations(Encrypts) \cup Permutations(Decrypts)
=============================================================================
