---------------------------- MODULE MCShareNode ----------------------------
(* Model-checking instances of ShareNode.                                  *)
EXTENDS ShareNode, TLC

OneContract == {<<"C">>}
OneObject == {<<"x", "_", "y">>}

\* A strkey, another text that could be one, and a text that could not.  With
\* two object ids, of which one begins with the separator, pairs of these have
\* one database key: "C_" with "y" is filed where "C" with "_y" is looked for.
ThreeIDs == {<<"C">>, <<"D">>, <<"C", "_">>}
TwoObjects == {<<"y">>, <<"_", "y">>}

RequestSymmetry ==
  Permutations(Stores) \cup Permutations(Retrieves)

AccountSymmetry == Permutations(Accounts)

=============================================================================
