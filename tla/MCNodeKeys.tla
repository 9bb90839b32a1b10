----------------------------- MODULE MCNodeKeys -----------------------------
(* Model-checking instances of NodeKeys: the configurations give every     *)
(* constant its value.                                                     *)
EXTENDS NodeKeys
=============================================================================
