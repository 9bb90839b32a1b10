---------------------------- MODULE MCStreaming ----------------------------
(* Model-checking instance of Streaming.                                   *)
EXTENDS Streaming

EncryptSymmetry == Permutations(Encrypts)
=============================================================================
