\* The node with a key manager, every fault, two concurrent rotations.
SPECIFICATION FairSpec
CONSTANTS
  Rotators = {r1, r2}
  KeyManagerWired = TRUE
  Faults = {"read", "power"}
  MaxKey = 4
INVARIANTS
  TypeOK
  KeyPairAgrees
  NoRotationLost
PROPERTIES
  OldKeysKept
  RotationCompletes
