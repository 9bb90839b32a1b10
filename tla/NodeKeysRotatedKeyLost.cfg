\* A rotation, with the key manager started.
SPECIFICATION Spec
CONSTANTS
  Rotators = {r1}
  KeyManagerWired = TRUE
  Faults = {}
  MaxKey = 3
INVARIANTS
  KeyOnDisk
