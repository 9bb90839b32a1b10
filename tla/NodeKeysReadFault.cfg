\* A read of node_key.pem that fails for a passing reason.
SPECIFICATION Spec
CONSTANTS
  Rotators = {r1}
  KeyManagerWired = FALSE
  Faults = {"read"}
  MaxKey = 3
INVARIANTS
  KeyStable
