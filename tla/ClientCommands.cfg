\* Two encryptions to the same paths and a decryption, all at once.
SPECIFICATION Spec
CONSTANTS
  a = a
  b = b
  c = c
  Encrypts = {e1, e2}
  Decrypts = {d1}
  Nodes = {a, b, c}
  NodeLists <- MCNodeLists
  Splits <- MCSplits
CHECK_DEADLOCK FALSE
SYMMETRY CommandSymmetry
INVARIANTS
  TypeOK
  MetaMeansDistributed
  ToleratesFailures
  LastSuccessUsable
