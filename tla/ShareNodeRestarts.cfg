\* A node with its database, three stores of one object and a retrieval.
SPECIFICATION Spec
CONSTANTS
  Stores = {s1, s2, s3}
  Retrieves = {g1}
  ContractIDs <- OneContract
  Contracts <- OneContract
  Objects <- OneObject
  Accounts = {alice}
  Forms = {"sealed"}
  DBWired = TRUE
  APIKeySet = FALSE
  Rotators = {}
  KeyManagerWired = FALSE
  Faults = {}
  MaxKey = 2
SYMMETRY RequestSymmetry
INVARIANTS
  AckedStoreKept
  WriteOnceInOrder
  StoredSharesOpen
  KeyStable
  KeyOnDisk
PROPERTIES
  NotFoundIsHonest
  ImplementsVault
