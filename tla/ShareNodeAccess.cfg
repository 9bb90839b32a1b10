\* A contract's id and two that are none, two objects, a store and a retrieval of
\* whatever shape, grants and revocations.
SPECIFICATION Spec
CONSTANTS
  Stores = {s1}
  Retrieves = {g1}
  ContractIDs <- ThreeIDs
  Contracts <- OneContract
  Objects <- TwoObjects
  Accounts = {alice, bob}
  Forms = {"sealed", "garbled", "badNonce"}
  DBWired = TRUE
  APIKeySet = TRUE
  Rotators = {}
  KeyManagerWired = FALSE
  Faults = {}
  MaxKey = 1
SYMMETRY AccountSymmetry
INVARIANTS
  TypeOK
  GrantWasApproved
  ReleasedShareMatches
  ChainOneAuthority
PROPERTIES
  ImplementsVault
