\* Key rotation, power loss, restarts and shutdown under running requests.
SPECIFICATION FairSpec
CONSTANTS
  Stores = {s1}
  Retrieves = {g1}
  ContractIDs <- OneContract
  Contracts <- OneContract
  Objects <- OneObject
  Accounts = {alice}
  Forms = {"sealed", "badNonce"}
  DBWired = TRUE
  APIKeySet = FALSE
  Rotators = {k1}
  KeyManagerWired = TRUE
  Faults = {"power"}
  MaxKey = 2
INVARIANTS
  PanicsOnlyOnNonce
PROPERTIES
  ShutdownEnds
  SyncedKeyKept
