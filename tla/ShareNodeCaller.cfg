\* A transaction that names another account than the one that asks.
SPECIFICATION Spec
CONSTANTS
  Stores = {s1}
  Retrieves = {g1}
  ContractIDs <- OneContract
  Contracts <- OneContract
  Objects <- OneObject
  Accounts = {alice, bob}
  Forms = {"sealed"}
  DBWired = TRUE
  APIKeySet = FALSE
  Rotators = {}
  KeyManagerWired = FALSE
  Faults = {}
  MaxKey = 1
INVARIANTS
  GrantedToAllowedCaller
