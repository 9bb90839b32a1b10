\* A rotation between a store and the answer to a retrieval.
SPECIFICATION Spec
CONSTANTS
  Stores = {s1}
  Retrieves = {g1}
  ContractIDs <- OneContract
  Contracts <- OneContract
  Objects <- OneObject
  Accounts = {alice}
  Forms = {"sealed"}
  DBWired = TRUE
  APIKeySet = FALSE
  Rotators = {k1}
  KeyManagerWired = TRUE
  Faults = {}
  MaxKey = 2
INVARIANTS
  StoredSharesOpen
