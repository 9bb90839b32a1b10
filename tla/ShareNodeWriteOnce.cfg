\* Two stores of one object at the same time.
SPECIFICATION Spec
CONSTANTS
  Stores = {s1, s2}
  Retrieves = {}
  ContractIDs <- OneContract
  Contracts <- OneContract
  Objects <- OneObject
  Accounts = {alice}
  Forms = {"sealed"}
  DBWired = TRUE
  APIKeySet = FALSE
  Rotators = {}
  KeyManagerWired = FALSE
  Faults = {}
  MaxKey = 1
INVARIANTS
  WriteOnce
