------------------------------ MODULE ShareKey ------------------------------
(***************************************************************************)
(* The BoltDB key of a share: fmt.Sprintf("%s_%s", ContractID, ObjectID),  *)
(* the same in handleStoreShare, handleRetrieveShare and handlePurgeShares *)
(* (node/handlers.go, node/rotate_handler.go).  An identifier is the       *)
(* sequence of its characters.                                             *)
(***************************************************************************)
EXTENDS Naturals, Sequences

Sep == "_"

\* Mutant: the key is the object's alone.
ShareKeyOfObject(contractID, objectID) == <<Sep>> \o objectID

ShareKey(contractID, objectID) == contractID \o <<Sep>> \o objectID

\* No character of id is the separator.  A contract strkey is base32 ("C...",
\* letters and digits); an object id is whatever text the client was given.
SepFree(id) == \A i \in 1..Len(id) : id[i] # Sep

\* Distinct (contract, object) pairs never share a database key, provided the
\* contract ids hold no separator; nothing is asked of the object ids.
KeysDistinct(Contracts, Objects) ==
  \A c, d \in Contracts, o, p \in Objects :
    ShareKey(c, o) = ShareKey(d, p) => c = d /\ o = p
=============================================================================
