----------------------------- MODULE ShareNode -----------------------------
(***************************************************************************)
(* A storage node: POST /store and POST /retrieve (node/handlers.go), the  *)
(* transaction check and the RPC simulation they rely on (node/main.go),   *)
(* the BoltDB store (node/store.go) and graceful shutdown (node/server.go) *)
(* on top of the node's key (NodeKeys) and of the on-chain allowlist       *)
(* (Allowlist).  Every request runs in a goroutine of its own; a step is   *)
(* what it does between two points where another goroutine, the chain or a *)
(* crash can come between: a BoltDB transaction, the RPC call, the reply.  *)
(*                                                                         *)
(* A share is known by the /store request that carried it, and its         *)
(* ciphertext by its form and by the public key it was sealed for.         *)
(***************************************************************************)
EXTENDS Naturals, FiniteSets, ShareKey

CONSTANTS
  Stores, Retrieves,         \* the POST /store and POST /retrieve requests
  ContractIDs, Objects,      \* the ids requests may name (sequences)
  Contracts,                 \* those that are the strkeys of contracts
  Accounts,                  \* Stellar accounts
  Forms,                     \* the forms of share that clients post
  DBWired,                   \* TRUE iff start-up calls initDB
  APIKeySet,                 \* TRUE iff STORE_API_KEY is configured
  Rotators, KeyManagerWired, Faults, MaxKey  \* of NodeKeys

ASSUME WiringAssumption == DBWired \in BOOLEAN /\ APIKeySet \in BOOLEAN
ASSUME KeyAssumption ==
  /\ KeyManagerWired \in BOOLEAN
  /\ Faults \subseteq {"read", "power"}
  /\ MaxKey \in Nat \ {0}
ASSUME RequestsAssumption == Stores \cap Retrieves = {}

\* A share is sealed as ECIESEncrypt does it, or its ephemeral key or ciphertext
\* is wrong, or its nonce has another length.  /store looks at no more than the
\* hex of the three.
ASSUME FormsAssumption == Forms \subseteq {"sealed", "garbled", "badNonce"}

\* Ids are texts, which no handler looks into; a strkey is base32.
ASSUME IdsAssumption ==
  /\ Contracts \subseteq ContractIDs
  /\ ContractIDs \subseteq Seq(STRING) /\ Objects \subseteq Seq(STRING)
  /\ \A c \in Contracts : SepFree(c)

VARIABLES
  keyFile, durableKey, phase, loader, pending, nodePrivateKey, nodePublicKey,
  keys, currentVersion, mu, pc, newKey, reported, nextKey, served,
  admin, allowed, grantors,
  shares,   \* BoltDB, on disk: share key -> the request whose share it holds
  db,       \* the global handle: "nil", "open" or "closed"
  srv,      \* the HTTP server: "off", "accepting", "draining" or "closing"
  hpc,      \* where each request's handler is
  req,      \* the request, once its handler has validated it
  got,      \* what a /retrieve handler loaded from the store
  resp,     \* the status a handler answered with
  acked,    \* history: the stores answered 200 when a request arrived
  vouched   \* history: whom a retrieval's contract has let in since it came

keyVars == <<keyFile, durableKey, phase, loader, pending, nodePrivateKey,
             nodePublicKey, keys, currentVersion, mu, pc, newKey, reported,
             nextKey, served>>
chainVars == <<admin, allowed, grantors>>
handlerVars == <<hpc, req, got, resp, acked>>
vars == <<keyVars, chainVars, shares, db, srv, handlerVars, vouched>>

Keys == INSTANCE NodeKeys
Chain == INSTANCE Allowlist

Handlers == Stores \cup Retrieves

\* The accounts on the list of the contract with that id; one that is no
\* contract's lets in nobody.
LetIn(lists, id) == IF id \in Contracts THEN lists[id] ELSE {}
Key(q) == ShareKey(q.contract, q.object)
ShareKeys == {ShareKey(c, o) : c \in ContractIDs, o \in Objects}

\* f with x mapped to y: a map assignment m[x] = y.
Put(f, x, y) == [z \in DOMAIN f \cup {x} |-> IF z = x THEN y ELSE f[z]]
EmptyMap == [x \in {} |-> x]

Points == {"idle", "check", "save", "reply", "simulate", "load", "decrypt",
           "done", "lost"}
Answers == {"none", "limited", "unauthorized", "invalid", "conflict",
            "storeError", "stored", "rpcError", "denied", "notFound",
            "decryptError", "granted", "aborted"}

\* A request whose handler is running.
Active(h) == hpc[h] \notin {"idle", "done", "lost"}
Acked == {s \in Stores : resp[s] = "stored"}

-----------------------------------------------------------------------------
(* What a handler step may do to the handlers' state.                      *)

\* The handler of h answers and returns.
Answer(h, answer) ==
  /\ resp' = [resp EXCEPT ![h] = answer]
  /\ hpc' = [hpc EXCEPT ![h] = "done"]
  /\ UNCHANGED <<req, got, acked>>

\* The handler of h goes on at point.
GoTo(h, point) ==
  /\ hpc' = [hpc EXCEPT ![h] = point]
  /\ UNCHANGED <<req, got, resp, acked>>

\* The node accepts request h, validated as q, and its handler starts.
Accept(h, q, point) ==
  /\ hpc' = [hpc EXCEPT ![h] = point]
  /\ req' = Put(req, h, q)
  /\ acked' = Put(acked, h, Acked)
  /\ UNCHANGED <<got, resp>>

\* The server takes new requests.
Arrival(h) == srv = "accepting" /\ hpc[h] = "idle"

\* A bbolt call on a nil *bolt.DB panics; net/http drops the connection.
Panics(h) == db = "nil" /\ Answer(h, "aborted")

-----------------------------------------------------------------------------
(* POST /store.                                                            *)

\* The early returns of the middleware and of handleStoreShare's validation.
\* (Their order only decides which error a doubly wrong request is given.)
StoreRefusals ==
  {"limited", "invalid"} \cup (IF APIKeySet THEN {"unauthorized"} ELSE {})

StoreRefused(s) ==
  /\ Arrival(s)
  /\ \E answer \in StoreRefusals : Answer(s, answer)
  /\ UNCHANGED <<keyVars, chainVars, shares, db, srv, vouched>>

\* The contract id is any text.  A client seals its share for a public key the
\* node has served.
StoreArrive(s) ==
  /\ Arrival(s)
  /\ \E c \in ContractIDs, o \in Objects, k \in served, f \in Forms, over \in BOOLEAN :
       Accept(s, [contract |-> c, object |-> o, pub |-> k, form |-> f,
                  overwrite |-> over],
              IF over THEN "save" ELSE "check")
  /\ UNCHANGED <<keyVars, chainVars, shares, db, srv, vouched>>

\* Mutant: the write-once check is forgotten.
StoreCheckSkipped(s) ==
  /\ hpc[s] = "check"
  /\ Panics(s) \/ (db # "nil" /\ GoTo(s, "save"))
  /\ UNCHANGED <<keyVars, chainVars, shares, db, srv, vouched>>

\* The write-once check: a read transaction.  Load's error is dropped.
StoreCheck(s) ==
  /\ hpc[s] = "check"
  /\ \/ Panics(s)
     \/ /\ db = "open" /\ Key(req[s]) \in DOMAIN shares
        /\ Answer(s, "conflict")
     \/ /\ db = "open" => Key(req[s]) \notin DOMAIN shares
        /\ db # "nil"
        /\ GoTo(s, "save")
  /\ UNCHANGED <<keyVars, chainVars, shares, db, srv, vouched>>

\* Mutant: the reply does not wait for the commit, which a crash undoes.
StoreSaveNoCommit(s) ==
  /\ hpc[s] = "save" /\ db = "open"
  /\ GoTo(s, "reply")
  /\ UNCHANGED <<keyVars, chainVars, shares, db, srv, vouched>>

\* Mutant: the share is filed under its object id alone.
StoreSaveByObject(s) ==
  /\ hpc[s] = "save" /\ db = "open"
  /\ shares' = Put(shares, req[s].object, s)
  /\ GoTo(s, "reply")
  /\ UNCHANGED <<keyVars, chainVars, db, srv, vouched>>

\* saveShare's transaction commits (and is synced to disk).
StoreSave(s) ==
  /\ hpc[s] = "save" /\ db = "open"
  /\ shares' = Put(shares, Key(req[s]), s)
  /\ GoTo(s, "reply")
  /\ UNCHANGED <<keyVars, chainVars, db, srv, vouched>>

\* saveShare returns an error: the database is closed, or the transaction
\* was rolled back (a full disk); or it panics.
StoreSaveFails(s) ==
  /\ hpc[s] = "save"
  /\ Panics(s) \/ (db # "nil" /\ Answer(s, "storeError"))
  /\ UNCHANGED <<keyVars, chainVars, shares, db, srv, vouched>>

StoreReply(s) ==
  /\ hpc[s] = "reply"
  /\ Answer(s, "stored")
  /\ UNCHANGED <<keyVars, chainVars, shares, db, srv, vouched>>

StoreStep(s) == StoreCheck(s) \/ StoreSave(s) \/ StoreSaveFails(s) \/ StoreReply(s)

-----------------------------------------------------------------------------
(* POST /retrieve.                                                         *)

\* A transaction envelope: its kind, its source account, its operations, and
\* the call of the first one, fn(_id, arg) on contract.  This is the one
\* BuildApproveTransaction (client/transaction.go) makes.
ApproveTx(c, caller) ==
  [kind |-> "invokeContract", source |-> caller, ops |-> 1, contract |-> c,
   fn |-> "approve", arg |-> caller]

\* Those transactions of any contract, and the ones that differ in a part.
Txs(caller) ==
  LET Variants(tx) ==
        {tx, [tx EXCEPT !.kind = "other"], [tx EXCEPT !.ops = 2],
         [tx EXCEPT !.fn = "is_allowed"]}
        \cup {[tx EXCEPT !.source = a] : a \in Accounts}
        \cup {[tx EXCEPT !.arg = a] : a \in Accounts}
  IN  UNION {Variants(ApproveTx(c, caller)) : c \in Contracts}

\* Mutant: the transaction's contract is not compared with the request's.
VerifySorobanTxAnyContract(tx, contractID, caller) ==
  /\ tx.kind = "invokeContract" /\ tx.ops = 1
  /\ tx.source = caller
  /\ tx.fn = "approve"

\* The arguments of the call are not looked at.
VerifySorobanTx(tx, contractID, caller) ==
  /\ tx.kind = "invokeContract" /\ tx.ops = 1
  /\ tx.source = caller
  /\ tx.contract = contractID
  /\ tx.fn = "approve"

\* The early returns before the transaction check: rate limits (per IP, per
\* object), missing fields and bad hex, an invalid signature.
RetrieveRefusals == {"limited", "invalid", "unauthorized"}

RetrieveRefused(r) ==
  /\ Arrival(r)
  /\ \/ \E answer \in RetrieveRefusals : Answer(r, answer)
     \/ \E c \in ContractIDs, a \in Accounts : \E tx \in Txs(a) :
          ~VerifySorobanTx(tx, c, a) /\ Answer(r, "invalid")
  /\ UNCHANGED <<keyVars, chainVars, shares, db, srv, vouched>>

\* A request that passes every local check.
RetrieveArrive(r) ==
  /\ Arrival(r)
  /\ \E c \in ContractIDs, o \in Objects, a \in Accounts : \E tx \in Txs(a) :
       /\ VerifySorobanTx(tx, c, a)
       /\ Accept(r, [contract |-> c, object |-> o, caller |-> a, tx |-> tx],
                 "simulate")
       /\ vouched' = [vouched EXCEPT ![r] = LetIn(allowed, c)]
  /\ UNCHANGED <<keyVars, chainVars, shares, db, srv>>

\* Whether the RPC node's simulation of tx succeeds on the current ledger
\* (any function but approve is a read that does).
SimulatesOK(tx) == tx.fn = "approve" => Chain!Approve(tx.contract, tx.arg)

\* Mutant: an RPC call that fails counts as an approval.
RetrieveSimulateFailsOpen(r) ==
  /\ hpc[r] = "simulate"
  /\ \/ GoTo(r, "load")
     \/ ~SimulatesOK(req[r].tx) /\ Answer(r, "denied")
     \/ SimulatesOK(req[r].tx) /\ GoTo(r, "load")
  /\ UNCHANGED <<keyVars, chainVars, shares, db, srv, vouched>>

\* simulateSorobanTx: the call fails or its answer cannot be used, or the
\* RPC node has run the call.  There is no time limit: no step need be taken.
RetrieveSimulate(r) ==
  /\ hpc[r] = "simulate"
  /\ \/ Answer(r, "rpcError")
     \/ ~SimulatesOK(req[r].tx) /\ Answer(r, "denied")
     \/ SimulatesOK(req[r].tx) /\ GoTo(r, "load")
  /\ UNCHANGED <<keyVars, chainVars, shares, db, srv, vouched>>

\* Mutant: a draining node treats its database as closed already.
RetrieveLoadNotDraining(r) ==
  /\ hpc[r] = "load"
  /\ \/ Panics(r)
     \/ /\ db # "nil"
        /\ srv = "draining" \/ db = "closed" \/ Key(req[r]) \notin DOMAIN shares
        /\ Answer(r, "notFound")
     \/ /\ db = "open" /\ srv # "draining" /\ Key(req[r]) \in DOMAIN shares
        /\ got' = Put(got, r, shares[Key(req[r])])
        /\ hpc' = [hpc EXCEPT ![r] = "decrypt"]
        /\ UNCHANGED <<req, resp, acked>>
  /\ UNCHANGED <<keyVars, chainVars, shares, db, srv, vouched>>

\* loadShare.  A database error is answered like a missing share.
RetrieveLoad(r) ==
  /\ hpc[r] = "load"
  /\ \/ Panics(r)
     \/ /\ db = "closed" \/ (db = "open" /\ Key(req[r]) \notin DOMAIN shares)
        /\ Answer(r, "notFound")
     \/ /\ db = "open" /\ Key(req[r]) \in DOMAIN shares
        /\ got' = Put(got, r, shares[Key(req[r])])
        /\ hpc' = [hpc EXCEPT ![r] = "decrypt"]
        /\ UNCHANGED <<req, resp, acked>>
  /\ UNCHANGED <<keyVars, chainVars, shares, db, srv, vouched>>

\* How DecryptShare of what request q stored comes out.  gcm.Open panics on a
\* nonce of the wrong length; otherwise it opens what was sealed for the key.
DecryptShare(q) ==
  CASE q.form = "badNonce" -> "aborted"
    [] q.form = "sealed" /\ q.pub = nodePrivateKey -> "granted"
    [] OTHER -> "decryptError"

\* nodePrivateKey is read here, without km.mu.
RetrieveDecrypt(r) ==
  /\ hpc[r] = "decrypt"
  /\ Answer(r, DecryptShare(req[got[r]]))
  /\ UNCHANGED <<keyVars, chainVars, shares, db, srv, vouched>>

RetrieveStep(r) == RetrieveSimulate(r) \/ RetrieveLoad(r) \/ RetrieveDecrypt(r)

-----------------------------------------------------------------------------
(* The chain, the key, start-up, shutdown and crashes.                     *)

ChainStep ==
  /\ Chain!ChainNext
  /\ vouched' = [r \in Retrieves |->
       vouched[r] \cup (IF Active(r) THEN LetIn(allowed', req[r].contract) ELSE {})]
  /\ UNCHANGED <<keyVars, shares, db, srv, handlerVars>>

\* initDB (if it is called) and the listener come after the key.
StartUp ==
  /\ Keys!StartUp
  /\ IF phase' = "serve"
       THEN /\ db' = IF DBWired THEN "open" ELSE "nil"
            /\ srv' = "accepting"
       ELSE UNCHANGED <<db, srv>>
  /\ UNCHANGED <<chainVars, shares, handlerVars, vouched>>

\* GET /public-key and the arrival of POST /rotate-key.
KeyRequest ==
  /\ srv = "accepting"
  /\ \/ Keys!HandleGetPublicKey
     \/ \E r \in Rotators : Keys!RotateFails(r) \/ Keys!RotateGenerate(r)
  /\ UNCHANGED <<chainVars, shares, db, srv, handlerVars, vouched>>

\* The rest of a rotation.
RotateStep(r) ==
  /\ \/ Keys!RotateLock(r) \/ Keys!PublishPrivate(r) \/ Keys!PublishPublic(r)
     \/ Keys!RotateReport(r)
  /\ UNCHANGED <<chainVars, shares, db, srv, handlerVars, vouched>>

KeyWriteBack ==
  /\ Keys!WriteBack
  /\ UNCHANGED <<chainVars, shares, db, srv, handlerVars, vouched>>

Rotating(r) == pc[r] \in {"lock", "publish", "private", "public", "report"}
Idle == (\A h \in Handlers : ~Active(h)) /\ (\A r \in Rotators : ~Rotating(r))

\* SIGINT or SIGTERM: Shutdown closes the listener.
SigTerm ==
  /\ srv = "accepting"
  /\ srv' = "draining"
  /\ UNCHANGED <<keyVars, chainVars, shares, db, handlerVars, vouched>>

\* Mutant: closeDB also clears the handle.
CloseDBClears == db' = "nil"

CloseDB == db' = IF db = "nil" THEN "nil" ELSE "closed"

\* Mutant: Shutdown is given a context that never ends.
ShutdownReturnsWhenIdle ==
  /\ srv = "draining" /\ Idle
  /\ srv' = "closing"
  /\ CloseDB
  /\ UNCHANGED <<keyVars, chainVars, shares, handlerVars, vouched>>

\* Shutdown returns because every handler has, or because its 30 seconds are
\* over, whatever handlers still run; closeDB follows.
ShutdownReturns ==
  /\ srv = "draining"
  /\ srv' = "closing"
  /\ CloseDB
  /\ UNCHANGED <<keyVars, chainVars, shares, handlerVars, vouched>>

\* The process is gone; running handlers answer nobody.
Down ==
  /\ db' = "nil" /\ srv' = "off"
  /\ hpc' = [h \in Handlers |-> IF Active(h) THEN "lost" ELSE hpc[h]]
  /\ UNCHANGED <<chainVars, shares, req, got, resp, acked, vouched>>

\* main returns after closeDB.
Exit == srv = "closing" /\ Keys!Crash /\ Down

Crash == (Keys!Crash \/ Keys!PowerFail) /\ Down

-----------------------------------------------------------------------------
Init ==
  /\ Keys!Init
  /\ Chain!ChainInit
  /\ shares = EmptyMap /\ db = "nil" /\ srv = "off"
  /\ hpc = [h \in Handlers |-> "idle"]
  /\ req = EmptyMap /\ got = EmptyMap /\ acked = EmptyMap
  /\ resp = [h \in Handlers |-> "none"]
  /\ vouched = [r \in Retrieves |-> {}]

Store(s) == StoreRefused(s) \/ StoreArrive(s) \/ StoreStep(s)
Retrieve(r) == RetrieveRefused(r) \/ RetrieveArrive(r) \/ RetrieveStep(r)

Next ==
  \/ \E s \in Stores : Store(s)
  \/ \E r \in Retrieves : Retrieve(r)
  \/ ChainStep
  \/ StartUp \/ KeyRequest \/ KeyWriteBack
  \/ \E r \in Rotators : RotateStep(r)
  \/ SigTerm \/ ShutdownReturns \/ Exit \/ Crash

Spec == Init /\ [][Next]_vars

\* The shutdown timer fires and main returns once it may.  Nothing is assumed
\* of clients, of handlers, of crashes or of the Soroban RPC service.
FairSpec == Spec /\ WF_vars(ShutdownReturns) /\ WF_vars(Exit)

-----------------------------------------------------------------------------
(* Properties.                                                             *)

StoreReq == [contract : ContractIDs, object : Objects, pub : Nat, form : Forms,
             overwrite : BOOLEAN]
Tx == [kind : {"invokeContract", "other"}, source : Accounts, ops : {1, 2},
       contract : Contracts, fn : {"approve", "is_allowed"}, arg : Accounts]
RetrieveReq == [contract : ContractIDs, object : Objects, caller : Accounts,
                tx : Tx]

\* Every variable has the type its declaration names; a handler past
\* validation has its request, and what is stored came from such a request.
TypeOK ==
  /\ Keys!TypeOK
  /\ Chain!ChainTypeOK
  /\ DOMAIN shares \subseteq ShareKeys /\ shares \in [DOMAIN shares -> Stores]
  /\ db \in {"nil", "open", "closed"}
  /\ srv \in {"off", "accepting", "draining", "closing"}
  /\ hpc \in [Handlers -> Points]
  /\ resp \in [Handlers -> Answers]
  /\ DOMAIN req \subseteq Handlers
  /\ \A s \in Stores \cap DOMAIN req : req[s] \in StoreReq
  /\ \A r \in Retrieves \cap DOMAIN req : req[r] \in RetrieveReq
  /\ DOMAIN got \subseteq Retrieves /\ got \in [DOMAIN got -> Stores]
  /\ acked \in [DOMAIN req -> SUBSET Stores]
  /\ vouched \in [Retrieves -> SUBSET Accounts]

\* Allowlist's OneAuthority holds of the chain this node works against: the
\* contract that is built has no second admin (docs/contract.md:32, "Multi-Admin
\* Add a second admin", says it can be given one).
ChainOneAuthority == Chain!OneAuthority

\* A share is released only if, at some moment between the request's arrival
\* and its answer, the contract the request names let in the account its
\* transaction names: no interleaving of revocations, other requests and
\* restarts makes use of a stale approval, or of another contract's.
GrantWasApproved ==
  \A r \in Retrieves : resp[r] = "granted" => req[r].tx.arg \in vouched[r]

\* "they must present a valid access token showing they are on the contract's
\* allowlist.  If they are, nodes release their key shares" (README.md:5) and
\* "If the transaction executes successfully (i.e. the caller is allowed)"
\* (README.md:21): the contract lets in the caller, who signed the request, at
\* some moment while it ran.
GrantedToAllowedCaller ==
  \A r \in Retrieves : resp[r] = "granted" => req[r].caller \in vouched[r]

\* The share released for an object was stored for that object under that
\* contract, unless whoever stored it gave a contract id with the separator
\* in it, which is no contract's: among strkeys no two pairs of ids, whatever
\* the object ids look like, are taken for one another.
ReleasedShareMatches ==
  \A r \in Retrieves : resp[r] = "granted" =>
    \/ /\ req[got[r]].contract = req[r].contract
       /\ req[got[r]].object = req[r].object
    \/ ~SepFree(req[got[r]].contract)

\* A share the node acknowledged is on disk for good, through crashes, and
\* its place is only taken by a store with X-Overwrite or by one that was
\* already under way when it was acknowledged.
AckedStoreKept ==
  \A s \in Stores : resp[s] = "stored" =>
    /\ Key(req[s]) \in DOMAIN shares
    /\ LET t == shares[Key(req[s])] IN
         t = s \/ req[t].overwrite \/ s \notin acked[t]

\* 404 is only answered for a share no client had been told is stored, or
\* while shutdown has closed the database.
NotFoundIsHonest ==
  [][\A r \in Retrieves : resp[r] # "notFound" /\ resp'[r] = "notFound" =>
       db = "closed" \/ \A s \in acked[r] : Key(req[s]) # Key(req[r])]_vars

\* A share that was sealed for the node can be opened whenever it is asked for,
\* after any number of restarts: no approved retrieval of it ends in
\* "Decryption failed".
StoredSharesOpen ==
  \A r \in Retrieves : resp[r] = "decryptError" => req[got[r]].form # "sealed"

\* NodeKeys' KeyStable and KeyOnDisk hold of the node that serves requests,
\* and once node_key.pem has reached the disk no restart, rotation or loss of
\* power replaces it (LoadOrGenerateKey).
KeyStable == Keys!KeyStable
KeyOnDisk == Keys!KeyOnDisk
SyncedKeyKept == Keys!SyncedKeyKept

\* "Write-once: reject duplicate unless X-Overwrite: true"
\* (node/handlers.go:111): of the stores of one share key without X-Overwrite
\* at most one is answered 200.
WriteOnce ==
  \A s, t \in Acked :
    Key(req[s]) = Key(req[t]) /\ ~req[s].overwrite /\ ~req[t].overwrite => s = t

\* What the check does give: a store without X-Overwrite is answered 200 only
\* if no share of its key had been when it arrived.  Neither a shutdown that
\* closes the database after the check nor a restart lets one slip through.
WriteOnceInOrder ==
  \A s \in Acked : req[s].overwrite \/ \A t \in acked[s] : Key(req[t]) # Key(req[s])

\* A handler panics for one reason only, a stored nonce gcm.Open cannot take:
\* no handler, not even one that outlives the drain or a restart of the server,
\* meets a database handle that is nil.
PanicsOnlyOnNonce ==
  \A h \in Handlers : resp[h] = "aborted" =>
    h \in Retrieves /\ h \in DOMAIN got /\ req[got[h]].form = "badNonce"

\* A shutdown signal ends the process even if the RPC service never answers.
ShutdownEnds == srv = "draining" ~> srv = "off"

-----------------------------------------------------------------------------
(* The node implements ShareVault: its places are the keys of BoltDB, and  *)
(* a handler's position and its answer give the stage of its request.      *)

VaultOutcome(answer) ==
  CASE answer = "stored" -> "acked"
    [] answer = "granted" -> "granted"
    [] answer = "notFound" -> "missing"
    [] OTHER -> "refused"

VaultStage(h) ==
  CASE hpc[h] = "idle" -> "new"
    [] hpc[h] \in {"check", "save", "simulate"} -> "open"
    [] hpc[h] = "reply" -> "in"
    [] hpc[h] = "load" -> "cleared"
    [] hpc[h] = "decrypt" -> "held"
    [] hpc[h] = "lost" -> "gone"
    [] hpc[h] = "done" -> VaultOutcome(resp[h])

VaultAsk(h) ==
  IF h \in Stores
    THEN [place |-> Key(req[h]), overwrite |-> req[h].overwrite]
    ELSE [place |-> Key(req[h]), contract |-> req[h].contract,
          names |-> req[h].tx.arg]

Vault == INSTANCE ShareVault WITH
  Puts <- Stores, Gets <- Retrieves, Places <- ShareKeys,
  vault <- shares,
  stage <- [h \in Handlers |-> VaultStage(h)],
  ask <- [h \in DOMAIN req |-> VaultAsk(h)],
  known <- acked,
  held <- got,
  closing <- (db = "closed")

\* Seen from its clients and the contracts, the node is the vault of
\* ShareVault: whatever handlers, crashes, shutdowns, rotations and ledger
\* transactions interleave, every step commits, acknowledges, clears, reads,
\* releases or refuses as the vault may.
ImplementsVault == Vault!Spec

=============================================================================
