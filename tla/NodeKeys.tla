------------------------------ MODULE NodeKeys ------------------------------
(***************************************************************************)
(* The life of a storage node's P-256 key: LoadOrGenerateKey at start-up   *)
(* (node/keystore.go), the init() and initKeyManager that call it          *)
(* (node/main.go, node/keymanager.go), POST /rotate-key and Rotate         *)
(* (node/rotate_handler.go, node/keymanager.go) and GET /public-key.       *)
(*                                                                         *)
(* A key is a number: key pairs are drawn from crypto/rand and never       *)
(* repeat, so the k-th key generated is k.  A private key and its public   *)
(* key have the same number; NoKey stands for a nil pointer, and for a     *)
(* node_key.pem that is absent, empty or does not parse (LoadOrGenerateKey *)
(* treats the three alike).                                                *)
(***************************************************************************)
EXTENDS Naturals

CONSTANTS
  Rotators,         \* the POST /rotate-key requests, one goroutine each
  KeyManagerWired,  \* TRUE iff start-up calls initKeyManager
  Faults,           \* which of "read" and "power" may happen
  MaxKey            \* bound: how many keys are ever generated

ASSUME KeyManagerWiredAssumption == KeyManagerWired \in BOOLEAN
ASSUME FaultsAssumption == Faults \subseteq {"read", "power"}
ASSUME MaxKeyAssumption == MaxKey \in Nat \ {0}

VARIABLES
  keyFile,         \* the key os.ReadFile(node_key.pem) would yield
  durableKey,      \* the same after a loss of power: what was written back
  phase,           \* of the process: "down", "load", "save", "serve"
  loader,          \* who called LoadOrGenerateKey: "init" or "initKeyManager"
  pending,         \* the key generated there and not yet on disk
  nodePrivateKey,  \* the globals of main.go that the handlers use
  nodePublicKey,
  keys,            \* KeyManager.keys: version -> key
  currentVersion,  \* KeyManager.currentVersion
  mu,              \* the writer inside km.mu: {} or {r}
  pc,              \* where each /rotate-key request is
  newKey,          \* Rotate's local newKey
  reported,        \* the new_version in the reply (0: none)
  nextKey,         \* the next key crypto/rand yields
  served           \* history: every key GET /public-key has answered

diskVars == <<keyFile, durableKey>>
bootVars == <<phase, loader, pending>>
managerVars == <<nodePrivateKey, nodePublicKey, keys, currentVersion, mu>>
rotateVars == <<pc, newKey, reported>>
vars == <<diskVars, bootVars, managerVars, rotateVars, nextKey, served>>

NoKey == 0
Key == Nat \ {NoKey}
NoKeys == [v \in {} |-> NoKey]

\* Points of a /rotate-key request after which its key is in the manager.
Rotated == {"publish", "private", "public", "report", "done"}
\* Points at which a request holds km.mu.
Locked == {"publish", "private", "public"}
RotatePoints == {"idle", "lock", "failed", "over"} \cup Rotated

\* Every variable has its type, and the key manager's map holds keys only,
\* under versions no later than currentVersion (KeyManager.keys).
TypeOK ==
  /\ keyFile \in Nat /\ durableKey \in Nat
  /\ phase \in {"down", "load", "save", "serve"}
  /\ loader \in {"init", "initKeyManager"}
  /\ pending \in Nat
  /\ nodePrivateKey \in Nat /\ nodePublicKey \in Nat
  /\ currentVersion \in Nat
  /\ DOMAIN keys \subseteq 0..currentVersion
  /\ keys \in [DOMAIN keys -> Key]
  /\ mu \subseteq Rotators
  /\ pc \in [Rotators -> RotatePoints]
  /\ newKey \in [Rotators -> Nat]
  /\ reported \in [Rotators -> Nat]
  /\ nextKey \in Key
  /\ served \subseteq Nat

Init ==
  /\ keyFile = NoKey /\ durableKey = NoKey
  /\ phase = "down" /\ loader = "init" /\ pending = NoKey
  /\ nodePrivateKey = NoKey /\ nodePublicKey = NoKey
  /\ keys = NoKeys /\ currentVersion = 0 /\ mu = {}
  /\ pc = [r \in Rotators |-> "idle"]
  /\ newKey = [r \in Rotators |-> NoKey]
  /\ reported = [r \in Rotators |-> 0]
  /\ nextKey = 1
  /\ served = {}

-----------------------------------------------------------------------------
(* Start-up.                                                               *)

\* The process starts; package init() calls LoadOrGenerateKey.
Boot ==
  /\ phase = "down"
  /\ phase' = "load" /\ loader' = "init"
  /\ UNCHANGED <<diskVars, pending, managerVars, rotateVars, nextKey, served>>

\* LoadOrGenerateKey returns k to init(), which fills in the two globals.
\* main() then serves; a main() that called initKeyManager would load again.
InitReturns(k) ==
  /\ loader = "init"
  /\ nodePrivateKey' = k /\ nodePublicKey' = k
  /\ IF KeyManagerWired
       THEN phase' = "load" /\ loader' = "initKeyManager"
       ELSE phase' = "serve" /\ UNCHANGED loader
  /\ UNCHANGED <<keys, currentVersion, mu>>

\* LoadOrGenerateKey returns k to initKeyManager: version 0 of a new manager.
InitKeyManagerReturns(k) ==
  /\ loader = "initKeyManager"
  /\ keys' = [v \in {0} |-> k] /\ currentVersion' = 0
  /\ nodePrivateKey' = k /\ nodePublicKey' = k
  /\ phase' = "serve"
  /\ UNCHANGED <<loader, mu>>

LoadReturns(k) == InitReturns(k) \/ InitKeyManagerReturns(k)

\* The PEM file reads and parses.
LoadKey ==
  /\ phase = "load" /\ keyFile # NoKey
  /\ LoadReturns(keyFile)
  /\ UNCHANGED <<diskVars, pending, rotateVars, nextKey, served>>

\* Mutant: a file that cannot be parsed is not the only reason to generate.
GenerateAlways ==
  /\ phase = "load"
  /\ nextKey <= MaxKey
  /\ pending' = nextKey /\ nextKey' = nextKey + 1
  /\ keyFile' = NoKey
  /\ phase' = "save"
  /\ UNCHANGED <<durableKey, loader, managerVars, rotateVars, served>>

\* No readable key: a new one is generated.  ReadFile's error is not looked
\* at, so a read that fails for any other reason ends here too ("read").
\* os.WriteFile then truncates the file before it writes.
GenerateKey ==
  /\ phase = "load"
  /\ keyFile = NoKey \/ "read" \in Faults
  /\ nextKey <= MaxKey
  /\ pending' = nextKey /\ nextKey' = nextKey + 1
  /\ keyFile' = NoKey
  /\ phase' = "save"
  /\ UNCHANGED <<durableKey, loader, managerVars, rotateVars, served>>

\* Mutant: the key is used before, and whether or not, it reaches the file.
SaveForgotten ==
  /\ phase = "save"
  /\ LoadReturns(pending)
  /\ pending' = NoKey
  /\ UNCHANGED <<diskVars, rotateVars, nextKey, served>>

\* saveKeyToDisk wrote the PEM block; the key is returned.
SaveKey ==
  /\ phase = "save"
  /\ keyFile' = pending
  /\ LoadReturns(pending)
  /\ pending' = NoKey
  /\ UNCHANGED <<durableKey, rotateVars, nextKey, served>>

-----------------------------------------------------------------------------
(* Crashes.                                                                *)

\* What the process loses with its memory.
Die ==
  /\ phase' = "down" /\ loader' = "init" /\ pending' = NoKey
  /\ nodePrivateKey' = NoKey /\ nodePublicKey' = NoKey
  /\ keys' = NoKeys /\ currentVersion' = 0 /\ mu' = {}
  /\ pc' = [r \in Rotators |-> IF pc[r] = "idle" THEN "idle" ELSE "over"]
  /\ UNCHANGED <<newKey, reported, nextKey, served>>

\* The process ends: a crash, a kill, a panic in init(), or exit.
Crash ==
  /\ phase # "down"
  /\ Die
  /\ UNCHANGED diskVars

\* The machine loses power: os.WriteFile does not fsync.
PowerFail ==
  /\ "power" \in Faults
  /\ phase # "down"
  /\ Die
  /\ keyFile' = durableKey
  /\ UNCHANGED durableKey

\* The operating system writes the file back (tracked where it matters).
WriteBack ==
  /\ "power" \in Faults
  /\ durableKey # keyFile
  /\ durableKey' = keyFile
  /\ UNCHANGED <<keyFile, bootVars, managerVars, rotateVars, nextKey, served>>

-----------------------------------------------------------------------------
(* Requests.                                                               *)

\* GET /public-key reads nodePublicKey, without km.mu.
HandleGetPublicKey ==
  /\ phase = "serve"
  /\ served' = served \cup {nodePublicKey}
  /\ UNCHANGED <<diskVars, bootVars, managerVars, rotateVars, nextKey>>

\* handleRotateKey answers 500: no key manager, or GenerateKey failed.
RotateFails(r) ==
  /\ phase = "serve" /\ pc[r] = "idle"
  /\ pc' = [pc EXCEPT ![r] = "failed"]
  /\ UNCHANGED <<diskVars, bootVars, managerVars, newKey, reported, nextKey,
                 served>>

\* Rotate generates the key before it takes the lock.
RotateGenerate(r) ==
  /\ phase = "serve" /\ pc[r] = "idle"
  /\ KeyManagerWired
  /\ nextKey <= MaxKey
  /\ newKey' = [newKey EXCEPT ![r] = nextKey] /\ nextKey' = nextKey + 1
  /\ pc' = [pc EXCEPT ![r] = "lock"]
  /\ UNCHANGED <<diskVars, bootVars, managerVars, reported, served>>

\* The manager's map and version once k is installed as version v.
Install(v, k) ==
  /\ currentVersion' = v
  /\ keys' = [w \in DOMAIN keys \cup {v} |-> IF w = v THEN k ELSE keys[w]]

\* Mutant: the lock is released before the globals are assigned.
RotateLockEarlyUnlock(r) ==
  /\ pc[r] = "lock" /\ mu = {}
  /\ Install(currentVersion + 1, newKey[r])
  /\ pc' = [pc EXCEPT ![r] = "publish"]
  /\ UNCHANGED <<diskVars, bootVars, nodePrivateKey, nodePublicKey, mu, newKey,
                 reported, nextKey, served>>

\* Mutant: currentVersion is not advanced with the map.
RotateLockNoAdvance(r) ==
  /\ pc[r] = "lock" /\ mu = {}
  /\ mu' = {r}
  /\ keys' = [w \in DOMAIN keys \cup {currentVersion + 1} |->
                IF w = currentVersion + 1 THEN newKey[r] ELSE keys[w]]
  /\ pc' = [pc EXCEPT ![r] = "publish"]
  /\ UNCHANGED <<diskVars, bootVars, nodePrivateKey, nodePublicKey, newKey,
                 currentVersion, reported, nextKey, served>>

\* Mutant: the second rotation installs its key over the current version.
RotateLockSameVersion(r) ==
  /\ pc[r] = "lock" /\ mu = {}
  /\ mu' = {r}
  /\ Install(IF currentVersion = 0 THEN 1 ELSE currentVersion, newKey[r])
  /\ pc' = [pc EXCEPT ![r] = "publish"]
  /\ UNCHANGED <<diskVars, bootVars, nodePrivateKey, nodePublicKey, newKey,
                 reported, nextKey, served>>

\* Mutant: installing the new key drops the older versions.
RotateLockForgetsOld(r) ==
  /\ pc[r] = "lock" /\ mu = {}
  /\ mu' = {r}
  /\ currentVersion' = currentVersion + 1
  /\ keys' = [w \in {currentVersion + 1} |-> newKey[r]]
  /\ pc' = [pc EXCEPT ![r] = "publish"]
  /\ UNCHANGED <<diskVars, bootVars, nodePrivateKey, nodePublicKey, newKey,
                 reported, nextKey, served>>

\* Rotate takes km.mu and installs the next version.
RotateLock(r) ==
  /\ pc[r] = "lock" /\ mu = {}
  /\ mu' = {r}
  /\ Install(currentVersion + 1, newKey[r])
  /\ pc' = [pc EXCEPT ![r] = "publish"]
  /\ UNCHANGED <<diskVars, bootVars, nodePrivateKey, nodePublicKey, newKey,
                 reported, nextKey, served>>

\* Mutant: a return path on which km.mu stays locked.
PublishedStillLocked(r, last, rest) ==
  /\ pc' = [pc EXCEPT ![r] = IF pc[r] = last THEN "report" ELSE rest]
  /\ UNCHANGED mu

\* After the second of the two assignments Rotate unlocks km.mu.
Published(r, last, rest) ==
  /\ pc' = [pc EXCEPT ![r] = IF pc[r] = last THEN "report" ELSE rest]
  /\ mu' = IF pc[r] = last THEN {} ELSE mu

\* The globals are assigned under km.mu but read without it, a data race:
\* other goroutines may see the two stores in either order.
PublishPrivate(r) ==
  /\ pc[r] \in {"publish", "private"}
  /\ nodePrivateKey' = newKey[r]
  /\ Published(r, "private", "public")
  /\ UNCHANGED <<diskVars, bootVars, nodePublicKey, keys, currentVersion,
                 newKey, reported, nextKey, served>>

PublishPublic(r) ==
  /\ pc[r] \in {"publish", "public"}
  /\ nodePublicKey' = newKey[r]
  /\ Published(r, "public", "private")
  /\ UNCHANGED <<diskVars, bootVars, nodePrivateKey, keys, currentVersion,
                 newKey, reported, nextKey, served>>

\* handleRotateKey replies with CurrentVersion(), read after Rotate returned
\* (the reencryptShares goroutine Rotate started changes nothing).
RotateReport(r) ==
  /\ pc[r] = "report" /\ mu = {}
  /\ reported' = [reported EXCEPT ![r] = currentVersion]
  /\ pc' = [pc EXCEPT ![r] = "done"]
  /\ UNCHANGED <<diskVars, bootVars, managerVars, newKey, nextKey, served>>

-----------------------------------------------------------------------------
Rotate(r) ==
  \/ RotateFails(r) \/ RotateGenerate(r) \/ RotateLock(r)
  \/ PublishPrivate(r) \/ PublishPublic(r) \/ RotateReport(r)

StartUp == Boot \/ LoadKey \/ GenerateKey \/ SaveKey

Next ==
  \/ StartUp
  \/ Crash \/ PowerFail \/ WriteBack
  \/ HandleGetPublicKey
  \/ \E r \in Rotators : Rotate(r)

Spec == Init /\ [][Next]_vars

\* A goroutine that can run does, and Go's RWMutex starves no waiter; nothing
\* is assumed of crashes, of the clients or of start-up.
FairSpec ==
  /\ Spec
  /\ \A r \in Rotators :
       /\ WF_vars(PublishPrivate(r) \/ PublishPublic(r))
       /\ SF_vars(RotateLock(r))
       /\ SF_vars(RotateReport(r))

-----------------------------------------------------------------------------
(* Properties.                                                             *)

\* Whenever no rotation is inside km.mu, the two globals the handlers read
\* are one key pair, and the manager's current version is that pair.
KeyPairAgrees ==
  phase = "serve" /\ mu = {} =>
    /\ nodePublicKey = nodePrivateKey
    /\ KeyManagerWired => /\ currentVersion \in DOMAIN keys
                          /\ keys[currentVersion] = nodePrivateKey

\* Concurrent rotations do not overwrite one another: the key of every
\* rotation this process acknowledged, or is about to, has a version of its
\* own, and the new_version it replied with is that version or a later one.
NoRotationLost ==
  \A r \in Rotators : pc[r] \in Rotated =>
    \E v \in DOMAIN keys \ {0} :
      /\ keys[v] = newKey[r]
      /\ pc[r] = "done" => v <= reported[r] /\ reported[r] <= currentVersion

\* While the process lives the manager forgets no version and never changes
\* the key of one.  This is more than "old key should remain accessible during
\* grace period" (node/keymanager_test.go:67) asks, and contradicts the rest of
\* docs/operations.md:33-34: "Old key versions are retained for a grace period
\* (default: 24h) to allow in-flight retrieval requests to complete before the
\* old key is purged."  No code purges a version: the map only grows.
OldKeysKept ==
  [][phase' = "down" \/ \A v \in DOMAIN keys :
       v \in DOMAIN keys' /\ keys'[v] = keys[v]]_vars

\* A node that answers requests has the key it uses in node_key.pem.
KeyOnDisk ==
  phase = "serve" /\ mu = {} => keyFile = nodePrivateKey

\* Once a client was given a public key, every later life of the node has
\* the private key for it, through any crash during start-up
\* (TestKeyPersistence, node/keystore_test.go:22).
KeyStable ==
  phase = "serve" => served \subseteq {nodePrivateKey}

\* A key file that has reached the disk is never replaced, by a restart, a
\* rotation or a loss of power, as long as reads do not fail.
SyncedKeyKept ==
  [][durableKey # NoKey => durableKey' = durableKey]_vars

\* A rotation that has its key ends: it is answered, or dies with the node.
RotationCompletes ==
  \A r \in Rotators : pc[r] = "lock" ~> pc[r] \in {"done", "over"}

=============================================================================
