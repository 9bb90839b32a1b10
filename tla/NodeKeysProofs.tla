--------------------------- MODULE NodeKeysProofs ---------------------------
(* Proofs about NodeKeys, for any number of rotations, keys and restarts.  *)
EXTENDS NodeKeys, TLAPS

\* A request past RotateGenerate has a key.
HasKey == {"lock"} \cup Rotated

\* The strengthening of TypeOK: what is about to be returned, installed or
\* published is a key, never nil.
KeysAreReal ==
  /\ phase = "save" => pending \in Key
  /\ \A r \in Rotators : pc[r] \in HasKey => newKey[r] \in Key

TypeInv == TypeOK /\ KeysAreReal

LEMMA TypeInit == Init => TypeInv
  BY DEF Init, TypeInv, TypeOK, KeysAreReal, NoKey, Key, NoKeys, RotatePoints,
         Rotated, HasKey

LEMMA TypeStep == TypeInv /\ [Next]_vars => TypeInv'
<1> SUFFICES ASSUME TypeInv, [Next]_vars PROVE TypeInv'
  OBVIOUS
<1> USE MaxKeyAssumption DEF TypeInv, TypeOK, KeysAreReal, NoKey, Key,
        RotatePoints, Rotated, HasKey
<1>1. CASE Boot
  BY <1>1 DEF Boot, diskVars, managerVars, rotateVars
<1>2. ASSUME NEW k \in Key, LoadReturns(k)
      PROVE  /\ nodePrivateKey' \in Nat /\ nodePublicKey' \in Nat
             /\ currentVersion' \in Nat
             /\ DOMAIN keys' \subseteq 0..currentVersion'
             /\ keys' \in [DOMAIN keys' -> Key]
             /\ mu' \subseteq Rotators
             /\ phase' \in {"load", "serve"}
             /\ loader' \in {"init", "initKeyManager"}
  <2>1. CASE InitReturns(k)
    BY <2>1 DEF InitReturns
  <2>2. CASE InitKeyManagerReturns(k)
    BY <2>2 DEF InitKeyManagerReturns
  <2> QED BY <1>2, <2>1, <2>2 DEF LoadReturns
<1>3. CASE LoadKey
  <2>1. keyFile \in Key /\ LoadReturns(keyFile)
    BY <1>3 DEF LoadKey
  <2> QED BY <1>2, <1>3, <2>1 DEF LoadKey, diskVars, rotateVars
<1>4. CASE GenerateKey
  BY <1>4 DEF GenerateKey, managerVars, rotateVars
<1>5. CASE SaveKey
  <2>1. pending \in Key /\ LoadReturns(pending)
    BY <1>5 DEF SaveKey
  <2> QED BY <1>2, <1>5, <2>1 DEF SaveKey, rotateVars
<1>6. CASE Crash
  BY <1>6 DEF Crash, Die, NoKeys, diskVars
<1>7. CASE PowerFail
  BY <1>7 DEF PowerFail, Die, NoKeys
<1>8. CASE WriteBack
  BY <1>8 DEF WriteBack, bootVars, managerVars, rotateVars
<1>9. CASE HandleGetPublicKey
  BY <1>9 DEF HandleGetPublicKey, diskVars, bootVars, managerVars, rotateVars
<1>10. ASSUME NEW r \in Rotators, Rotate(r) PROVE TypeInv'
  <2> USE DEF diskVars, bootVars, managerVars, rotateVars
  <2>1. CASE RotateFails(r)
    BY <2>1 DEF RotateFails
  <2>2. CASE RotateGenerate(r)
    BY <2>2 DEF RotateGenerate
  <2>3. CASE RotateLock(r)
    BY <2>3 DEF RotateLock, Install
  <2>4. CASE PublishPrivate(r)
    BY <2>4 DEF PublishPrivate, Published
  <2>5. CASE PublishPublic(r)
    BY <2>5 DEF PublishPublic, Published
  <2>6. CASE RotateReport(r)
    BY <2>6 DEF RotateReport
  <2> QED BY <1>10, <2>1, <2>2, <2>3, <2>4, <2>5, <2>6 DEF Rotate
<1>11. CASE UNCHANGED vars
  BY <1>11 DEF vars, diskVars, bootVars, managerVars, rotateVars
<1> QED
  BY <1>1, <1>3, <1>4, <1>5, <1>6, <1>7, <1>8, <1>9, <1>10, <1>11
  DEF Next, StartUp

\* The node's variables keep their types, whatever the interleaving of
\* start-up, crashes, power loss and rotations.
THEOREM TypeCorrect == Spec => []TypeOK
<1>1. TypeInv => TypeOK
  BY DEF TypeInv
<1> QED BY TypeInit, TypeStep, <1>1, PTL DEF Spec

-----------------------------------------------------------------------------
(* Rotation.                                                               *)

\* km.mu has at most one holder, the request inside Rotate's critical section.
MutexInv ==
  /\ \A r \in Rotators : pc[r] \in Locked <=> r \in mu
  /\ \A r, s \in mu : r = s

\* Before it serves, the process runs no request and its manager is empty.
StartUpInv ==
  phase # "serve" => /\ \A r \in Rotators : pc[r] \in {"idle", "over"}
                     /\ DOMAIN keys = {}

\* Inside the critical section the new key is installed, and the globals are
\* as far as the request has come.
PublishInv ==
  \A r \in mu :
    /\ currentVersion \in DOMAIN keys /\ keys[currentVersion] = newKey[r]
    /\ pc[r] = "public" => nodePrivateKey = newKey[r]
    /\ pc[r] = "private" => nodePublicKey = newKey[r]

RotationInv ==
  TypeInv /\ MutexInv /\ StartUpInv /\ PublishInv /\ KeyPairAgrees
  /\ NoRotationLost

LEMMA RotationInit == Init => RotationInv
  BY TypeInit DEF Init, RotationInv, MutexInv, StartUpInv, PublishInv,
     KeyPairAgrees, NoRotationLost, NoKeys, Locked, Rotated

\* What LoadOrGenerateKey's return establishes.
LEMMA LoadReturnsPair ==
  ASSUME RotationInv, phase # "serve", NEW k \in Key, LoadReturns(k), 
         UNCHANGED <<pc, newKey, reported>>
  PROVE  MutexInv' /\ StartUpInv' /\ PublishInv' /\ KeyPairAgrees'
         /\ NoRotationLost'
<1> USE DEF RotationInv, MutexInv, StartUpInv, PublishInv, KeyPairAgrees,
        NoRotationLost, Locked, Rotated, TypeInv, TypeOK
<1>1. \A r \in Rotators : pc'[r] \in {"idle", "over"}
  OBVIOUS
<1>2. mu = {} /\ mu' = {}
  BY DEF LoadReturns, InitReturns, InitKeyManagerReturns
<1>3. CASE InitReturns(k)
  BY <1>1, <1>2, <1>3, KeyManagerWiredAssumption DEF InitReturns
<1>4. CASE InitKeyManagerReturns(k)
  BY <1>1, <1>2, <1>4 DEF InitKeyManagerReturns
<1> QED BY <1>3, <1>4 DEF LoadReturns

\* What a step of request r does to the other requests' claims.
LEMMA RotationStep == RotationInv /\ [Next]_vars => RotationInv'
<1> SUFFICES ASSUME RotationInv, [Next]_vars PROVE RotationInv'
  OBVIOUS
<1>0. TypeInv /\ TypeInv'
  BY TypeStep DEF RotationInv
<1>t. TypeOK /\ TypeOK' /\ KeysAreReal
  BY <1>0 DEF TypeInv
<1> DEFINE Rest == MutexInv /\ StartUpInv /\ PublishInv /\ KeyPairAgrees
                   /\ NoRotationLost
<1>s. SUFFICES Rest'
  BY <1>0 DEF RotationInv
<1>i. Rest
  BY DEF RotationInv
<1>1. CASE Boot
  BY <1>1, <1>i, <1>t DEF Boot, diskVars, managerVars, rotateVars, MutexInv,
     StartUpInv, PublishInv, KeyPairAgrees, NoRotationLost
<1>2. CASE LoadKey
  <2>1. phase # "serve" /\ keyFile \in Key /\ LoadReturns(keyFile)
    BY <1>2, <1>t DEF LoadKey, TypeOK, Key
  <2> QED BY <1>2, <2>1, LoadReturnsPair DEF LoadKey, rotateVars
<1>3. CASE GenerateKey
  BY <1>3, <1>i, <1>t DEF GenerateKey, managerVars, rotateVars, MutexInv,
     StartUpInv, PublishInv, KeyPairAgrees, NoRotationLost
<1>4. CASE SaveKey
  <2>1. phase # "serve" /\ pending \in Key /\ LoadReturns(pending)
    BY <1>4, <1>t DEF SaveKey, KeysAreReal
  <2> QED BY <1>4, <2>1, LoadReturnsPair DEF SaveKey, rotateVars
<1>5. ASSUME Die PROVE Rest'
  <2>1. \A r \in Rotators : pc'[r] \in {"idle", "over"}
    BY <1>5 DEF Die
  <2>2. phase' = "down" /\ mu' = {} /\ DOMAIN keys' = {}
    BY <1>5 DEF Die, NoKeys
  <2> QED BY <2>1, <2>2 DEF MutexInv, StartUpInv, PublishInv, KeyPairAgrees,
             NoRotationLost, Locked, Rotated
<1>6. CASE WriteBack
  BY <1>6, <1>i DEF WriteBack, bootVars, managerVars, rotateVars, MutexInv,
     StartUpInv, PublishInv, KeyPairAgrees, NoRotationLost
<1>7. CASE HandleGetPublicKey
  BY <1>7, <1>i DEF HandleGetPublicKey, bootVars, managerVars, rotateVars,
     MutexInv, StartUpInv, PublishInv, KeyPairAgrees, NoRotationLost
<1>8. ASSUME NEW r \in Rotators, Rotate(r) PROVE Rest'
  <2> USE <1>i, <1>t DEF diskVars, bootVars, managerVars, rotateVars
  <2>1. CASE RotateFails(r)
    BY <2>1 DEF RotateFails, MutexInv, StartUpInv, PublishInv, KeyPairAgrees,
       NoRotationLost, Locked, Rotated, TypeOK
  <2>2. CASE RotateGenerate(r)
    BY <2>2 DEF RotateGenerate, MutexInv, StartUpInv, PublishInv,
       KeyPairAgrees, NoRotationLost, Locked, Rotated, TypeOK
  <2>3. CASE RotateLock(r)
    <3>1. currentVersion + 1 \notin DOMAIN keys /\ currentVersion + 1 # 0
      BY DEF TypeOK
    <3>2. /\ \A v \in DOMAIN keys : v \in DOMAIN keys' /\ keys'[v] = keys[v]
          /\ currentVersion' = currentVersion + 1
          /\ currentVersion' \in DOMAIN keys'
          /\ keys'[currentVersion'] = newKey[r]
      BY <2>3, <3>1 DEF RotateLock, Install
    <3>3. phase = "serve" /\ phase' = "serve"
      BY <2>3 DEF RotateLock, StartUpInv
    <3>4. MutexInv' /\ StartUpInv'
      BY <2>3, <3>3 DEF RotateLock, MutexInv, StartUpInv, Locked, TypeOK
    <3>5. PublishInv' /\ KeyPairAgrees'
      BY <2>3, <3>2 DEF RotateLock, PublishInv, KeyPairAgrees, TypeOK
    <3>6. NoRotationLost'
      <4> SUFFICES ASSUME NEW q \in Rotators, pc'[q] \in Rotated
                   PROVE  \E v \in DOMAIN keys' \ {0} :
                            /\ keys'[v] = newKey'[q]
                            /\ pc'[q] = "done" =>
                                 v <= reported'[q] /\ reported'[q] <= currentVersion'
        BY DEF NoRotationLost
      <4>1. CASE q = r
        BY <2>3, <3>1, <3>2, <4>1 DEF RotateLock, TypeOK
      <4>2. CASE q # r
        BY <2>3, <3>2, <4>2 DEF RotateLock, NoRotationLost, TypeOK
      <4> QED BY <4>1, <4>2
    <3> QED BY <3>4, <3>5, <3>6
  <2>4. CASE PublishPrivate(r)
    BY <2>4 DEF PublishPrivate, Published, MutexInv, StartUpInv, PublishInv,
       KeyPairAgrees, NoRotationLost, Locked, Rotated, TypeOK
  <2>5. CASE PublishPublic(r)
    BY <2>5 DEF PublishPublic, Published, MutexInv, StartUpInv, PublishInv,
       KeyPairAgrees, NoRotationLost, Locked, Rotated, TypeOK
  <2>6. CASE RotateReport(r)
    BY <2>6 DEF RotateReport, MutexInv, StartUpInv, PublishInv,
       KeyPairAgrees, NoRotationLost, Locked, Rotated, TypeOK
  <2> QED BY <1>8, <2>1, <2>2, <2>3, <2>4, <2>5, <2>6 DEF Rotate
<1>9. CASE UNCHANGED vars
  BY <1>9, <1>i DEF vars, bootVars, managerVars, rotateVars, MutexInv,
     StartUpInv, PublishInv, KeyPairAgrees, NoRotationLost
<1> QED
  BY <1>1, <1>2, <1>3, <1>4, <1>5, <1>6, <1>7, <1>8, <1>9
  DEF Next, StartUp, Crash, PowerFail

\* Outside km.mu the globals the handlers read are one pair, the manager's
\* current one, whatever rotations, crashes and restarts went before.
THEOREM PairAgrees == Spec => []KeyPairAgrees
<1>1. RotationInv => KeyPairAgrees
  BY DEF RotationInv
<1> QED BY RotationInit, RotationStep, <1>1, PTL DEF Spec

\* Any number of concurrent rotations: each acknowledged one keeps a version.
THEOREM RotationsKept == Spec => []NoRotationLost
<1>1. RotationInv => NoRotationLost
  BY DEF RotationInv
<1> QED BY RotationInit, RotationStep, <1>1, PTL DEF Spec

LEMMA OldVersionStep ==
  ASSUME RotationInv, Next
  PROVE  phase' = "down" \/ \A v \in DOMAIN keys :
           v \in DOMAIN keys' /\ keys'[v] = keys[v]
<1>1. CASE phase # "serve"
  BY <1>1 DEF RotationInv, StartUpInv
<1>2. CASE Crash \/ PowerFail
  BY <1>2 DEF Crash, PowerFail, Die
<1>3. CASE WriteBack \/ HandleGetPublicKey
  BY <1>3 DEF WriteBack, HandleGetPublicKey, managerVars
<1>4. ASSUME NEW r \in Rotators, Rotate(r)
      PROVE  \A v \in DOMAIN keys : v \in DOMAIN keys' /\ keys'[v] = keys[v]
  <2>1. CASE RotateLock(r)
    <3>1. currentVersion + 1 \notin DOMAIN keys
      BY DEF RotationInv, TypeInv, TypeOK
    <3> QED BY <2>1, <3>1 DEF RotateLock, Install
  <2>2. CASE ~RotateLock(r)
    BY <1>4, <2>2 DEF Rotate, RotateFails, RotateGenerate, PublishPrivate,
       PublishPublic, RotateReport, managerVars
  <2> QED BY <2>1, <2>2
<1>5. CASE StartUp /\ phase = "serve"
  BY <1>5 DEF StartUp, Boot, LoadKey, GenerateKey, SaveKey
<1> QED BY <1>1, <1>2, <1>3, <1>4, <1>5 DEF Next

\* While a process lives its key manager keeps every version it ever had.
THEOREM OldVersionsKept == Spec => OldKeysKept
<1> DEFINE Kept == phase' = "down" \/ \A v \in DOMAIN keys :
                     v \in DOMAIN keys' /\ keys'[v] = keys[v]
<1>1. RotationInv /\ [Next]_vars => [Kept]_vars
  BY OldVersionStep
<1> QED BY RotationInit, RotationStep, <1>1, PTL DEF Spec, OldKeysKept

-----------------------------------------------------------------------------
(* Restarts.                                                               *)

\* The node as main() starts it, on a file system that serves its reads and
\* does not lose power.
AsShipped == ~KeyManagerWired /\ Faults = {}

\* A public key was served only if its private key is the one in the file; a
\* node that serves uses that key, and no rotation gets past its first check.
FileInv ==
  /\ served \subseteq {keyFile}
  /\ keyFile = NoKey => served = {}
  /\ phase = "save" => keyFile = NoKey
  /\ phase = "serve" => /\ keyFile # NoKey
                        /\ nodePrivateKey = keyFile
                        /\ nodePublicKey = keyFile
  /\ \A r \in Rotators : pc[r] \in {"idle", "failed", "over"}

RestartInv == TypeInv /\ FileInv

LEMMA RestartInit == Init => RestartInv
  BY TypeInit DEF Init, RestartInv, FileInv

LEMMA RestartStep == AsShipped /\ RestartInv /\ [Next]_vars => RestartInv'
<1> SUFFICES ASSUME AsShipped, RestartInv, [Next]_vars PROVE RestartInv'
  OBVIOUS
<1>0. TypeInv /\ TypeInv' /\ FileInv
  BY TypeStep DEF RestartInv
<1>s. SUFFICES FileInv'
  BY <1>0 DEF RestartInv
<1> USE <1>0 DEF FileInv, AsShipped, TypeInv, TypeOK, KeysAreReal, Key, NoKey
<1>1. CASE Boot
  BY <1>1 DEF Boot, diskVars, rotateVars
<1>2. CASE LoadKey
  BY <1>2 DEF LoadKey, LoadReturns, InitReturns, InitKeyManagerReturns,
     diskVars, rotateVars
<1>3. CASE GenerateKey
  BY <1>3 DEF GenerateKey, rotateVars
<1>4. CASE SaveKey
  BY <1>4 DEF SaveKey, LoadReturns, InitReturns, InitKeyManagerReturns,
     rotateVars
<1>5. CASE Crash
  BY <1>5 DEF Crash, Die, diskVars
<1>6. CASE PowerFail \/ WriteBack
  BY <1>6 DEF PowerFail, WriteBack
<1>7. CASE HandleGetPublicKey
  BY <1>7 DEF HandleGetPublicKey, diskVars, bootVars, managerVars, rotateVars
<1>8. ASSUME NEW r \in Rotators, Rotate(r) PROVE FileInv'
  <2>1. RotateFails(r)
    BY <1>8 DEF Rotate, RotateGenerate, RotateLock, PublishPrivate,
       PublishPublic, RotateReport
  <2> QED BY <2>1 DEF RotateFails, diskVars, bootVars, managerVars
<1>9. CASE UNCHANGED vars
  BY <1>9 DEF vars, diskVars, bootVars, managerVars, rotateVars
<1> QED
  BY <1>1, <1>2, <1>3, <1>4, <1>5, <1>6, <1>7, <1>8, <1>9 DEF Next, StartUp

\* A key once given to a client stays the node's key through every crash and
\* restart, those during LoadOrGenerateKey included.
THEOREM KeySurvivesRestarts == AsShipped => (Spec => []KeyStable)
<1> SUFFICES ASSUME AsShipped PROVE Spec => []KeyStable
  OBVIOUS
<1>1. RestartInv /\ [Next]_vars => RestartInv'
  BY RestartStep
<1>2. RestartInv => KeyStable
  BY DEF RestartInv, FileInv, KeyStable
<1> QED BY RestartInit, <1>1, <1>2, PTL DEF Spec

\* A node that serves has the key it uses in node_key.pem.
THEOREM ServedKeyOnDisk == AsShipped => (Spec => []KeyOnDisk)
<1> SUFFICES ASSUME AsShipped PROVE Spec => []KeyOnDisk
  OBVIOUS
<1>1. RestartInv /\ [Next]_vars => RestartInv'
  BY RestartStep
<1>2. RestartInv => KeyOnDisk
  BY DEF RestartInv, FileInv, KeyOnDisk
<1> QED BY RestartInit, <1>1, <1>2, PTL DEF Spec

-----------------------------------------------------------------------------
(* Loss of power.                                                          *)

\* What has reached the disk is what the file holds, and no key is generated
\* over a file that holds one.
SyncInv ==
  /\ durableKey # NoKey => keyFile = durableKey
  /\ phase = "save" => keyFile = NoKey

LEMMA SyncStep ==
  ASSUME "read" \notin Faults, SyncInv, [Next]_vars
  PROVE  SyncInv' /\ (durableKey # NoKey => durableKey' = durableKey)
<1> USE DEF SyncInv
<1>1. CASE StartUp
  BY <1>1 DEF StartUp, Boot, LoadKey, GenerateKey, SaveKey, LoadReturns,
              InitReturns, InitKeyManagerReturns, diskVars
<1>2. CASE Crash \/ PowerFail \/ WriteBack
  BY <1>2 DEF Crash, PowerFail, WriteBack, Die, diskVars, bootVars
<1>3. CASE HandleGetPublicKey \/ UNCHANGED vars
  BY <1>3 DEF HandleGetPublicKey, vars, diskVars, bootVars
<1>4. CASE \E r \in Rotators : Rotate(r)
  BY <1>4 DEF Rotate, RotateFails, RotateGenerate, RotateLock, PublishPrivate,
              PublishPublic, RotateReport, diskVars, bootVars
<1> QED BY <1>1, <1>2, <1>3, <1>4 DEF Next

\* On reads that do not fail, a node_key.pem that has reached the disk is kept
\* through every crash, rotation and loss of power (LoadOrGenerateKey).
THEOREM SyncedKeySurvives == "read" \notin Faults => (Spec => SyncedKeyKept)
<1> SUFFICES ASSUME "read" \notin Faults PROVE Spec => SyncedKeyKept
  OBVIOUS
<1>1. Init => SyncInv
  BY DEF Init, SyncInv
<1>2. SyncInv /\ [Next]_vars => SyncInv'
  BY SyncStep
<1>3. SyncInv /\ [Next]_vars =>
        [durableKey # NoKey => durableKey' = durableKey]_vars
  BY SyncStep
<1> QED BY <1>1, <1>2, <1>3, PTL DEF Spec, SyncedKeyKept

=============================================================================
