------------------------- MODULE ShareNodeKeyProofs -------------------------
(* The key inside the node: what NodeKeysProofs shows of the key alone     *)
(* holds of the node that serves requests with it, whatever they do, and   *)
(* so the shipped node can open every share it stored.                     *)
EXTENDS ShareNodeProofs

KP == INSTANCE NodeKeysProofs

\* NodeKeysProofs speaks of the same key as ShareNode does.
LEMMA SameKey ==
  /\ Keys!Init => KP!Init
  /\ Keys!Next => KP!Next
<1>1. Keys!Init => KP!Init
  BY DEF Keys!Init, KP!Init, Keys!NoKey, KP!NoKey, Keys!NoKeys, KP!NoKeys
<1>2. ASSUME NEW r \in Rotators, Keys!Rotate(r) PROVE KP!Rotate(r)
  BY <1>2 DEF Keys!Rotate, Keys!RotateFails, Keys!RotateGenerate, Keys!RotateLock,
     Keys!PublishPrivate, Keys!PublishPublic, Keys!RotateReport, Keys!Published,
     Keys!Install, Keys!diskVars, Keys!bootVars, Keys!managerVars,
     KP!Rotate, KP!RotateFails, KP!RotateGenerate, KP!RotateLock,
     KP!PublishPrivate, KP!PublishPublic, KP!RotateReport, KP!Published,
     KP!Install, KP!diskVars, KP!bootVars, KP!managerVars
<1>3. Keys!StartUp => KP!StartUp
  BY DEF Keys!StartUp, Keys!Boot, Keys!LoadKey, Keys!GenerateKey, Keys!SaveKey,
     Keys!LoadReturns, Keys!InitReturns, Keys!InitKeyManagerReturns, Keys!NoKey,
     Keys!diskVars, Keys!managerVars, Keys!rotateVars,
     KP!StartUp, KP!Boot, KP!LoadKey, KP!GenerateKey, KP!SaveKey,
     KP!LoadReturns, KP!InitReturns, KP!InitKeyManagerReturns, KP!NoKey,
     KP!diskVars, KP!managerVars, KP!rotateVars
<1>4. /\ Keys!Crash => KP!Crash
      /\ Keys!PowerFail => KP!PowerFail
      /\ Keys!WriteBack => KP!WriteBack
      /\ Keys!HandleGetPublicKey => KP!HandleGetPublicKey
  BY DEF Keys!Crash, Keys!PowerFail, Keys!WriteBack, Keys!HandleGetPublicKey,
     Keys!Die, Keys!NoKey, Keys!NoKeys, Keys!diskVars, Keys!bootVars,
     Keys!managerVars, Keys!rotateVars,
     KP!Crash, KP!PowerFail, KP!WriteBack, KP!HandleGetPublicKey,
     KP!Die, KP!NoKey, KP!NoKeys, KP!diskVars, KP!bootVars,
     KP!managerVars, KP!rotateVars
<1> QED BY <1>1, <1>2, <1>3, <1>4 DEF Keys!Next, KP!Next

\* Every step of the node is a step of its key or leaves the key alone.
LEMMA KeyStep == [Next]_vars => [KP!Next]_KP!vars
<1> SUFFICES ASSUME [Next]_vars PROVE Keys!Next \/ UNCHANGED keyVars
  BY SameKey DEF keyVars, KP!vars, KP!diskVars, KP!bootVars, KP!managerVars,
                 KP!rotateVars
<1>1. CASE StartUp \/ KeyRequest \/ KeyWriteBack \/ Exit \/ Crash
  BY <1>1 DEF StartUp, KeyRequest, KeyWriteBack, Exit, Crash, Keys!Next, Keys!Rotate
<1>2. CASE \E r \in Rotators : RotateStep(r)
  BY <1>2 DEF RotateStep, Keys!Next, Keys!Rotate
<1>3. CASE UNCHANGED keyVars
  BY <1>3
<1> QED BY <1>1, <1>2, <1>3
    DEF Next, Store, StoreRefused, StoreArrive, StoreStep, StoreCheck, StoreSave,
        StoreSaveFails, StoreReply, Retrieve, RetrieveRefused, RetrieveArrive,
        RetrieveStep, RetrieveSimulate, RetrieveLoad, RetrieveDecrypt, ChainStep,
        SigTerm, ShutdownReturns, vars

LEMMA RestartInvariant == KP!AsShipped => (Spec => []KP!RestartInv)
<1> SUFFICES ASSUME KP!AsShipped PROVE Spec => []KP!RestartInv
  OBVIOUS
<1>1. Init => KP!RestartInv
  BY KP!RestartInit, KeyAssumption, SameKey DEF Init, KP!RestartInit
<1>2. KP!RestartInv /\ [Next]_vars => KP!RestartInv'
  BY KP!RestartStep, KeyAssumption, KeyStep DEF KP!RestartStep
<1> QED BY <1>1, <1>2, PTL DEF Spec

\* A node as main() starts it, without faults, has at any moment the private
\* key for every public key it ever served, through any crashes and shutdowns
\* under its requests (LoadOrGenerateKey).
THEOREM NodeKeyStable == KP!AsShipped => (Spec => []KeyStable)
<1>1. KP!RestartInv => KeyStable
  BY DEF KP!RestartInv, KP!FileInv, KeyStable, Keys!KeyStable
<1> QED BY <1>1, RestartInvariant, PTL

\* Such a node has the key it uses in node_key.pem (LoadOrGenerateKey).
THEOREM NodeKeyOnDisk == KP!AsShipped => (Spec => []KeyOnDisk)
<1>1. KP!RestartInv => KeyOnDisk
  BY DEF KP!RestartInv, KP!FileInv, KeyOnDisk, Keys!KeyOnDisk
<1> QED BY <1>1, RestartInvariant, PTL

\* On reads that do not fail, no restart, shutdown, rotation or loss of power of
\* a node replaces a node_key.pem that has reached the disk.
THEOREM NodeSyncedKeyKept == "read" \notin Faults => (Spec => SyncedKeyKept)
<1> SUFFICES ASSUME "read" \notin Faults PROVE Spec => SyncedKeyKept
  OBVIOUS
<1>1. Init => KP!SyncInv
  BY DEF Init, Keys!Init, Keys!NoKey, KP!SyncInv, KP!NoKey
<1>2. KP!SyncInv /\ [Next]_vars => KP!SyncInv'
  BY KP!SyncStep, KeyAssumption, KeyStep DEF KP!SyncStep
<1>3. KP!SyncInv /\ [Next]_vars =>
        [durableKey # Keys!NoKey => durableKey' = durableKey]_Keys!vars
  <2> SUFFICES ASSUME KP!SyncInv, [Next]_vars
               PROVE  durableKey # Keys!NoKey => durableKey' = durableKey
    OBVIOUS
  <2> QED BY KP!SyncStep, KeyAssumption, KeyStep DEF KP!SyncStep, KP!NoKey, Keys!NoKey
<1> QED BY <1>1, <1>2, <1>3, PTL DEF Spec, SyncedKeyKept, Keys!SyncedKeyKept

-----------------------------------------------------------------------------
(* Opening what was stored.                                                *)

\* Every store was for a key the node had served, what a retrieval has loaded
\* is such a store's, and none that was sealed for it was ever found closed.
OpenInv ==
  /\ \A s \in Stores \cap DOMAIN req : req[s].pub \in served
  /\ \A r \in DOMAIN got : got[r] \in Stores \cap DOMAIN req
  /\ \A r \in Retrieves : hpc[r] = "decrypt" \/ resp[r] = "decryptError" => r \in DOMAIN got
  /\ StoredSharesOpen

\* A key once served stays served; only RetrieveLoad loads and only
\* RetrieveDecrypt opens.
LEMMA ServedGrows == [Next]_vars => served \subseteq served'
<1> SUFFICES ASSUME KP!Next PROVE served \subseteq served'
  BY KeyStep DEF KP!vars
<1>1. CASE KP!HandleGetPublicKey
  BY <1>1 DEF KP!HandleGetPublicKey
<1>2. CASE UNCHANGED served
  BY <1>2
<1> QED BY <1>1, <1>2
    DEF KP!Next, KP!StartUp, KP!Boot, KP!LoadKey, KP!GenerateKey, KP!SaveKey,
        KP!Crash, KP!PowerFail, KP!WriteBack, KP!Die, KP!Rotate, KP!RotateFails,
        KP!RotateGenerate, KP!RotateLock, KP!PublishPrivate, KP!PublishPublic,
        KP!RotateReport

LEMMA OpenNext ==
  AccessInv /\ KP!RestartInv /\ OpenInv /\ [Next]_vars => OpenInv'
<1> SUFFICES ASSUME AccessInv, KP!RestartInv, OpenInv, [Next]_vars PROVE OpenInv'
  OBVIOUS
<1>0. HandlerInv /\ ServerInv /\ DiskInv /\ LoadedInv
  BY DEF AccessInv, StoreInv
<1>s. served \subseteq served'
  BY ServedGrows
<1> USE <1>0, <1>s DEF OpenInv, StoredSharesOpen
<1>1. ASSUME NEW h \in Handlers, NEW a, Answer(h, a), a # "decryptError" PROVE OpenInv'
  BY <1>1 DEF Answer, HandlerInv
<1>2. ASSUME NEW h \in Handlers, NEW point, point # "decrypt", GoTo(h, point)
      PROVE  OpenInv'
  BY <1>2 DEF GoTo, HandlerInv
<1>3. ASSUME NEW h \in Handlers, NEW q, NEW point, point # "decrypt",
             Arrival(h), Accept(h, q, point), h \in Stores => q.pub \in served
      PROVE  OpenInv'
  <2>1. /\ DOMAIN req' = DOMAIN req \cup {h} /\ req'[h] = q
        /\ \A z \in DOMAIN req : req'[z] = req[z]
    BY <1>3 DEF Accept, Arrival, Put, HandlerInv
  <2>2. /\ got' = got /\ resp' = resp
        /\ \A r \in Handlers : hpc'[r] = "decrypt" => hpc[r] = "decrypt"
    BY <1>3 DEF Accept, HandlerInv
  <2>3. \A r \in DOMAIN got : req'[got[r]] = req[got[r]]
    BY <2>1
  <2> QED BY <1>3, <2>1, <2>2, <2>3 DEF Handlers
<1>4. ASSUME NEW s \in Stores, Store(s) PROVE OpenInv'
  <2>1. s \in Handlers
    BY DEF Handlers
  <2>2. CASE StoreArrive(s)
    BY <1>3, <2>1, <2>2 DEF StoreArrive
  <2> QED BY <1>1, <1>2, <1>4, <2>1, <2>2
      DEF Store, StoreRefused, StoreRefusals, StoreStep, StoreCheck, StoreSave,
          StoreSaveFails, StoreReply, Panics
<1>5. ASSUME NEW r \in Retrieves, Retrieve(r) PROVE OpenInv'
  <2>1. r \in Handlers /\ r \notin Stores
    BY RequestsAssumption DEF Handlers
  <2>2. CASE RetrieveLoad(r)
    <3>1. CASE \E a \in {"aborted", "notFound"} : Answer(r, a)
      BY <1>1, <2>1, <3>1
    <3>2. CASE /\ Key(req[r]) \in DOMAIN shares
               /\ got' = Put(got, r, shares[Key(req[r])])
               /\ hpc' = [hpc EXCEPT ![r] = "decrypt"]
               /\ UNCHANGED <<req, resp, acked>>
      <4>1. /\ DOMAIN got' = DOMAIN got \cup {r} /\ got'[r] = shares[Key(req[r])]
            /\ \A q \in DOMAIN got : q # r => got'[q] = got[q]
        BY <3>2 DEF Put
      <4>2. got'[r] \in Stores \cap DOMAIN req
        BY <3>2, <4>1 DEF DiskInv
      <4>3. resp[r] # "decryptError"
        BY <2>1, <2>2 DEF RetrieveLoad, HandlerInv
      <4> QED BY <2>1, <3>2, <4>1, <4>2, <4>3 DEF HandlerInv, Handlers
    <3> QED BY <2>2, <3>1, <3>2 DEF RetrieveLoad, Panics
  <2>3. CASE RetrieveDecrypt(r)
    <3>1. phase = "serve"
      BY <2>1, <2>3 DEF RetrieveDecrypt, ServerInv, Active
    <3>2. req[got[r]].pub = nodePrivateKey
      BY <2>3, <3>1 DEF RetrieveDecrypt, KP!RestartInv, KP!FileInv
    <3>3. DecryptShare(req[got[r]]) = "decryptError" => req[got[r]].form # "sealed"
      BY <3>2 DEF DecryptShare
    <3> QED BY <2>1, <2>3, <3>3 DEF RetrieveDecrypt, Answer, HandlerInv
  <2>4. CASE RetrieveArrive(r)
    BY <1>3, <2>1, <2>4 DEF RetrieveArrive
  <2> QED BY <1>1, <1>2, <1>5, <2>1, <2>2, <2>3, <2>4
      DEF Retrieve, RetrieveRefused, RetrieveRefusals, RetrieveStep,
          RetrieveSimulate, Panics
<1>6. CASE Exit \/ Crash
  BY <1>6 DEF Exit, Crash, Down, HandlerInv, Handlers
<1>7. CASE UNCHANGED handlerVars
  BY <1>7 DEF handlerVars
<1> QED BY <1>4, <1>5, <1>6, <1>7
    DEF Next, StartUp, KeyRequest, KeyWriteBack, RotateStep, ChainStep, SigTerm,
        ShutdownReturns, vars

\* As main() starts it, without faults, the node opens whatever share was sealed
\* for it whenever it is asked to: no restart and no shutdown between a store and
\* an approved retrieval ends in "Decryption failed" (DecryptShare).
THEOREM SharesStayOpen == KP!AsShipped => (Spec => []StoredSharesOpen)
<1>1. Init => OpenInv
  BY DEF Init, OpenInv, StoredSharesOpen, EmptyMap, Handlers
<1>2. OpenInv => StoredSharesOpen
  BY DEF OpenInv
<1> QED BY <1>1, <1>2, OpenNext, AccessInvariant, RestartInvariant, PTL DEF Spec

-----------------------------------------------------------------------------
(* Types.                                                                  *)

\* TypeOK without the key's and the chain's, and without what HandlerInv says.
NodeTypes ==
  /\ DOMAIN shares \subseteq ShareKeys /\ shares \in [DOMAIN shares -> Stores]
  /\ db \in {"nil", "open", "closed"}
  /\ srv \in {"off", "accepting", "draining", "closing"}
  /\ DOMAIN req \subseteq Handlers
  /\ \A s \in Stores \cap DOMAIN req : req[s] \in StoreReq
  /\ \A r \in Retrieves \cap DOMAIN req : req[r] \in RetrieveReq
  /\ DOMAIN got \subseteq Retrieves /\ got \in [DOMAIN got -> Stores]
  /\ acked \in [DOMAIN req -> SUBSET Stores]
  /\ vouched \in [Retrieves -> SUBSET Accounts]

NodeTypeInv == KP!TypeInv /\ Chain!ChainTypeOK /\ NodeTypes

LEMMA NodeTypeInit == Init => NodeTypeInv
<1> SUFFICES ASSUME Init PROVE NodeTypeInv
  OBVIOUS
<1>1. KP!TypeInv
  BY KP!TypeInit, KeyAssumption, SameKey DEF Init, KP!TypeInit
<1>2. Chain!ChainTypeOK
  BY DEF Init, Chain!ChainInit, Chain!ChainTypeOK
<1>3. NodeTypes
  BY DEF Init, NodeTypes, EmptyMap
<1> QED BY <1>1, <1>2, <1>3 DEF NodeTypeInv

LEMMA ChainTypeStep == Chain!ChainTypeOK /\ [Next]_vars => Chain!ChainTypeOK'
<1> SUFFICES ASSUME Chain!ChainTypeOK, [Next]_vars PROVE Chain!ChainTypeOK'
  OBVIOUS
<1> USE DEF Chain!ChainTypeOK
<1>1. CASE ChainStep
  <2>1. PICK c \in Contracts, a \in Accounts :
          \/ Chain!InitContract(c, a)
          \/ \E b \in Accounts : Chain!Add(c, a, b) \/ Chain!Remove(c, a, b)
    BY <1>1 DEF ChainStep, Chain!ChainNext
  <2>2. CASE Chain!InitContract(c, a)
    BY <2>2 DEF Chain!InitContract
  <2>3. ASSUME NEW b \in Accounts, Chain!Add(c, a, b) \/ Chain!Remove(c, a, b)
        PROVE  Chain!ChainTypeOK'
    BY <2>3 DEF Chain!Add, Chain!Remove
  <2> QED BY <2>1, <2>2, <2>3
<1>2. CASE UNCHANGED chainVars
  BY <1>2 DEF chainVars
<1> QED BY <1>1, <1>2
    DEF Next, Store, StoreRefused, StoreArrive, StoreStep, StoreCheck, StoreSave,
        StoreSaveFails, StoreReply, Retrieve, RetrieveRefused, RetrieveArrive,
        RetrieveStep, RetrieveSimulate, RetrieveLoad, RetrieveDecrypt,
        SigTerm, ShutdownReturns, StartUp, KeyRequest, KeyWriteBack, RotateStep,
        Exit, Crash, Down, vars

\* A handler that goes on or answers leaves every map as it is.
LEMMA SameMapsTypes ==
  ASSUME NodeTypes, UNCHANGED <<shares, req, got, acked>>,
         db' \in {"nil", "open", "closed"},
         srv' \in {"off", "accepting", "draining", "closing"},
         vouched' \in [Retrieves -> SUBSET Accounts]
  PROVE  NodeTypes'
  BY DEF NodeTypes

\* A request that arrives has its type, and what it is told is acknowledged
\* are stores.
LEMMA AcceptTypes ==
  ASSUME NodeTypes, NEW h \in Handlers, NEW q, NEW point, Accept(h, q, point),
         h \in Stores => q \in StoreReq, h \in Retrieves => q \in RetrieveReq,
         UNCHANGED <<shares, db, srv>>, vouched' \in [Retrieves -> SUBSET Accounts]
  PROVE  NodeTypes'
<1>1. /\ req' = Put(req, h, q) /\ acked' = Put(acked, h, Acked) /\ got' = got
      /\ Acked \in SUBSET Stores
  BY DEF Accept, Acked
<1>2. DOMAIN acked = DOMAIN req /\ acked \in [DOMAIN acked -> SUBSET Stores]
  BY DEF NodeTypes
<1>3. DOMAIN req' = DOMAIN req \cup {h} /\ req'[h] = q
      /\ \A z \in DOMAIN req \ {h} : req'[z] = req[z]
  BY <1>1 DEF Put
<1>4. acked' \in [DOMAIN req' -> SUBSET Stores]
  BY <1>1, <1>2, <1>3 DEF Put
<1> QED BY <1>1, <1>3, <1>4 DEF NodeTypes

LEMMA NodeTypeStep ==
  AccessInv /\ NodeTypeInv /\ [Next]_vars => NodeTypeInv'
<1> SUFFICES ASSUME AccessInv, NodeTypeInv, [Next]_vars PROVE NodeTypeInv'
  OBVIOUS
<1>0. HandlerInv /\ DiskInv /\ NodeTypes /\ Chain!ChainTypeOK
  BY DEF AccessInv, StoreInv, NodeTypeInv
<1>k. KP!TypeInv' /\ served \subseteq Nat
  BY KP!TypeStep, KeyAssumption, KeyStep DEF KP!TypeStep, NodeTypeInv, KP!TypeInv, KP!TypeOK
<1>c. Chain!ChainTypeOK'
  BY <1>0, ChainTypeStep
<1>t. /\ db \in {"nil", "open", "closed"} /\ vouched \in [Retrieves -> SUBSET Accounts]
      /\ srv \in {"off", "accepting", "draining", "closing"}
  BY <1>0 DEF NodeTypes
<1>1. ASSUME NEW s \in Stores, Store(s) PROVE NodeTypes'
  <2>1. s \in Handlers /\ s \notin Retrieves
    BY RequestsAssumption DEF Handlers
  <2>2. CASE StoreArrive(s)
    <3>1. PICK c \in ContractIDs, o \in Objects, k \in served, f \in Forms, over \in BOOLEAN :
            Accept(s, [contract |-> c, object |-> o, pub |-> k, form |-> f,
                       overwrite |-> over],
                   IF over THEN "save" ELSE "check")
      BY <2>2 DEF StoreArrive
    <3>2. [contract |-> c, object |-> o, pub |-> k, form |-> f, overwrite |-> over]
            \in StoreReq
      BY <1>k DEF StoreReq
    <3>3. UNCHANGED <<shares, db, srv>> /\ vouched' \in [Retrieves -> SUBSET Accounts]
      BY <1>t, <2>2 DEF StoreArrive
    <3> QED BY <1>0, <2>1, <3>1, <3>2, <3>3, AcceptTypes
  <2>3. CASE StoreSave(s)
    <3>1. /\ shares' = Put(shares, Key(req[s]), s) /\ s \in DOMAIN req
          /\ UNCHANGED <<req, got, acked, db, srv, vouched>>
      BY <1>0, <2>1, <2>3 DEF StoreSave, GoTo, HandlerInv, Active
    <3>2. Key(req[s]) \in ShareKeys
      BY <1>0, <3>1 DEF NodeTypes, StoreReq, ShareKeys, Key
    <3>3. DOMAIN shares' = DOMAIN shares \cup {Key(req[s])}
          /\ shares' \in [DOMAIN shares' -> Stores]
      BY <1>0, <3>1 DEF NodeTypes, Put
    <3> QED BY <1>0, <3>1, <3>2, <3>3 DEF NodeTypes
  <2>4. CASE UNCHANGED <<shares, req, got, acked, db, srv, vouched>>
    BY <1>0, <1>t, <2>4, SameMapsTypes
  <2> QED BY <1>1, <2>2, <2>3, <2>4
      DEF Store, StoreRefused, StoreStep, StoreCheck, StoreSaveFails, StoreReply,
          Panics, Answer, GoTo
<1>2. ASSUME NEW r \in Retrieves, Retrieve(r) PROVE NodeTypes'
  <2>1. r \in Handlers /\ r \notin Stores
    BY RequestsAssumption DEF Handlers
  <2>2. CASE RetrieveArrive(r)
    <3>1. PICK c \in ContractIDs, o \in Objects, a \in Accounts : \E tx \in Txs(a) :
            /\ Accept(r, [contract |-> c, object |-> o, caller |-> a, tx |-> tx],
                      "simulate")
            /\ vouched' = [vouched EXCEPT ![r] = LetIn(allowed, c)]
      BY <2>2 DEF RetrieveArrive
    <3>2. PICK tx \in Txs(a) :
            Accept(r, [contract |-> c, object |-> o, caller |-> a, tx |-> tx], "simulate")
      BY <3>1
    <3>3. tx \in Tx
      BY TxsTyped
    <3>4. [contract |-> c, object |-> o, caller |-> a, tx |-> tx] \in RetrieveReq
      BY <3>3 DEF RetrieveReq
    <3>5. UNCHANGED <<shares, db, srv>> /\ vouched' \in [Retrieves -> SUBSET Accounts]
      BY <1>0, <1>t, <2>2, <3>1 DEF RetrieveArrive, LetIn, Chain!ChainTypeOK
    <3> QED BY <1>0, <2>1, <3>2, <3>4, <3>5, AcceptTypes
  <2>3. CASE RetrieveLoad(r) /\ got' # got
    <3>1. /\ Key(req[r]) \in DOMAIN shares
          /\ got' = Put(got, r, shares[Key(req[r])])
          /\ UNCHANGED <<req, acked, shares, db, srv, vouched>>
      BY <2>3 DEF RetrieveLoad, Panics, Answer
    <3>2. shares[Key(req[r])] \in Stores
      BY <1>0, <3>1 DEF DiskInv
    <3>3. DOMAIN got' = DOMAIN got \cup {r} /\ got' \in [DOMAIN got' -> Stores]
      BY <1>0, <3>1, <3>2 DEF NodeTypes, Put
    <3> QED BY <1>0, <3>1, <3>3 DEF NodeTypes
  <2>4. CASE UNCHANGED <<shares, req, got, acked, db, srv, vouched>>
    BY <1>0, <1>t, <2>4, SameMapsTypes
  <2> QED BY <1>2, <2>2, <2>3, <2>4
      DEF Retrieve, RetrieveRefused, RetrieveStep, RetrieveSimulate, RetrieveLoad,
          RetrieveDecrypt, Panics, Answer, GoTo
<1>3. ASSUME \/ ChainStep \/ KeyRequest \/ KeyWriteBack \/ SigTerm \/ UNCHANGED vars
             \/ \E r \in Rotators : RotateStep(r)
      PROVE  NodeTypes'
  <2>1. UNCHANGED <<shares, req, got, acked, db>> /\ vouched' \in [Retrieves -> SUBSET Accounts]
        /\ (srv' = srv \/ srv' = "draining")
    BY <1>3, <1>t, <1>c DEF ChainStep, KeyRequest, KeyWriteBack, SigTerm, RotateStep,
       vars, handlerVars, LetIn, Chain!ChainTypeOK
  <2> QED BY <1>0, <1>t, <2>1, SameMapsTypes
<1>4. ASSUME StartUp \/ ShutdownReturns \/ Exit \/ Crash PROVE NodeTypes'
  <2>1. /\ UNCHANGED <<shares, req, got, acked, vouched>>
        /\ db' = db \/ db' = "nil" \/ db' = "open" \/ db' = "closed"
        /\ srv' = srv \/ srv' = "accepting" \/ srv' = "closing" \/ srv' = "off"
    BY <1>4 DEF StartUp, ShutdownReturns, CloseDB, Exit, Crash, Down, handlerVars
  <2> QED BY <1>0, <1>t, <2>1, SameMapsTypes
<1>5. NodeTypes'
  BY <1>1, <1>2, <1>3, <1>4 DEF Next
<1> QED BY <1>k, <1>c, <1>5 DEF NodeTypeInv

\* The node's state keeps its types through everything its requests, the chain,
\* rotations, shutdowns and crashes do: a handler past validation has its
\* request, and what BoltDB holds came from one (handleStoreShare, saveShare).
THEOREM NodeTypeCorrect == Spec => []TypeOK
<1>1. AccessInv /\ NodeTypeInv => TypeOK
  <2> SUFFICES ASSUME AccessInv, NodeTypeInv PROVE TypeOK
    OBVIOUS
  <2>1. KP!TypeOK => Keys!TypeOK
    BY DEF KP!TypeOK, Keys!TypeOK, KP!Key, Keys!Key, KP!NoKey, Keys!NoKey,
           KP!RotatePoints, Keys!RotatePoints, KP!Rotated, Keys!Rotated
  <2> QED BY <2>1 DEF AccessInv, StoreInv, HandlerInv, NodeTypeInv, KP!TypeInv,
                      NodeTypes, TypeOK
<1> QED BY <1>1, NodeTypeInit, NodeTypeStep, AccessInvariant, PTL DEF Spec

=============================================================================
