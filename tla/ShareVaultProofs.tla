-------------------------- MODULE ShareVaultProofs --------------------------
(* ShareNode implements ShareVault, for any number of requests, contracts, *)
(* objects, restarts, rotations and chain transactions.                    *)
EXTENDS ShareNodeProofs

\* The contract state has its type (contract/src/lib.rs).
LedgerInv == allowed \in [Contracts -> SUBSET Accounts]

\* The database is closed only on the way out (listenWithGracefulShutdown).
ClosedInv == db = "closed" => srv = "closing"

RefineInv == AccessInv /\ LedgerInv /\ ClosedInv

LEMMA LedgerNext == LedgerInv /\ [Next]_vars => LedgerInv'
<1> SUFFICES ASSUME LedgerInv, [Next]_vars PROVE LedgerInv'
  OBVIOUS
<1>1. CASE ChainStep
  BY <1>1 DEF ChainStep, Chain!ChainNext, Chain!InitContract, Chain!Add,
              Chain!Remove, LedgerInv
<1>2. CASE UNCHANGED allowed
  BY <1>2 DEF LedgerInv
<1> QED BY <1>1, <1>2
    DEF Next, Store, StoreRefused, StoreArrive, StoreStep, StoreCheck, StoreSave,
        StoreSaveFails, StoreReply, Retrieve, RetrieveRefused, RetrieveArrive,
        RetrieveStep, RetrieveSimulate, RetrieveLoad, RetrieveDecrypt, StartUp,
        KeyRequest, KeyWriteBack, RotateStep, SigTerm, ShutdownReturns, Exit,
        Crash, Down, vars, chainVars

LEMMA ClosedNext == AccessInv /\ ClosedInv /\ [Next]_vars => ClosedInv'
<1> SUFFICES ASSUME AccessInv, ClosedInv, [Next]_vars PROVE ClosedInv'
  OBVIOUS
<1>1. CASE StartUp
  <2>1. srv = "off"
    BY <1>1 DEF StartUp, Keys!StartUp, Keys!Boot, Keys!LoadKey, Keys!GenerateKey,
                Keys!SaveKey, AccessInv, StoreInv, ServerInv
  <2> QED BY <1>1, <2>1 DEF StartUp, ClosedInv
<1>2. CASE SigTerm \/ ShutdownReturns \/ Exit \/ Crash
  BY <1>2 DEF SigTerm, ShutdownReturns, CloseDB, Exit, Crash, Down, ClosedInv
<1>3. CASE UNCHANGED <<db, srv>>
  BY <1>3 DEF ClosedInv
<1> QED BY <1>1, <1>2, <1>3
    DEF Next, Store, StoreRefused, StoreArrive, StoreStep, StoreCheck, StoreSave,
        StoreSaveFails, StoreReply, Retrieve, RetrieveRefused, RetrieveArrive,
        RetrieveStep, RetrieveSimulate, RetrieveLoad, RetrieveDecrypt,
        KeyRequest, KeyWriteBack, RotateStep, ChainStep, vars

LEMMA RefineInvariant == Spec => []RefineInv
<1>1. Init => LedgerInv /\ ClosedInv
  BY DEF Init, Chain!ChainInit, LedgerInv, ClosedInv
<1> QED BY <1>1, LedgerNext, ClosedNext, AccessInit, AccessNext, PTL DEF Spec, RefineInv

-----------------------------------------------------------------------------
(* How the mapped variables follow the node's.                             *)

\* A step of one handler moves its request and no other.
LEMMA StageMoves ==
  ASSUME hpc \in [Handlers -> Points], resp \in [Handlers -> Answers],
         NEW h \in Handlers, NEW point, NEW answer, NEW from, NEW to,
         hpc' = [hpc EXCEPT ![h] = point], resp' = [resp EXCEPT ![h] = answer],
         VaultStage(h) = from, VaultStage(h)' = to
  PROVE  Vault!Move(h, from, to)
<1>1. \A g \in Handlers : g # h => VaultStage(g)' = VaultStage(g)
  BY DEF VaultStage, VaultOutcome
<1> QED BY <1>1 DEF Vault!Move

LEMMA StageStays ==
  ASSUME UNCHANGED <<hpc, resp>>
  PROVE  UNCHANGED [h \in Handlers |-> VaultStage(h)]
  BY DEF VaultStage, VaultOutcome

LEMMA AskStays ==
  ASSUME UNCHANGED req
  PROVE  UNCHANGED [h \in DOMAIN req |-> VaultAsk(h)]
  BY DEF VaultAsk

\* The acknowledged stores are the acknowledged puts.
LEMMA AckedIsAcknowledged ==
  ASSUME HandlerInv PROVE Vault!Acknowledged = Acked
<1>1. \A s \in Stores : VaultStage(s) = "acked" <=> resp[s] = "stored"
  BY DEF HandlerInv, VaultStage, VaultOutcome, Handlers, Points
<1> QED BY <1>1 DEF Vault!Acknowledged, Acked, Handlers

\* A handler that fails its request refuses it.
LEMMA AnswerRefuses ==
  ASSUME HandlerInv, NEW h \in Handlers,
         NEW a \in Answers \ {"stored", "granted", "notFound"},
         hpc[h] \notin {"reply", "done", "lost"}, Answer(h, a),
         UNCHANGED <<shares, db, allowed>>
  PROVE  Vault!Next
<1>1. VaultStage(h) \in {"new", "open", "cleared", "held"}
  BY DEF HandlerInv, VaultStage, VaultOutcome, Points
<1>2. VaultStage(h)' = "refused"
  BY DEF HandlerInv, VaultStage, VaultOutcome, Answer, Points
<1>3. Vault!Move(h, VaultStage(h), "refused")
  BY <1>2, StageMoves DEF HandlerInv, Answer
<1>4. Vault!Refuse(h)
  BY <1>1, <1>3, AskStays DEF Vault!Refuse, Answer
<1> QED BY <1>4 DEF Vault!Next, Vault!Requests, Handlers

\* A handler that starts takes its request on.
LEMMA AcceptTakesOn ==
  ASSUME HandlerInv, NEW h \in Handlers, NEW q, NEW a,
         NEW point \in {"check", "save", "simulate"},
         Arrival(h), Accept(h, q, point),
         a = IF h \in Stores
               THEN [place |-> Key(q), overwrite |-> q.overwrite]
               ELSE [place |-> Key(q), contract |-> q.contract,
                     names |-> q.tx.arg],
         UNCHANGED <<shares, db, allowed>>
  PROVE  Vault!TakeOn(h, a)
<1> USE DEF Accept, Arrival
<1>0. /\ DOMAIN req' = DOMAIN req \cup {h} /\ req'[h] = q
      /\ \A z \in DOMAIN req : z # h => req'[z] = req[z]
  BY DEF Put
<1>1. VaultStage(h) = "new" /\ VaultStage(h)' = "open"
  BY DEF HandlerInv, VaultStage, VaultOutcome, Points
<1>2. resp' = [resp EXCEPT ![h] = resp[h]]
  BY DEF HandlerInv
<1>3. Vault!Move(h, "new", "open")
  BY <1>1, <1>2, StageMoves DEF HandlerInv
<1>4. VaultAsk(h)' = a /\ \A z \in DOMAIN req : z # h => VaultAsk(z)' = VaultAsk(z)
  BY <1>0 DEF VaultAsk
<1>5. [z \in DOMAIN req |-> VaultAsk(z)]' =
        Vault!With([z \in DOMAIN req |-> VaultAsk(z)], h, a)
  BY <1>0, <1>4 DEF Vault!With
<1>6. acked' = Vault!With(acked, h, Vault!Acknowledged)
  BY AckedIsAcknowledged DEF Vault!With, Put
<1> QED BY <1>3, <1>5, <1>6 DEF Vault!TakeOn

-----------------------------------------------------------------------------
(* One lemma per endpoint, and the steps that are neither's.               *)

LEMMA StoreRefines ==
  ASSUME RefineInv, NEW s \in Stores, Store(s)
  PROVE  Vault!Next \/ UNCHANGED Vault!vars
<1>0. /\ s \in Handlers /\ HandlerInv
      /\ hpc \in [Handlers -> Points] /\ resp \in [Handlers -> Answers]
  BY DEF Handlers, RefineInv, AccessInv, StoreInv, HandlerInv
<1>1. CASE StoreRefused(s)
  BY <1>0, <1>1, AnswerRefuses
  DEF StoreRefused, StoreRefusals, Arrival, Answers, chainVars
<1>2. CASE StoreArrive(s)
  <2> PICK c \in ContractIDs, o \in Objects, k \in served, f \in Forms, over \in BOOLEAN :
        Accept(s, [contract |-> c, object |-> o, pub |-> k, form |-> f,
                   overwrite |-> over],
               IF over THEN "save" ELSE "check")
    BY <1>2 DEF StoreArrive
  <2>1. Arrival(s) /\ UNCHANGED <<shares, db, allowed>>
    BY <1>2 DEF StoreArrive, chainVars
  <2> DEFINE a == [place |-> ShareKey(c, o), overwrite |-> over]
  <2>2. Vault!TakeOn(s, a)
    BY <1>0, <2>1, AcceptTakesOn DEF Key
  <2>3. a \in Vault!PutAsks
    BY DEF Vault!PutAsks, ShareKeys
  <2> QED BY <2>2, <2>3 DEF Vault!Next
<1>3. CASE StoreCheck(s)
  <2>0. hpc[s] = "check" /\ UNCHANGED <<shares, db, allowed>>
    BY <1>3 DEF StoreCheck, chainVars
  <2>1. CASE \E a \in {"aborted", "conflict"} : Answer(s, a)
    BY <1>0, <2>0, <2>1, AnswerRefuses DEF Answers
  <2>2. CASE GoTo(s, "save")
    <3>1. \A h \in Handlers : VaultStage(h)' = VaultStage(h)
      BY <1>0, <2>0, <2>2 DEF GoTo, VaultStage, VaultOutcome
    <3> QED BY <2>0, <2>2, <3>1, AskStays DEF GoTo, Vault!vars
  <2> QED BY <1>3, <2>1, <2>2 DEF StoreCheck, Panics
<1>4. CASE StoreSave(s)
  <2>0. /\ hpc[s] = "save" /\ db = "open" /\ hpc' = [hpc EXCEPT ![s] = "reply"]
        /\ shares' = Put(shares, Key(req[s]), s)
        /\ UNCHANGED <<req, got, resp, acked, db, allowed>>
    BY <1>4 DEF StoreSave, GoTo, chainVars
  <2>1. Vault!Move(s, "open", "in")
    <3>1. VaultStage(s) = "open" /\ VaultStage(s)' = "in"
      BY <1>0, <2>0 DEF VaultStage, VaultOutcome
    <3>2. resp' = [resp EXCEPT ![s] = resp[s]]
      BY <1>0, <2>0
    <3> QED BY <1>0, <2>0, <3>1, <3>2, StageMoves
  <2> DEFINE asks == [h \in DOMAIN req |-> VaultAsk(h)]
  <2>2. s \in DOMAIN req
    BY <1>0, <2>0 DEF HandlerInv, Active
  <2>3. asks[s].place = Key(req[s]) /\ asks[s].overwrite = req[s].overwrite
    BY <2>2 DEF VaultAsk
  <2>4. asks[s].overwrite \/ \A q \in acked[s] : asks[q].place # asks[s].place
    <3>1. \A q \in acked[s] : q \in Stores /\ q \in DOMAIN req
      BY <1>0, <2>2
      DEF RefineInv, AccessInv, StoreInv, WrittenInv, HandlerInv, Acked, Handlers
    <3>2. req[s].overwrite \/ \A q \in acked[s] : Key(req[q]) # Key(req[s])
      BY <2>0 DEF RefineInv, AccessInv, StoreInv, CheckedInv
    <3>3. \A q \in acked[s] : asks[q].place = Key(req[q])
      BY <3>1 DEF VaultAsk
    <3> QED BY <2>3, <3>2, <3>3
  <2>5. shares' = Vault!With(shares, asks[s].place, s)
    BY <2>0, <2>3 DEF Vault!With, Put
  <2>6. Vault!Commit(s)
    BY <2>0, <2>1, <2>3, <2>4, <2>5, AskStays DEF Vault!Commit
  <2> QED BY <2>6 DEF Vault!Next
<1>5. CASE StoreSaveFails(s)
  <2>1. \E a \in {"aborted", "storeError"} : Answer(s, a)
    BY <1>5 DEF StoreSaveFails, Panics
  <2> QED BY <1>0, <1>5, <2>1, AnswerRefuses DEF StoreSaveFails, Answers, chainVars
<1>6. CASE StoreReply(s)
  <2>0. /\ hpc[s] = "reply" /\ Answer(s, "stored")
        /\ UNCHANGED <<shares, db, allowed>>
    BY <1>6 DEF StoreReply, chainVars
  <2>1. VaultStage(s) = "in" /\ VaultStage(s)' = "acked"
    BY <1>0, <2>0 DEF VaultStage, VaultOutcome, Answer
  <2>2. Vault!Move(s, "in", "acked")
    BY <1>0, <2>0, <2>1, StageMoves DEF Answer
  <2>3. Vault!Acknowledge(s)
    BY <2>0, <2>2, AskStays DEF Vault!Acknowledge, Answer
  <2> QED BY <2>3 DEF Vault!Next
<1> QED BY <1>1, <1>2, <1>3, <1>4, <1>5, <1>6 DEF Store, StoreStep

LEMMA RetrieveRefines ==
  ASSUME RefineInv, NEW r \in Retrieves, Retrieve(r)
  PROVE  Vault!Next
<1>0. /\ r \in Handlers /\ r \notin Stores /\ HandlerInv
      /\ hpc \in [Handlers -> Points] /\ resp \in [Handlers -> Answers]
  BY RequestsAssumption DEF Handlers, RefineInv, AccessInv, StoreInv, HandlerInv
<1> DEFINE asks == [h \in DOMAIN req |-> VaultAsk(h)]
           place == Key(req[r])
<1>a. ASSUME hpc[r] \in {"simulate", "load", "decrypt"}
      PROVE  /\ r \in DOMAIN req
             /\ asks[r] = [place |-> place, contract |-> req[r].contract,
                           names |-> req[r].tx.arg]
  <2>1. r \in DOMAIN req
    BY <1>0, <1>a DEF HandlerInv, Active
  <2> QED BY <1>0, <2>1 DEF VaultAsk
<1>1. CASE RetrieveRefused(r)
  <2>1. \E a \in RetrieveRefusals : Answer(r, a)
    BY <1>1 DEF RetrieveRefused, RetrieveRefusals
  <2> QED BY <1>0, <1>1, <2>1, AnswerRefuses
      DEF RetrieveRefused, RetrieveRefusals, Arrival, Answers, chainVars
<1>2. CASE RetrieveArrive(r)
  <2> PICK c \in ContractIDs, o \in Objects, a \in Accounts : \E tx \in Txs(a) :
        /\ VerifySorobanTx(tx, c, a)
        /\ Accept(r, [contract |-> c, object |-> o, caller |-> a, tx |-> tx],
                  "simulate")
    BY <1>2 DEF RetrieveArrive
  <2> PICK tx \in Txs(a) :
        /\ VerifySorobanTx(tx, c, a)
        /\ Accept(r, [contract |-> c, object |-> o, caller |-> a, tx |-> tx],
                  "simulate")
    OBVIOUS
  <2>1. Arrival(r) /\ UNCHANGED <<shares, db, allowed>>
    BY <1>2 DEF RetrieveArrive, chainVars
  <2> DEFINE g == [place |-> ShareKey(c, o), contract |-> c, names |-> tx.arg]
  <2>2. Vault!TakeOn(r, g)
    BY <1>0, <2>1, AcceptTakesOn DEF Key
  <2>3. g \in Vault!GetAsks
    BY TxsTyped DEF Vault!GetAsks, ShareKeys, VerifySorobanTx, Tx
  <2> QED BY <2>2, <2>3 DEF Vault!Next
<1>3. CASE RetrieveSimulate(r)
  <2>0. hpc[r] = "simulate" /\ UNCHANGED <<shares, db, allowed>>
    BY <1>3 DEF RetrieveSimulate, chainVars
  <2>1. CASE \E a \in {"rpcError", "denied"} : Answer(r, a)
    BY <1>0, <2>0, <2>1, AnswerRefuses DEF Answers
  <2>2. CASE SimulatesOK(req[r].tx) /\ GoTo(r, "load")
    <3>1. VaultStage(r) = "open" /\ VaultStage(r)' = "cleared"
      BY <1>0, <2>0, <2>2 DEF GoTo, VaultStage, VaultOutcome
    <3>2. resp' = [resp EXCEPT ![r] = resp[r]]
      BY <1>0, <2>2 DEF GoTo
    <3>3. Vault!Move(r, "open", "cleared")
      BY <1>0, <2>2, <3>1, <3>2, StageMoves DEF GoTo
    <3>4. asks[r].names \in allowed[asks[r].contract]
      <4>1. r \in Retrieves \cap DOMAIN req
        BY <1>a, <2>0
      <4>2. req[r].tx.arg \in allowed[req[r].contract]
        BY <2>2, <4>1
        DEF SimulatesOK, Chain!Approve, RefineInv, AccessInv, RequestInv
      <4> QED BY <1>a, <2>0, <4>2
    <3>5. Vault!Clear(r)
      BY <2>0, <2>2, <3>3, <3>4, AskStays DEF Vault!Clear, GoTo
    <3> QED BY <3>5 DEF Vault!Next
  <2> QED BY <1>3, <2>1, <2>2 DEF RetrieveSimulate
<1>4. CASE RetrieveLoad(r)
  <2>0. hpc[r] = "load" /\ UNCHANGED <<shares, db, allowed>>
    BY <1>4 DEF RetrieveLoad, chainVars
  <2>1. CASE Answer(r, "aborted")
    BY <1>0, <2>0, <2>1, AnswerRefuses DEF Answers
  <2>2. CASE /\ db = "closed" \/ Key(req[r]) \notin DOMAIN shares
             /\ Answer(r, "notFound")
    <3>1. VaultStage(r) = "cleared" /\ VaultStage(r)' = "missing"
      BY <1>0, <2>0, <2>2 DEF Answer, VaultStage, VaultOutcome
    <3>2. Vault!Move(r, "cleared", "missing")
      BY <1>0, <2>2, <3>1, StageMoves DEF Answer
    <3>3. db = "closed" \/ \A p \in acked[r] : asks[p].place # asks[r].place
      <4>1. \A p \in acked[r] : /\ p \in Stores /\ p \in DOMAIN req
                                /\ Key(req[p]) \in DOMAIN shares
        BY <1>0, <1>a, <2>0
        DEF RefineInv, AccessInv, StoreInv, WrittenInv, HandlerInv, Acked, Handlers
      <4>2. \A p \in acked[r] : asks[p].place = Key(req[p])
        BY <4>1 DEF VaultAsk
      <4> QED BY <1>a, <2>0, <2>2, <4>1, <4>2
    <3>4. Vault!Miss(r)
      BY <2>0, <2>2, <3>2, <3>3, AskStays DEF Vault!Miss, Answer
    <3> QED BY <3>4 DEF Vault!Next
  <2>3. CASE /\ Key(req[r]) \in DOMAIN shares
             /\ got' = Put(got, r, shares[Key(req[r])])
             /\ hpc' = [hpc EXCEPT ![r] = "decrypt"]
             /\ UNCHANGED <<req, resp, acked>>
    <3>1. VaultStage(r) = "cleared" /\ VaultStage(r)' = "held"
      BY <1>0, <2>0, <2>3 DEF VaultStage, VaultOutcome
    <3>2. resp' = [resp EXCEPT ![r] = resp[r]]
      BY <1>0, <2>3
    <3>3. Vault!Move(r, "cleared", "held")
      BY <1>0, <2>3, <3>1, <3>2, StageMoves
    <3>4. got' = Vault!With(got, r, shares[place])
      BY <2>3 DEF Vault!With, Put
    <3>5. asks[r].place = place
      BY <1>a, <2>0
    <3>6. Vault!Fetch(r)
      BY <2>0, <2>3, <3>3, <3>4, <3>5, AskStays DEF Vault!Fetch
    <3> QED BY <3>6 DEF Vault!Next
  <2> QED BY <1>4, <2>1, <2>2, <2>3 DEF RetrieveLoad, Panics
<1>5. CASE RetrieveDecrypt(r)
  <2>0. hpc[r] = "decrypt" /\ UNCHANGED <<shares, db, allowed>>
    BY <1>5 DEF RetrieveDecrypt, chainVars
  <2>1. CASE \E a \in {"decryptError", "aborted"} : Answer(r, a)
    BY <1>0, <2>0, <2>1, AnswerRefuses DEF Answers
  <2>2. CASE Answer(r, "granted")
    <3>1. VaultStage(r) = "held" /\ VaultStage(r)' = "granted"
      BY <1>0, <2>0, <2>2 DEF Answer, VaultStage, VaultOutcome
    <3>2. Vault!Move(r, "held", "granted")
      BY <1>0, <2>2, <3>1, StageMoves DEF Answer
    <3>3. Vault!Release(r)
      BY <2>0, <2>2, <3>2, AskStays DEF Vault!Release, Answer
    <3> QED BY <3>3 DEF Vault!Next
  <2> QED BY <1>5, <2>1, <2>2 DEF RetrieveDecrypt, DecryptShare
<1> QED BY <1>1, <1>2, <1>3, <1>4, <1>5 DEF Retrieve, RetrieveStep

LEMMA StepRefines == RefineInv /\ [Next]_vars => [Vault!Next]_Vault!vars
<1> SUFFICES ASSUME RefineInv, [Next]_vars
             PROVE  Vault!Next \/ UNCHANGED Vault!vars
  OBVIOUS
<1>1. CASE \E s \in Stores : Store(s)
  BY <1>1, StoreRefines
<1>2. CASE \E r \in Retrieves : Retrieve(r)
  BY <1>2, RetrieveRefines
<1>3. CASE ChainStep
  <2>1. UNCHANGED <<shares, db, hpc, req, got, resp, acked>>
    BY <1>3 DEF ChainStep, handlerVars
  <2>2. allowed' \in [Contracts -> SUBSET Accounts]
    BY LedgerNext DEF RefineInv, LedgerInv
  <2>3. Vault!Ledger
    BY <2>1, <2>2, StageStays, AskStays DEF Vault!Ledger
  <2> QED BY <2>3 DEF Vault!Next
<1>4. CASE ShutdownReturns
  <2>1. UNCHANGED <<shares, hpc, req, got, resp, acked, allowed>>
    BY <1>4 DEF ShutdownReturns, handlerVars, chainVars
  <2>2. CASE db' = "closed"
    <3>1. Vault!Close
      BY <2>1, <2>2, StageStays, AskStays DEF Vault!Close
    <3> QED BY <3>1 DEF Vault!Next
  <2>3. CASE db = "nil" /\ db' = "nil"
    BY <2>1, <2>3, StageStays, AskStays DEF Vault!vars
  <2> QED BY <1>4, <2>2, <2>3 DEF ShutdownReturns, CloseDB
<1>5. CASE Exit \/ Crash
  <2>1. /\ db' = "nil" /\ UNCHANGED <<shares, req, got, resp, acked, allowed>>
        /\ hpc' = [h \in Handlers |-> IF Active(h) THEN "lost" ELSE hpc[h]]
    BY <1>5 DEF Exit, Crash, Down, chainVars
  <2>2. \A h \in Handlers : VaultStage(h)' =
          IF VaultStage(h) \in {"open", "in", "cleared", "held"}
            THEN "gone" ELSE VaultStage(h)
    <3> SUFFICES ASSUME NEW h \in Handlers
                 PROVE  VaultStage(h)' =
                          IF VaultStage(h) \in {"open", "in", "cleared", "held"}
                            THEN "gone" ELSE VaultStage(h)
      OBVIOUS
    <3>0. hpc[h] \in Points
      BY DEF RefineInv, AccessInv, StoreInv, HandlerInv
    <3>1. CASE Active(h)
      BY <2>1, <3>0, <3>1 DEF VaultStage, VaultOutcome, Active, Points
    <3>2. CASE ~Active(h)
      BY <2>1, <3>0, <3>2 DEF VaultStage, VaultOutcome, Active, Points
    <3> QED BY <3>1, <3>2
  <2>3. Vault!Restart
    BY <2>1, <2>2, AskStays
    DEF Vault!Restart, Vault!Requests, Handlers
  <2> QED BY <2>3 DEF Vault!Next
<1>6. CASE StartUp
  <2>1. UNCHANGED <<shares, hpc, req, got, resp, acked, allowed>>
    BY <1>6 DEF StartUp, handlerVars, chainVars
  <2>2. phase # "serve"
    BY <1>6 DEF StartUp, Keys!StartUp, Keys!Boot, Keys!LoadKey, Keys!GenerateKey,
                Keys!SaveKey
  <2>3. srv = "off" /\ db # "closed"
    BY <2>2 DEF RefineInv, ClosedInv, AccessInv, StoreInv, ServerInv
  <2>4. db' # "closed"
    BY <1>6, <2>3 DEF StartUp
  <2> QED BY <2>1, <2>3, <2>4, StageStays, AskStays DEF Vault!vars
<1>7. CASE UNCHANGED <<shares, db, hpc, req, got, resp, acked, allowed>>
  BY <1>7, StageStays, AskStays DEF Vault!vars
<1> QED BY <1>1, <1>2, <1>3, <1>4, <1>5, <1>6, <1>7
    DEF Next, KeyRequest, KeyWriteBack, RotateStep, SigTerm, vars, chainVars,
        handlerVars

\* The storage node implements ShareVault: seen through the mapping, a node
\* with any number of concurrent /store and /retrieve handlers, crashes,
\* shutdowns and rotations takes only the steps the vault may take
\* (handleStoreShare, handleRetrieveShare, saveShare, loadShare).
THEOREM NodeImplementsVault == Spec => ImplementsVault
<1>1. Init => Vault!Init
  BY DEF Init, Chain!ChainInit, EmptyMap, Vault!Init, Vault!Nothing,
         Vault!Requests, Handlers, VaultStage, VaultOutcome
<1> QED BY <1>1, StepRefines, RefineInvariant, PTL
    DEF Spec, ImplementsVault, Vault!Spec
=============================================================================
