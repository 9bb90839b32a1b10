-------------------------- MODULE ShareNodeProofs --------------------------
(* Proofs about ShareNode, for any number of requests, restarts, rotations *)
(* and chain transactions.                                                 *)
EXTENDS ShareNode, ShareKeyProofs, TLAPS

\* What a handler's position says of its request and of its answer.
HandlerInv ==
  /\ hpc \in [Handlers -> Points]
  /\ resp \in [Handlers -> Answers]
  /\ DOMAIN acked = DOMAIN req
  /\ \A h \in Handlers :
       /\ hpc[h] = "idle" => h \notin DOMAIN req
       /\ Active(h) => h \in DOMAIN req
       /\ resp[h] # "none" => hpc[h] = "done"
       /\ resp[h] = "stored" => h \in DOMAIN req

\* Handlers run only in a process that has finished its start-up.
ServerInv ==
  /\ srv = "off" => \A h \in Handlers : ~Active(h)
  /\ srv # "off" => phase = "serve"

\* What is on disk was put there by a store for that key, ...
DiskInv ==
  \A k \in DOMAIN shares :
    shares[k] \in Stores \cap DOMAIN req /\ Key(req[shares[k]]) = k

\* ... is there before it is acknowledged, ...
WrittenInv ==
  /\ \A s \in Stores : hpc[s] = "reply" \/ resp[s] = "stored" =>
       Key(req[s]) \in DOMAIN shares
  /\ \A h \in DOMAIN req : acked[h] \subseteq Acked

\* ... and a store past its write-once check knows of no share in its way,
\* unless the database has been closed since.
CheckedInv ==
  \A s \in Stores : hpc[s] = "save" /\ db = "open" =>
    req[s].overwrite \/ \A t \in acked[s] : Key(req[t]) # Key(req[s])

StoreInv ==
  HandlerInv /\ ServerInv /\ DiskInv /\ WrittenInv /\ CheckedInv /\ AckedStoreKept

LEMMA StoreInit == Init => StoreInv
  BY DEF Init, StoreInv, HandlerInv, ServerInv, DiskInv, WrittenInv, CheckedInv,
         AckedStoreKept, EmptyMap, Active, Acked, Points, Answers,
         Handlers

\* A handler that answers anything but 200 to a store disturbs nothing.
LEMMA AnswerKeeps ==
  ASSUME StoreInv, NEW h \in Handlers, NEW a \in Answers \ {"none", "stored"},
         hpc[h] \notin {"done", "lost"}, Answer(h, a),
         UNCHANGED <<shares, db, srv, phase>>
  PROVE  StoreInv'
<1> USE DEF StoreInv, Answer
<1>0. resp[h] = "none"
  BY DEF HandlerInv
<1>1. Acked' = Acked
  BY <1>0 DEF Acked, HandlerInv, Answers, Handlers
<1>2. HandlerInv'
  BY DEF HandlerInv, Active, Points, Answers
<1>3. ServerInv'
  BY DEF ServerInv, Active, HandlerInv
<1>4. DiskInv'
  BY DEF DiskInv
<1>5. WrittenInv'
  BY <1>1 DEF WrittenInv, HandlerInv, Handlers, Points, Answers
<1>6. CheckedInv'
  BY DEF CheckedInv, HandlerInv, Handlers
<1>7. AckedStoreKept'
  BY DEF AckedStoreKept, HandlerInv, Handlers
<1> QED BY <1>2, <1>3, <1>4, <1>5, <1>6, <1>7

\* So does a request that arrives; what it is told is acknowledged is.
LEMMA AcceptKeeps ==
  ASSUME StoreInv, NEW h \in Handlers, NEW q, NEW point \in Points,
         Arrival(h), Accept(h, q, point),
         point \in {"check", "simulate"} \/ (point = "save" /\ q.overwrite),
         UNCHANGED <<shares, db, srv, phase>>
  PROVE  StoreInv'
<1> USE DEF StoreInv, Accept, Arrival
<1>0. /\ DOMAIN req' = DOMAIN req \cup {h} /\ req'[h] = q
      /\ DOMAIN acked' = DOMAIN acked \cup {h} /\ acked'[h] = Acked
      /\ \A z \in DOMAIN req : req'[z] = req[z]
      /\ \A z \in DOMAIN acked : acked'[z] = acked[z]
      /\ h \notin DOMAIN req
  <2>1. h \notin DOMAIN req /\ DOMAIN acked = DOMAIN req
    BY DEF HandlerInv
  <2> QED BY <2>1 DEF Put
<1>1. Acked' = Acked
  BY DEF Acked
<1>2. HandlerInv'
  BY <1>0 DEF HandlerInv, Active
<1>3. ServerInv'
  BY DEF ServerInv
<1>4. DiskInv'
  BY <1>0 DEF DiskInv, Key
<1>5. WrittenInv'
  BY <1>0, <1>1 DEF WrittenInv, HandlerInv, Handlers, Active, Acked, Key
<1>6. CheckedInv'
  BY <1>0, <1>1 DEF CheckedInv, WrittenInv, HandlerInv, Handlers, Active, Acked, Key
<1>7. AckedStoreKept'
  BY <1>0 DEF AckedStoreKept, DiskInv, HandlerInv, Handlers, Key
<1> QED BY <1>2, <1>3, <1>4, <1>5, <1>6, <1>7

\* A running handler may go on, to the save only with CheckedInv established.
LEMMA GoOnKeeps ==
  ASSUME StoreInv, NEW h \in Handlers, NEW point \in {"save", "load", "decrypt"},
         Active(h), hpc' = [hpc EXCEPT ![h] = point],
         point = "save" /\ db = "open" =>
           \A t \in acked[h] : Key(req[t]) # Key(req[h]),
         UNCHANGED <<req, resp, acked, shares, db, srv, phase>>
  PROVE  StoreInv'
<1> USE DEF StoreInv
<1>1. HandlerInv'
  BY DEF HandlerInv, Active, Points
<1>2. ServerInv'
  BY DEF ServerInv
<1>3. DiskInv'
  BY DEF DiskInv
<1>4. WrittenInv'
  BY DEF WrittenInv, HandlerInv, Handlers, Acked
<1>5. CheckedInv'
  BY DEF CheckedInv, HandlerInv, Handlers
<1>6. AckedStoreKept'
  BY DEF AckedStoreKept
<1> QED BY <1>1, <1>2, <1>3, <1>4, <1>5, <1>6

\* The commit: here the write-once check pays off.
LEMMA SaveKeeps ==
  ASSUME StoreInv, NEW s \in Stores, StoreSave(s)
  PROVE  StoreInv'
<1> DEFINE k == Key(req[s])
<1>0. /\ DOMAIN shares' = DOMAIN shares \cup {k} /\ shares'[k] = s
      /\ \A z \in DOMAIN shares : z # k => shares'[z] = shares[z]
  BY DEF StoreSave, Put
<1>1. /\ hpc[s] = "save" /\ db = "open" /\ hpc' = [hpc EXCEPT ![s] = "reply"]
      /\ UNCHANGED <<req, got, resp, acked, db, srv, phase>>
  BY DEF StoreSave, GoTo, keyVars
<1>2. s \in Handlers /\ s \in DOMAIN req
  BY <1>1 DEF StoreInv, HandlerInv, Active, Handlers
<1> HIDE DEF k
<1> USE DEF StoreInv
<1>3. HandlerInv'
  BY <1>1, <1>2 DEF HandlerInv, Active, Points
<1>4. ServerInv'
  BY <1>1, <1>2 DEF ServerInv, Active
<1>5. DiskInv'
  BY <1>0, <1>1, <1>2 DEF DiskInv, k
<1>6. WrittenInv'
  BY <1>0, <1>1, <1>2 DEF WrittenInv, HandlerInv, Handlers, Acked, k
<1>7. CheckedInv'
  BY <1>1, <1>2 DEF CheckedInv, HandlerInv, Handlers
<1>8. AckedStoreKept'
  <2> SUFFICES ASSUME NEW t \in Stores, resp[t] = "stored"
               PROVE  /\ Key(req[t]) \in DOMAIN shares'
                      /\ LET u == shares'[Key(req[t])] IN
                           u = t \/ req[u].overwrite \/ t \notin acked[u]
    BY <1>1 DEF AckedStoreKept
  <2>1. CASE Key(req[t]) = k
    BY <1>0, <1>1, <2>1 DEF CheckedInv, k
  <2>2. CASE Key(req[t]) # k
    BY <1>0, <2>2 DEF AckedStoreKept
  <2> QED BY <2>1, <2>2
<1> QED BY <1>3, <1>4, <1>5, <1>6, <1>7, <1>8

\* The reply: no store knew of the share before it was acknowledged.
LEMMA ReplyKeeps ==
  ASSUME StoreInv, NEW s \in Stores, StoreReply(s)
  PROVE  StoreInv'
<1>1. /\ hpc[s] = "reply" /\ hpc' = [hpc EXCEPT ![s] = "done"]
      /\ resp' = [resp EXCEPT ![s] = "stored"]
      /\ UNCHANGED <<shares, req, got, acked, db, srv, phase>>
  BY DEF StoreReply, Answer, keyVars
<1> USE DEF StoreInv
<1>2. s \in Handlers /\ s \in DOMAIN req /\ resp[s] = "none"
  BY <1>1 DEF HandlerInv, Active, Handlers
<1>3. HandlerInv'
  BY <1>1, <1>2 DEF HandlerInv, Active, Points, Answers
<1>4. ServerInv'
  BY <1>1, <1>2 DEF ServerInv, Active, HandlerInv
<1>5. DiskInv'
  BY <1>1 DEF DiskInv
<1>6. WrittenInv'
  BY <1>1, <1>2 DEF WrittenInv, HandlerInv, Handlers, Acked
<1>7. CheckedInv'
  BY <1>1, <1>2 DEF CheckedInv, HandlerInv, Handlers
<1>8. AckedStoreKept'
  <2>1. \A h \in DOMAIN req : s \notin acked[h]
    BY <1>2 DEF WrittenInv, Acked
  <2>2. Key(req[s]) \in DOMAIN shares /\ shares[Key(req[s])] \in DOMAIN req
    BY <1>1 DEF WrittenInv, DiskInv
  <2> QED BY <1>1, <1>2, <2>1, <2>2 DEF AckedStoreKept, HandlerInv, Handlers
<1> QED BY <1>3, <1>4, <1>5, <1>6, <1>7, <1>8

LEMMA PostStoreKeeps ==
  ASSUME StoreInv, NEW s \in Stores, Store(s)
  PROVE  StoreInv'
<1>0. s \in Handlers
  BY DEF Handlers
<1>1. CASE StoreRefused(s)
  BY <1>0, <1>1, AnswerKeeps DEF StoreRefused, StoreRefusals, Arrival, Answers, keyVars
<1>2. CASE StoreArrive(s)
  <2> PICK c \in ContractIDs, o \in Objects, k \in served, f \in Forms, over \in BOOLEAN :
        Accept(s, [contract |-> c, object |-> o, pub |-> k, form |-> f,
                   overwrite |-> over],
               IF over THEN "save" ELSE "check")
    BY <1>2 DEF StoreArrive
  <2>1. Arrival(s) /\ UNCHANGED <<shares, db, srv, phase>>
    BY <1>2 DEF StoreArrive, keyVars
  <2>2. CASE over = TRUE
    BY <1>0, <2>1, <2>2, AcceptKeeps DEF Points
  <2>3. CASE over = FALSE
    BY <1>0, <2>1, <2>3, AcceptKeeps DEF Points
  <2> QED BY <2>2, <2>3
<1>3. CASE StoreCheck(s)
  <2>0. hpc[s] = "check" /\ UNCHANGED <<shares, db, srv, phase>>
    BY <1>3 DEF StoreCheck, keyVars
  <2>1. CASE \E a \in {"aborted", "conflict"} : Answer(s, a)
    BY <1>0, <2>0, <2>1, AnswerKeeps DEF Answers
  <2>2. CASE (db = "open" => Key(req[s]) \notin DOMAIN shares) /\ GoTo(s, "save")
    <3>1. s \in DOMAIN req /\ Active(s)
      BY <1>0, <2>0 DEF StoreInv, HandlerInv, Active
    <3>2. \A t \in acked[s] : Key(req[t]) \in DOMAIN shares
      BY <3>1 DEF StoreInv, WrittenInv, Acked
    <3> QED BY <1>0, <2>0, <2>2, <3>1, <3>2, GoOnKeeps DEF GoTo
  <2> QED BY <1>3, <2>1, <2>2 DEF StoreCheck, Panics
<1>4. CASE StoreSave(s)
  BY <1>4, SaveKeeps
<1>5. CASE StoreSaveFails(s)
  <2>1. \E a \in {"aborted", "storeError"} : Answer(s, a)
    BY <1>5 DEF StoreSaveFails, Panics
  <2> QED BY <1>0, <1>5, <2>1, AnswerKeeps DEF StoreSaveFails, Answers, keyVars
<1>6. CASE StoreReply(s)
  BY <1>6, ReplyKeeps
<1> QED BY <1>1, <1>2, <1>3, <1>4, <1>5, <1>6 DEF Store, StoreStep

LEMMA PostRetrieveKeeps ==
  ASSUME StoreInv, NEW r \in Retrieves, Retrieve(r)
  PROVE  StoreInv'
<1>0. r \in Handlers
  BY DEF Handlers
<1>1. CASE RetrieveRefused(r)
  <2>1. \E a \in RetrieveRefusals : Answer(r, a)
    BY <1>1 DEF RetrieveRefused, RetrieveRefusals
  <2> QED BY <1>0, <1>1, <2>1, AnswerKeeps
      DEF RetrieveRefused, RetrieveRefusals, Arrival, Answers, keyVars
<1>2. CASE RetrieveArrive(r)
  BY <1>0, <1>2, AcceptKeeps DEF RetrieveArrive, Points, keyVars
<1>3. CASE RetrieveSimulate(r)
  <2>0. hpc[r] = "simulate" /\ UNCHANGED <<shares, db, srv, phase>>
    BY <1>3 DEF RetrieveSimulate, keyVars
  <2>1. CASE \E a \in {"rpcError", "denied"} : Answer(r, a)
    BY <1>0, <2>0, <2>1, AnswerKeeps DEF Answers
  <2>2. CASE GoTo(r, "load")
    BY <1>0, <2>0, <2>2, GoOnKeeps DEF GoTo, Active
  <2> QED BY <1>3, <2>1, <2>2 DEF RetrieveSimulate
<1>4. CASE RetrieveLoad(r)
  <2>0. hpc[r] = "load" /\ UNCHANGED <<shares, db, srv, phase>>
    BY <1>4 DEF RetrieveLoad, keyVars
  <2>1. CASE \E a \in {"aborted", "notFound"} : Answer(r, a)
    BY <1>0, <2>0, <2>1, AnswerKeeps DEF Answers
  <2>2. CASE hpc' = [hpc EXCEPT ![r] = "decrypt"] /\ UNCHANGED <<req, resp, acked>>
    BY <1>0, <2>0, <2>2, GoOnKeeps DEF Active
  <2> QED BY <1>4, <2>1, <2>2 DEF RetrieveLoad, Panics
<1>5. CASE RetrieveDecrypt(r)
  <2>1. \E a \in {"granted", "decryptError", "aborted"} : Answer(r, a)
    BY <1>5 DEF RetrieveDecrypt, DecryptShare
  <2> QED BY <1>0, <1>5, <2>1, AnswerKeeps DEF RetrieveDecrypt, Answers, keyVars
<1> QED BY <1>1, <1>2, <1>3, <1>4, <1>5 DEF Retrieve, RetrieveStep

\* Keys, the chain and the requests for keys leave the store alone.
LEMMA ElsewhereKeeps ==
  ASSUME StoreInv,
         \/ ChainStep \/ KeyRequest \/ KeyWriteBack \/ UNCHANGED vars
         \/ \E r \in Rotators : RotateStep(r)
  PROVE  StoreInv'
<1>1. UNCHANGED <<shares, db, srv, hpc, req, resp, acked, phase>>
  <2> USE DEF handlerVars, keyVars, Keys!bootVars
  <2>1. CASE ChainStep
    BY <2>1 DEF ChainStep
  <2>2. CASE KeyRequest
    BY <2>2 DEF KeyRequest, Keys!HandleGetPublicKey, Keys!RotateFails,
                Keys!RotateGenerate
  <2>3. CASE KeyWriteBack
    BY <2>3 DEF KeyWriteBack, Keys!WriteBack
  <2>4. CASE UNCHANGED vars
    BY <2>4 DEF vars
  <2>5. ASSUME NEW r \in Rotators, RotateStep(r)
        PROVE  UNCHANGED <<shares, db, srv, hpc, req, resp, acked, phase>>
    BY <2>5 DEF RotateStep, Keys!RotateLock, Keys!PublishPrivate,
                Keys!PublishPublic, Keys!RotateReport
  <2> QED BY <2>1, <2>2, <2>3, <2>4, <2>5
<1> QED BY <1>1 DEF StoreInv, HandlerInv, ServerInv, DiskInv, WrittenInv,
                    CheckedInv, AckedStoreKept, Active, Acked

LEMMA StoreNext == StoreInv /\ [Next]_vars => StoreInv'
<1> SUFFICES ASSUME StoreInv, [Next]_vars PROVE StoreInv'
  OBVIOUS
<1>1. CASE StartUp
  <2>1. phase # "serve" /\ UNCHANGED <<shares, hpc, req, resp, acked>>
    BY <1>1 DEF StartUp, Keys!StartUp, Keys!Boot, Keys!LoadKey,
                Keys!GenerateKey, Keys!SaveKey, handlerVars
  <2>2. srv = "off" /\ \A h \in Handlers : ~Active(h)
    BY <2>1 DEF StoreInv, ServerInv
  <2>3. (phase' = "serve" /\ srv' = "accepting") \/ srv' = srv
    BY <1>1 DEF StartUp
  <2>4. ServerInv'
    BY <2>1, <2>2, <2>3 DEF ServerInv, Active
  <2>5. CheckedInv'
    BY <2>1, <2>2 DEF CheckedInv, Active, Handlers
  <2> QED BY <2>1, <2>4, <2>5 DEF StoreInv, HandlerInv, DiskInv, WrittenInv,
                                  AckedStoreKept, Active, Acked
<1>2. CASE SigTerm \/ ShutdownReturns
  <2>1. /\ srv # "off" /\ srv' # "off" /\ (db' = "open" => db = "open")
        /\ UNCHANGED <<shares, hpc, req, resp, acked, phase>>
    BY <1>2 DEF SigTerm, ShutdownReturns, CloseDB, handlerVars, keyVars
  <2> QED BY <2>1 DEF StoreInv, HandlerInv, ServerInv, DiskInv, WrittenInv,
                      CheckedInv, AckedStoreKept, Active, Acked
<1>3. CASE Exit \/ Crash
  <2>1. /\ db' = "nil" /\ srv' = "off" /\ UNCHANGED <<shares, req, resp, acked>>
        /\ hpc' = [h \in Handlers |-> IF Active(h) THEN "lost" ELSE hpc[h]]
    BY <1>3 DEF Exit, Crash, Down
  <2> USE DEF StoreInv
  <2>2. HandlerInv'
    BY <2>1 DEF HandlerInv, Active, Points
  <2>3. ServerInv'
    BY <2>1 DEF ServerInv, Active
  <2>4. DiskInv' /\ CheckedInv' /\ AckedStoreKept'
    BY <2>1 DEF DiskInv, CheckedInv, AckedStoreKept
  <2>5. WrittenInv'
    BY <2>1 DEF WrittenInv, Acked, Handlers, Active
  <2> QED BY <2>2, <2>3, <2>4, <2>5
<1>4. CASE \E s \in Stores : Store(s)
  BY <1>4, PostStoreKeeps
<1>5. CASE \E r \in Retrieves : Retrieve(r)
  BY <1>5, PostRetrieveKeeps
<1> QED BY <1>1, <1>2, <1>3, <1>4, <1>5, ElsewhereKeeps DEF Next

LEMMA StoreInvariant == Spec => []StoreInv
  BY StoreInit, StoreNext, PTL DEF Spec

\* A share acknowledged by POST /store stays on disk through every crash, and
\* only a store that asked to overwrite, or was under way already, replaces it
\* (handleStoreShare, saveShare, closeDB).
THEOREM AckedSharesKept == Spec => []AckedStoreKept
  BY StoreInvariant, PTL DEF StoreInv

\* From its commit on, a store without X-Overwrite has come to a free place.
OrderInv ==
  \A s \in Stores : hpc[s] = "reply" \/ resp[s] = "stored" =>
    req[s].overwrite \/ \A t \in acked[s] : Key(req[t]) # Key(req[s])

LEMMA OrderNext == StoreInv /\ OrderInv /\ [Next]_vars => OrderInv'
<1> SUFFICES ASSUME StoreInv, OrderInv, [Next]_vars PROVE OrderInv'
  OBVIOUS
<1>0. /\ hpc \in [Handlers -> Points] /\ resp \in [Handlers -> Answers]
      /\ \A h \in Stores : h \in Handlers
  BY DEF StoreInv, HandlerInv, Handlers
\* A step that brings no store to its reply or past it.
<1>1. ASSUME UNCHANGED <<req, acked>>,
             \A s \in Stores : hpc'[s] = "reply" \/ resp'[s] = "stored" =>
                                 hpc[s] = "reply" \/ resp[s] = "stored"
      PROVE  OrderInv'
  BY <1>1 DEF OrderInv, Key
\* An arrival.
<1>2. ASSUME NEW h \in Handlers, NEW q, NEW point \in {"check", "save", "simulate"},
             hpc[h] = "idle", Accept(h, q, point)
      PROVE  OrderInv'
  <2> SUFFICES ASSUME NEW s \in Stores, hpc'[s] = "reply" \/ resp'[s] = "stored"
               PROVE  req'[s].overwrite \/ \A t \in acked'[s] : Key(req'[t]) # Key(req'[s])
    BY DEF OrderInv, Key
  <2>1. resp[h] # "stored" /\ h \notin DOMAIN req /\ resp' = resp
        /\ hpc' = [hpc EXCEPT ![h] = point]
    BY <1>2 DEF StoreInv, HandlerInv, Accept
  <2>2. s # h /\ (hpc[s] = "reply" \/ resp[s] = "stored")
    BY <1>0, <2>1
  <2>3. s \in DOMAIN req /\ s \in DOMAIN acked
    BY <1>0, <2>2 DEF StoreInv, HandlerInv, Active
  <2>4. req'[s] = req[s] /\ acked'[s] = acked[s]
    BY <1>2, <2>2, <2>3 DEF Accept, Put
  <2>5. \A t \in acked[s] : t # h /\ t \in DOMAIN req
    BY <1>0, <2>1, <2>3 DEF StoreInv, WrittenInv, HandlerInv, Acked
  <2>6. \A t \in acked[s] : req'[t] = req[t]
    BY <1>2, <2>5 DEF Accept, Put
  <2> QED BY <2>2, <2>4, <2>6 DEF OrderInv
<1>3. CASE \E s \in Stores : Store(s)
  <2> PICK s \in Stores : Store(s)
    BY <1>3
  <2>1. CASE StoreRefused(s)
    BY <1>0, <1>1, <2>1 DEF StoreRefused, StoreRefusals, Answer
  <2>2. CASE StoreArrive(s)
    <3> PICK c \in ContractIDs, o \in Objects, k \in served, f \in Forms, over \in BOOLEAN :
          Accept(s, [contract |-> c, object |-> o, pub |-> k, form |-> f,
                     overwrite |-> over],
                 IF over THEN "save" ELSE "check")
      BY <2>2 DEF StoreArrive
    <3>1. hpc[s] = "idle" /\ (IF over THEN "save" ELSE "check") \in {"check", "save", "simulate"}
      BY <2>2 DEF StoreArrive, Arrival
    <3> QED BY <1>0, <1>2, <3>1
  <2>3. CASE StoreCheck(s)
    BY <1>0, <1>1, <2>3 DEF StoreCheck, Panics, Answer, GoTo
  <2>4. CASE StoreSave(s)
    <3>1. hpc[s] = "save" /\ db = "open" /\ hpc' = [hpc EXCEPT ![s] = "reply"]
          /\ UNCHANGED <<req, resp, acked>>
      BY <2>4 DEF StoreSave, GoTo
    <3>2. req[s].overwrite \/ \A t \in acked[s] : Key(req[t]) # Key(req[s])
      BY <3>1 DEF StoreInv, CheckedInv
    <3> QED BY <1>0, <3>1, <3>2 DEF OrderInv, Key
  <2>5. CASE StoreSaveFails(s)
    BY <1>0, <1>1, <2>5 DEF StoreSaveFails, Panics, Answer
  <2>6. CASE StoreReply(s)
    BY <1>0, <1>1, <2>6 DEF StoreReply, Answer
  <2> QED BY <2>1, <2>2, <2>3, <2>4, <2>5, <2>6 DEF Store, StoreStep
<1>4. CASE \E r \in Retrieves : Retrieve(r)
  <2> PICK r \in Retrieves : Retrieve(r)
    BY <1>4
  <2>0. r \in Handlers /\ r \notin Stores
    BY RequestsAssumption DEF Handlers
  <2>1. CASE RetrieveRefused(r)
    BY <1>0, <1>1, <2>0, <2>1 DEF RetrieveRefused, Answer
  <2>2. CASE RetrieveArrive(r)
    BY <1>2, <2>0, <2>2 DEF RetrieveArrive, Arrival
  <2>3. CASE RetrieveSimulate(r) \/ RetrieveLoad(r) \/ RetrieveDecrypt(r)
    BY <1>0, <1>1, <2>0, <2>3
       DEF RetrieveSimulate, RetrieveLoad, RetrieveDecrypt, DecryptShare, Panics,
           Answer, GoTo
  <2> QED BY <2>1, <2>2, <2>3 DEF Retrieve, RetrieveStep
<1>5. CASE Exit \/ Crash
  BY <1>0, <1>1, <1>5 DEF Exit, Crash, Down
<1>6. CASE UNCHANGED <<hpc, req, resp, acked>>
  BY <1>1, <1>6
<1> QED BY <1>3, <1>4, <1>5, <1>6 DEF Next, ChainStep, StartUp, KeyRequest,
       KeyWriteBack, RotateStep, SigTerm, ShutdownReturns, handlerVars, vars

\* Of stores that do not overlap, POST /store acknowledges one per key, though
\* its check and its save are two transactions (handleStoreShare).
THEOREM WrittenOnceInOrder == Spec => []WriteOnceInOrder
<1>1. Init => OrderInv
  BY DEF Init, OrderInv, Handlers
<1>2. OrderInv => WriteOnceInOrder
  BY DEF OrderInv, WriteOnceInOrder, Acked
<1> QED BY <1>1, <1>2, OrderNext, StoreInit, StoreNext, PTL DEF Spec

-----------------------------------------------------------------------------
(* Retrievals.                                                             *)

LEMMA NotFoundStep == StoreInv /\ Next =>
  \A r \in Retrieves : resp[r] # "notFound" /\ resp'[r] = "notFound" =>
    db = "closed" \/ \A s \in acked[r] : Key(req[s]) # Key(req[r])
<1> SUFFICES ASSUME StoreInv, Next, NEW r \in Retrieves,
                    resp[r] # "notFound", resp'[r] = "notFound"
             PROVE  db = "closed" \/ \A s \in acked[r] : Key(req[s]) # Key(req[r])
  OBVIOUS
<1>0. resp \in [Handlers -> Answers] /\ r \in Handlers /\ r \notin Stores
  BY RequestsAssumption DEF StoreInv, HandlerInv, Handlers
<1>1. CASE \E q \in Retrieves : Retrieve(q)
  <2> PICK q \in Retrieves : Retrieve(q)
    BY <1>1
  <2>1. CASE RetrieveRefused(q)
    BY <1>0, <2>1 DEF RetrieveRefused, RetrieveRefusals, Answer
  <2>2. CASE RetrieveArrive(q)
    BY <2>2 DEF RetrieveArrive, Accept
  <2>3. CASE RetrieveSimulate(q)
    BY <1>0, <2>3 DEF RetrieveSimulate, Answer, GoTo
  <2>4. CASE RetrieveLoad(q)
    <3>1. /\ hpc[r] = "load"
          /\ db = "closed" \/ Key(req[r]) \notin DOMAIN shares
      BY <1>0, <2>4 DEF RetrieveLoad, Panics, Answer
    <3>2. \A s \in acked[r] : Key(req[s]) \in DOMAIN shares
      BY <1>0, <3>1 DEF StoreInv, HandlerInv, WrittenInv, Active, Acked
    <3> QED BY <3>1, <3>2
  <2>5. CASE RetrieveDecrypt(q)
    BY <1>0, <2>5 DEF RetrieveDecrypt, DecryptShare, Answer
  <2> QED BY <2>1, <2>2, <2>3, <2>4, <2>5 DEF Retrieve, RetrieveStep
<1>2. CASE \E s \in Stores : Store(s)
  BY <1>0, <1>2 DEF Store, StoreRefused, StoreArrive, StoreStep, StoreCheck,
       StoreSave, StoreSaveFails, StoreReply, Answer, GoTo, Accept, Panics
<1>3. CASE UNCHANGED resp
  BY <1>3
<1> QED BY <1>1, <1>2, <1>3 DEF Next, ChainStep, StartUp, KeyRequest, KeyWriteBack,
       RotateStep, SigTerm, ShutdownReturns, Exit, Crash, Down, handlerVars

\* POST /retrieve answers 404 for no share a client was told is stored, except
\* while shutdown has closed the database (handleRetrieveShare, loadShare).
THEOREM NotFoundHonest == Spec => NotFoundIsHonest
<1>1. StoreInv /\ [Next]_vars =>
        [\A r \in Retrieves : resp[r] # "notFound" /\ resp'[r] = "notFound" =>
           db = "closed" \/ \A s \in acked[r] : Key(req[s]) # Key(req[r])]_vars
  BY NotFoundStep
<1> QED BY <1>1, StoreInvariant, PTL DEF Spec, NotFoundIsHonest

\* A validated request names ids, and a retrieval's transaction is an
\* approve(_, somebody) on its own contract.
RequestInv ==
  /\ \A h \in DOMAIN req : h \in Handlers /\ req[h].contract \in ContractIDs
                          /\ req[h].object \in Objects
  /\ \A r \in Retrieves \cap DOMAIN req :
       /\ req[r].tx \in Tx /\ req[r].tx.fn = "approve"
       /\ req[r].tx.contract = req[r].contract

\* From the simulation to the answer the account that the transaction names has
\* been approved.
VouchedInv ==
  /\ DOMAIN vouched = Retrieves
  /\ \A r \in Retrieves :
       \/ hpc[r] = "simulate" /\ req[r].tx.arg \in LetIn(allowed, req[r].contract)
       \/ hpc[r] \in {"load", "decrypt"}
       \/ resp[r] = "granted"
       => req[r].tx.arg \in vouched[r]

\* What a retrieval has loaded was stored under the key it asked for.
LoadedInv ==
  /\ \A r \in DOMAIN got : got[r] \in DOMAIN req
  /\ \A r \in Retrieves : hpc[r] = "decrypt" \/ resp[r] = "granted" =>
       /\ r \in DOMAIN req /\ r \in DOMAIN got
       /\ Key(req[got[r]]) = Key(req[r])

AccessInv == StoreInv /\ RequestInv /\ VouchedInv /\ LoadedInv

LEMMA AccessInit == Init => AccessInv
  BY StoreInit DEF Init, AccessInv, RequestInv, VouchedInv, LoadedInv, EmptyMap,
                   Handlers

\* The parts of AccessInv look at nothing but these variables.
LEMMA AccessStutter ==
  ASSUME RequestInv, VouchedInv, LoadedInv,
         UNCHANGED <<hpc, req, got, resp, vouched, allowed>>
  PROVE  RequestInv' /\ VouchedInv' /\ LoadedInv'
  BY DEF RequestInv, VouchedInv, LoadedInv

\* Refusing a request, or failing one on its way, releases nothing.
LEMMA AnswerReleasesNothing ==
  ASSUME AccessInv, NEW h \in Handlers, NEW a \in Answers \ {"granted"},
         Answer(h, a), UNCHANGED <<allowed, vouched>>
  PROVE  RequestInv' /\ VouchedInv' /\ LoadedInv'
<1> USE DEF AccessInv, StoreInv, HandlerInv, Answer
<1>1. RequestInv'
  BY DEF RequestInv
<1>2. VouchedInv'
  BY DEF VouchedInv, Handlers
<1>3. LoadedInv'
  BY DEF LoadedInv, Handlers
<1> QED BY <1>1, <1>2, <1>3

\* Neither does a request that arrives.
LEMMA AcceptReleasesNothing ==
  ASSUME AccessInv, NEW h \in Handlers, NEW q, NEW point,
         point \in {"check", "save", "simulate"},
         Arrival(h), Accept(h, q, point),
         q.contract \in ContractIDs /\ q.object \in Objects,
         h \in Retrieves =>
           /\ q.tx \in Tx /\ q.tx.fn = "approve" /\ q.tx.contract = q.contract
           /\ vouched' = [vouched EXCEPT ![h] = LetIn(allowed, q.contract)],
         h \notin Retrieves => UNCHANGED vouched, UNCHANGED allowed
  PROVE  RequestInv' /\ VouchedInv' /\ LoadedInv'
<1> USE DEF AccessInv, StoreInv, HandlerInv, Accept, Arrival
<1>0. h \notin DOMAIN req
  OBVIOUS
<1>1. /\ DOMAIN req' = DOMAIN req \cup {h} /\ req'[h] = q
      /\ \A z \in DOMAIN req : req'[z] = req[z]
  BY <1>0 DEF Put
<1>2. RequestInv'
  BY <1>1 DEF RequestInv
<1>3. VouchedInv'
  <2>1. /\ DOMAIN vouched' = Retrieves
        /\ \A r \in Retrieves : r # h => vouched'[r] = vouched[r]
        /\ h \in Retrieves => vouched'[h] = LetIn(allowed, q.contract)
    BY DEF VouchedInv
  <2> SUFFICES ASSUME NEW r \in Retrieves,
                      \/ hpc'[r] = "simulate" /\ req'[r].tx.arg \in LetIn(allowed, req'[r].contract)
                      \/ hpc'[r] \in {"load", "decrypt"}
                      \/ resp[r] = "granted"
               PROVE  req'[r].tx.arg \in vouched'[r]
    BY <2>1 DEF VouchedInv
  <2>2. CASE r = h
    BY <1>1, <2>1, <2>2
  <2>3. CASE r # h
    <3>1. hpc'[r] = hpc[r] /\ r \in DOMAIN req
      BY <2>3 DEF Active, Handlers, LoadedInv
    <3> QED BY <1>1, <2>1, <2>3, <3>1 DEF VouchedInv
  <2> QED BY <2>2, <2>3
<1>4. LoadedInv'
  <2>1. \A r \in DOMAIN got : got'[r] = got[r] /\ req'[got[r]] = req[got[r]]
    BY <1>1 DEF LoadedInv
  <2>2. \A r \in Retrieves : hpc'[r] = "decrypt" \/ resp[r] = "granted" => r # h /\ hpc[r] = hpc'[r]
    BY DEF Handlers
  <2> QED BY <1>1, <2>1, <2>2 DEF LoadedInv, Key
<1> QED BY <1>2, <1>3, <1>4

\* A transaction that may be sent has the parts of one.
LEMMA TxsTyped == \A a \in Accounts : \A tx \in Txs(a) : tx \in Tx
<1> SUFFICES ASSUME NEW a \in Accounts, NEW tx \in Txs(a) PROVE tx \in Tx
  OBVIOUS
<1> PICK c \in Contracts :
      \/ tx \in {ApproveTx(c, a), [ApproveTx(c, a) EXCEPT !.kind = "other"],
                [ApproveTx(c, a) EXCEPT !.ops = 2],
                [ApproveTx(c, a) EXCEPT !.fn = "is_allowed"]}
      \/ \E b \in Accounts : \/ tx = [ApproveTx(c, a) EXCEPT !.source = b]
                            \/ tx = [ApproveTx(c, a) EXCEPT !.arg = b]
  BY SMTT(30) DEF Txs
<1>1. ApproveTx(c, a) \in Tx
  BY DEF ApproveTx, Tx
<1> QED BY <1>1 DEF Tx

LEMMA AccessNext == AccessInv /\ [Next]_vars => AccessInv'
<1> SUFFICES ASSUME AccessInv, [Next]_vars PROVE AccessInv'
  OBVIOUS
<1>0. StoreInv'
  BY StoreNext DEF AccessInv
<1> SUFFICES RequestInv' /\ VouchedInv' /\ LoadedInv'
  BY <1>0 DEF AccessInv
<1>1. ASSUME NEW s \in Stores, Store(s)
      PROVE  RequestInv' /\ VouchedInv' /\ LoadedInv'
  <2>0. s \in Handlers /\ s \notin Retrieves /\ UNCHANGED <<allowed, vouched>>
    BY <1>1, RequestsAssumption
    DEF Handlers, chainVars, Store, StoreRefused, StoreArrive, StoreStep,
        StoreCheck, StoreSave, StoreSaveFails, StoreReply
  <2>1. CASE \E a \in Answers \ {"granted"} : Answer(s, a)
    BY <2>0, <2>1, AnswerReleasesNothing
  <2>2. CASE StoreArrive(s)
    <3> PICK c \in ContractIDs, o \in Objects, k \in served, f \in Forms, over \in BOOLEAN :
          Accept(s, [contract |-> c, object |-> o, pub |-> k, form |-> f,
                     overwrite |-> over],
                 IF over THEN "save" ELSE "check")
      BY <2>2 DEF StoreArrive
    <3>1. Arrival(s)
      BY <2>2 DEF StoreArrive
    <3>2. CASE over = TRUE
      BY <2>0, <3>1, <3>2, AcceptReleasesNothing
    <3>3. CASE over = FALSE
      BY <2>0, <3>1, <3>3, AcceptReleasesNothing
    <3> QED BY <3>2, <3>3
  <2>3. CASE \E point \in {"save", "reply"} : GoTo(s, point)
    BY <2>0, <2>3 DEF GoTo, AccessInv, RequestInv, VouchedInv, LoadedInv,
                      StoreInv, HandlerInv
  <2> QED BY <1>1, <2>1, <2>2, <2>3
      DEF Store, StoreStep, StoreRefused, StoreRefusals, StoreCheck, StoreSave,
          StoreSaveFails, StoreReply, Panics, Answers
<1>2. ASSUME NEW r \in Retrieves, Retrieve(r)
      PROVE  RequestInv' /\ VouchedInv' /\ LoadedInv'
  <2>0. r \in Handlers /\ UNCHANGED allowed
    BY <1>2 DEF Handlers, chainVars, Retrieve, RetrieveRefused, RetrieveArrive,
                RetrieveStep, RetrieveSimulate, RetrieveLoad, RetrieveDecrypt
  <2>1. CASE UNCHANGED vouched /\ \E a \in Answers \ {"granted"} : Answer(r, a)
    BY <2>0, <2>1, AnswerReleasesNothing
  <2>2. CASE RetrieveArrive(r)
    <3> PICK c \in ContractIDs, o \in Objects, a \in Accounts : \E tx \in Txs(a) :
          /\ VerifySorobanTx(tx, c, a)
          /\ Accept(r, [contract |-> c, object |-> o, caller |-> a, tx |-> tx],
                    "simulate")
          /\ vouched' = [vouched EXCEPT ![r] = LetIn(allowed, c)]
      BY <2>2 DEF RetrieveArrive
    <3> PICK tx \in Txs(a) :
          /\ VerifySorobanTx(tx, c, a)
          /\ Accept(r, [contract |-> c, object |-> o, caller |-> a, tx |-> tx],
                    "simulate")
          /\ vouched' = [vouched EXCEPT ![r] = LetIn(allowed, c)]
      OBVIOUS
    <3>1. tx \in Tx /\ tx.fn = "approve" /\ tx.contract = c
      BY TxsTyped DEF VerifySorobanTx
    <3>2. Arrival(r)
      BY <2>2 DEF RetrieveArrive
    <3> QED BY <2>0, <3>1, <3>2, AcceptReleasesNothing
  <2>3. CASE RetrieveSimulate(r) /\ SimulatesOK(req[r].tx) /\ GoTo(r, "load")
    <3>1. r \in DOMAIN req /\ hpc[r] = "simulate"
      BY <2>0, <2>3 DEF RetrieveSimulate, AccessInv, StoreInv, HandlerInv, Active
    <3>2. req[r].tx.arg \in LetIn(allowed, req[r].contract)
      BY <2>3, <3>1 DEF SimulatesOK, Chain!Approve, AccessInv, RequestInv, LetIn, Tx
    <3>3. req[r].tx.arg \in vouched[r]
      BY <3>1, <3>2 DEF AccessInv, VouchedInv
    <3>4. UNCHANGED vouched
      BY <2>3 DEF RetrieveSimulate
    <3> QED BY <2>0, <2>3, <3>3, <3>4
        DEF GoTo, AccessInv, RequestInv, VouchedInv, LoadedInv, StoreInv, HandlerInv
  <2>4. CASE /\ RetrieveLoad(r) /\ Key(req[r]) \in DOMAIN shares
             /\ got' = Put(got, r, shares[Key(req[r])])
             /\ hpc' = [hpc EXCEPT ![r] = "decrypt"]
             /\ UNCHANGED <<req, resp, acked>>
    <3>1. r \in DOMAIN req /\ hpc[r] = "load" /\ UNCHANGED vouched
      BY <2>0, <2>4 DEF RetrieveLoad, AccessInv, StoreInv, HandlerInv, Active
    <3>2. /\ DOMAIN got' = DOMAIN got \cup {r}
          /\ got'[r] \in DOMAIN req /\ Key(req[got'[r]]) = Key(req[r])
          /\ \A q \in DOMAIN got : q # r => got'[q] = got[q]
      BY <2>4 DEF Put, AccessInv, StoreInv, DiskInv
    <3>3. RequestInv' /\ VouchedInv'
      BY <2>0, <2>4, <3>1 DEF AccessInv, RequestInv, VouchedInv, StoreInv, HandlerInv
    <3>4. LoadedInv'
      BY <2>0, <2>4, <3>1, <3>2 DEF AccessInv, LoadedInv, StoreInv, HandlerInv, Key
    <3> QED BY <3>3, <3>4
  <2>5. CASE RetrieveDecrypt(r)
    <3>1. /\ hpc[r] = "decrypt" /\ UNCHANGED <<req, got, vouched>>
          /\ hpc' = [hpc EXCEPT ![r] = "done"]
          /\ \E a \in {"granted", "decryptError", "aborted"} : resp' = [resp EXCEPT ![r] = a]
      BY <2>5 DEF RetrieveDecrypt, DecryptShare, Answer
    <3>2. RequestInv'
      BY <3>1 DEF AccessInv, RequestInv
    <3>3. VouchedInv'
      BY <2>0, <3>1 DEF AccessInv, VouchedInv, StoreInv, HandlerInv, Handlers
    <3>4. LoadedInv'
      BY <2>0, <3>1 DEF AccessInv, LoadedInv, StoreInv, HandlerInv, Handlers
    <3> QED BY <3>2, <3>3, <3>4
  <2>6. CASE RetrieveRefused(r)
    BY <2>1, <2>6 DEF RetrieveRefused, RetrieveRefusals, Answers
  <2>7. CASE RetrieveSimulate(r)
    BY <2>1, <2>3, <2>7 DEF RetrieveSimulate, Answers
  <2>8. CASE RetrieveLoad(r)
    BY <2>1, <2>4, <2>8 DEF RetrieveLoad, Panics, Answers
  <2> QED BY <1>2, <2>2, <2>5, <2>6, <2>7, <2>8 DEF Retrieve, RetrieveStep
<1>3. CASE ChainStep
  <2>1. /\ UNCHANGED <<hpc, req, got, resp>>
        /\ DOMAIN vouched' = Retrieves
        /\ \A r \in Retrieves :
             /\ vouched[r] \subseteq vouched'[r]
             /\ Active(r) => LetIn(allowed', req[r].contract) \subseteq vouched'[r]
    BY <1>3 DEF ChainStep, handlerVars
  <2>2. RequestInv' /\ LoadedInv'
    BY <2>1 DEF AccessInv, RequestInv, LoadedInv, Key
  <2>3. VouchedInv'
    BY <2>1 DEF AccessInv, VouchedInv, Active
  <2> QED BY <2>2, <2>3
<1>4. CASE Exit \/ Crash
  <2>1. /\ UNCHANGED <<req, got, resp, vouched, allowed>>
        /\ hpc' = [h \in Handlers |-> IF Active(h) THEN "lost" ELSE hpc[h]]
    BY <1>4 DEF Exit, Crash, Down, chainVars
  <2> QED BY <2>1 DEF AccessInv, RequestInv, VouchedInv, LoadedInv, Handlers, Active
<1>5. CASE UNCHANGED <<hpc, req, got, resp, vouched, allowed>>
  BY <1>5, AccessStutter DEF AccessInv
<1> QED BY <1>1, <1>2, <1>3, <1>4, <1>5
    DEF Next, StartUp, KeyRequest, KeyWriteBack, RotateStep, SigTerm,
        ShutdownReturns, vars, chainVars, handlerVars

LEMMA AccessInvariant == Spec => []AccessInv
  BY AccessInit, AccessNext, PTL DEF Spec

\* POST /retrieve releases a share only if the contract let in the account the
\* transaction names while the request ran (handleRetrieveShare,
\* verifySorobanTx, simulateSorobanTx).
THEOREM GrantsWereApproved == Spec => []GrantWasApproved
<1>1. AccessInv => GrantWasApproved
  BY DEF AccessInv, VouchedInv, GrantWasApproved
<1> QED BY <1>1, AccessInvariant, PTL

\* Among contract ids without the separator, whatever ids the others are, the
\* share released is one stored for the object and the contract the request
\* names (handleStoreShare, handleRetrieveShare).
THEOREM ReleasedSharesMatch == Spec => []ReleasedShareMatches
<1> DEFINE Free == {c \in ContractIDs : SepFree(c)}
<1>1. KeysDistinct(Free, Objects)
  BY IdsAssumption, ShareKeyInjective
<1>2. AccessInv => ReleasedShareMatches
  <2> SUFFICES ASSUME AccessInv, NEW r \in Retrieves, resp[r] = "granted",
                      SepFree(req[got[r]].contract)
               PROVE  /\ req[got[r]].contract = req[r].contract
                      /\ req[got[r]].object = req[r].object
    BY DEF ReleasedShareMatches
  <2>1. /\ r \in DOMAIN req /\ got[r] \in DOMAIN req
        /\ Key(req[got[r]]) = Key(req[r])
    BY DEF AccessInv, LoadedInv
  <2>2. req[r].contract \in Free /\ req[r].object \in Objects
    BY <2>1, IdsAssumption DEF AccessInv, RequestInv, Tx
  <2>3. req[got[r]].contract \in Free /\ req[got[r]].object \in Objects
    BY <2>1 DEF AccessInv, RequestInv
  <2> HIDE DEF Free
  <2> QED BY <1>1, <2>1, <2>2, <2>3 DEF KeysDistinct, Key
<1> QED BY <1>2, AccessInvariant, PTL

-----------------------------------------------------------------------------
(* Panics.                                                                 *)

\* A node that opens its database has it while it serves.
WiredInv ==
  /\ hpc \in [Handlers -> Points] /\ resp \in [Handlers -> Answers]
  /\ ServerInv
  /\ srv # "off" => db # "nil"
  /\ PanicsOnlyOnNonce

LEMMA WiredNext == DBWired /\ AccessInv /\ WiredInv /\ [Next]_vars => WiredInv'
<1> SUFFICES ASSUME DBWired, AccessInv, WiredInv, [Next]_vars PROVE WiredInv'
  OBVIOUS
<1>1. StoreInv'
  BY StoreNext DEF AccessInv
<1>2. hpc' \in [Handlers -> Points] /\ resp' \in [Handlers -> Answers] /\ ServerInv'
  BY <1>1 DEF StoreInv, HandlerInv
<1>3. ASSUME NEW h \in Handlers, Active(h) PROVE db # "nil"
  BY <1>3 DEF WiredInv, ServerInv
<1>4. srv' # "off" => db' # "nil"
  <2>1. CASE StartUp
    <3>1. CASE phase' = "serve"
      BY <2>1, <3>1 DEF StartUp
    <3>2. CASE phase' # "serve"
      BY <2>1, <3>2 DEF StartUp, WiredInv
    <3> QED BY <3>1, <3>2
  <2>2. CASE SigTerm \/ ShutdownReturns
    BY <2>2 DEF SigTerm, ShutdownReturns, CloseDB, WiredInv
  <2>3. CASE Exit \/ Crash
    BY <2>3 DEF Exit, Crash, Down
  <2>4. CASE UNCHANGED <<db, srv>>
    BY <2>4 DEF WiredInv
  <2> QED BY <2>1, <2>2, <2>3, <2>4 DEF Next, Store, StoreRefused, StoreArrive, StoreStep,
         StoreCheck, StoreSave, StoreSaveFails, StoreReply, Retrieve, RetrieveRefused,
         RetrieveArrive, RetrieveStep, RetrieveSimulate, RetrieveLoad, RetrieveDecrypt,
         ChainStep, KeyRequest, KeyWriteBack, RotateStep, vars
<1>5. PanicsOnlyOnNonce'
  <2> USE DEF WiredInv, PanicsOnlyOnNonce
  <2>0. /\ \A h \in DOMAIN req : h \in Handlers
        /\ \A r \in DOMAIN got : got[r] \in DOMAIN req
        /\ \A h \in Handlers : hpc[h] = "idle" => h \notin DOMAIN req
    BY DEF AccessInv, StoreInv, HandlerInv, RequestInv, LoadedInv
  \* A step that leaves what was loaded alone and answers no panic.
  <2>1. ASSUME \A h \in Handlers : resp'[h] = "aborted" => resp[h] = "aborted",
               UNCHANGED <<got, req>>
        PROVE  PanicsOnlyOnNonce'
    BY <2>1
  \* An arrival.
  <2>2. ASSUME NEW h \in Handlers, NEW q, NEW point, hpc[h] = "idle",
               Accept(h, q, point)
        PROVE  PanicsOnlyOnNonce'
    <3>1. \A r \in DOMAIN got : req'[got[r]] = req[got[r]]
      BY <2>0, <2>2 DEF Accept, Put
    <3> QED BY <2>2, <3>1 DEF Accept
  <2>3. CASE \E s \in Stores : Store(s)
    <3> PICK s \in Stores : Store(s)
      BY <2>3
    <3>0. s \in Handlers /\ (hpc[s] \in {"check", "save"} => db # "nil")
      BY <1>3 DEF Handlers, Active
    <3>1. CASE StoreRefused(s)
      BY <2>1, <3>0, <3>1 DEF StoreRefused, StoreRefusals, Answer
    <3>2. CASE StoreArrive(s)
      BY <2>2, <3>0, <3>2 DEF StoreArrive, Arrival
    <3>3. CASE StoreCheck(s) \/ StoreSaveFails(s)
      BY <2>1, <3>0, <3>3 DEF StoreCheck, StoreSaveFails, Panics, Answer, GoTo
    <3>4. CASE StoreSave(s) \/ StoreReply(s)
      BY <2>1, <3>0, <3>4 DEF StoreSave, StoreReply, Answer, GoTo
    <3> QED BY <3>1, <3>2, <3>3, <3>4 DEF Store, StoreStep
  <2>4. CASE \E r \in Retrieves : Retrieve(r)
    <3> PICK r \in Retrieves : Retrieve(r)
      BY <2>4
    <3>0. r \in Handlers /\ (hpc[r] = "load" => db # "nil")
      BY <1>3 DEF Handlers, Active
    <3>1. CASE RetrieveRefused(r)
      BY <2>1, <3>0, <3>1 DEF RetrieveRefused, RetrieveRefusals, Answer
    <3>2. CASE RetrieveArrive(r)
      BY <2>2, <3>0, <3>2 DEF RetrieveArrive, Arrival
    <3>3. CASE RetrieveSimulate(r)
      BY <2>1, <3>0, <3>3 DEF RetrieveSimulate, Answer, GoTo
    <3>4. CASE RetrieveLoad(r)
      <4>1. CASE Answer(r, "notFound")
        BY <2>1, <3>0, <4>1 DEF Answer
      <4>2. CASE /\ got' = Put(got, r, shares[Key(req[r])])
                 /\ UNCHANGED <<req, resp>> /\ hpc[r] = "load"
        <5>1. resp[r] # "aborted"
          BY <3>0, <4>2 DEF AccessInv, StoreInv, HandlerInv
        <5>2. \A q \in DOMAIN got : q \in DOMAIN got' /\ (q # r => got'[q] = got[q])
          BY <4>2 DEF Put
        <5> QED BY <4>2, <5>1, <5>2
      <4> QED BY <3>0, <3>4, <4>1, <4>2 DEF RetrieveLoad, Panics
    <3>5. CASE RetrieveDecrypt(r)
      <4>1. r \in DOMAIN got /\ UNCHANGED <<got, req>>
        BY <3>5 DEF RetrieveDecrypt, Answer, AccessInv, LoadedInv
      <4>2. /\ resp' = [resp EXCEPT ![r] = DecryptShare(req[got[r]])]
            /\ DecryptShare(req[got[r]]) = "aborted" => req[got[r]].form = "badNonce"
        BY <3>5 DEF RetrieveDecrypt, DecryptShare, Answer
      <4> QED BY <3>0, <4>1, <4>2
    <3> QED BY <3>1, <3>2, <3>3, <3>4, <3>5 DEF Retrieve, RetrieveStep
  <2>5. CASE UNCHANGED <<resp, got, req>>
    BY <2>5
  <2> QED BY <2>3, <2>4, <2>5 DEF Next, ChainStep, StartUp, KeyRequest, KeyWriteBack,
         RotateStep, SigTerm, ShutdownReturns, Exit, Crash, Down, handlerVars, vars
<1> QED BY <1>2, <1>4, <1>5 DEF WiredInv

\* If start-up opens the database no handler meets a nil *bolt.DB: the listener
\* starts after initDB, and closeDB leaves a closed handle under the handlers
\* that outlive the drain.  What still panics is gcm.Open, on a stored nonce of
\* the wrong length (DecryptShare).
THEOREM NoPanicsWithDatabase ==
  ASSUME DBWired
  PROVE  Spec => []PanicsOnlyOnNonce
<1>1. Init => WiredInv
  BY StoreInit DEF Init, WiredInv, PanicsOnlyOnNonce, StoreInv, HandlerInv
<1>2. WiredInv => PanicsOnlyOnNonce
  BY DEF WiredInv
<1>3. AccessInv /\ WiredInv /\ [Next]_vars => WiredInv'
  BY WiredNext
<1> QED BY <1>1, <1>2, <1>3, AccessInvariant, PTL DEF Spec

-----------------------------------------------------------------------------
(* The chain.                                                              *)

AuthorityInv ==
  grantors \in [Contracts -> SUBSET Accounts] /\ Chain!OneAuthority

LEMMA AuthorityNext == AuthorityInv /\ [Next]_vars => AuthorityInv'
<1> SUFFICES ASSUME AuthorityInv, [Next]_vars PROVE AuthorityInv'
  OBVIOUS
<1> USE DEF AuthorityInv, Chain!OneAuthority
<1>1. CASE ChainStep
  <2> PICK c \in Contracts, a \in Accounts :
        \/ Chain!InitContract(c, a)
        \/ \E b \in Accounts : Chain!Add(c, a, b) \/ Chain!Remove(c, a, b)
    BY <1>1 DEF ChainStep, Chain!ChainNext
  <2>1. CASE Chain!InitContract(c, a)
    BY <2>1 DEF Chain!InitContract
  <2>2. CASE \E b \in Accounts : Chain!Add(c, a, b) \/ Chain!Remove(c, a, b)
    BY <2>2 DEF Chain!Add, Chain!Remove, Chain!AdminAuth
  <2> QED BY <2>1, <2>2
<1>2. CASE UNCHANGED chainVars
  BY <1>2 DEF chainVars
<1> QED BY <1>1, <1>2
    DEF Next, Store, StoreRefused, StoreArrive, StoreStep, StoreCheck, StoreSave,
        StoreSaveFails, StoreReply, Retrieve, RetrieveRefused, RetrieveArrive,
        RetrieveStep, RetrieveSimulate, RetrieveLoad, RetrieveDecrypt, StartUp,
        KeyRequest, KeyWriteBack, RotateStep, SigTerm, ShutdownReturns, Exit,
        Crash, Down, vars

\* Every grant and revocation a contract ever accepted was its one admin's
\* (init, add and remove of contract/src/lib.rs).
THEOREM OneAdminDecides == Spec => []ChainOneAuthority
<1>1. Init => AuthorityInv
  BY DEF Init, Chain!ChainInit, AuthorityInv, Chain!OneAuthority
<1>2. AuthorityInv => ChainOneAuthority
  BY DEF AuthorityInv, ChainOneAuthority
<1> QED BY <1>1, <1>2, AuthorityNext, PTL DEF Spec
=============================================================================
