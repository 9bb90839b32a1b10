----------------------- MODULE ThresholdClientProofs -----------------------
(* Proofs about ThresholdClient, for any number of commands and nodes, any *)
(* node lists and any n and t.                                             *)
EXTENDS ThresholdClient, FiniteSetTheorems, TLAPS

ArgsType == [nodes : NodeLists \cup {<<>>}, n : Nat, t : Nat]

\* The variables' types.
VarTypes ==
  /\ encFile \subseteq Encrypts \cup Torn /\ metaFile \subseteq Encrypts
  /\ held = [d \in Nodes |-> held[d]]
  /\ \A d \in Nodes : DOMAIN held[d] \subseteq Encrypts
  /\ cpc \in [Commands -> Points]
  /\ args \in [Encrypts -> ArgsType]
  /\ next \in [Commands -> Nat \ {0}]
  /\ readEnc \in [Decrypts -> SUBSET (Encrypts \cup Torn)]
  /\ readMeta \in [Decrypts -> SUBSET Encrypts]
  /\ collected \in [Decrypts -> Seq(Nat)]
  /\ refusals \in [Decrypts -> Nat]
  /\ lastGood \subseteq Encrypts /\ overlapped \subseteq Encrypts

\* An encryption's loop runs over the first n entries of a long enough list.
LoopInv ==
  \A e \in Encrypts :
    /\ next[e] <= args[e].n + 1 /\ next[e] <= Len(args[e].nodes) + 1
    /\ cpc[e] \in {"idle", "write", "fill"} => next[e] = 1
    /\ cpc[e] \in {"write", "fill", "send", "save"} => args[e].n <= Len(args[e].nodes)
    /\ cpc[e] \in {"send", "save"} => SplitOK(args[e].n, args[e].t)
    /\ cpc[e] = "save" => next[e] > args[e].n

\* The nodes it has passed hold their shares and so are distinct; no node
\* holds any of an encryption that has not got to sending.
PlacedInv ==
  /\ \A e \in Encrypts : \A i \in 1..next[e] - 1 :
       e \in DOMAIN held[args[e].nodes[i]] /\ held[args[e].nodes[i]][e] = i
  /\ \A d \in Nodes : \A e \in DOMAIN held[d] :
       held[d][e] \in 1..args[e].n /\ cpc[e] \notin {"idle", "write", "fill"}

\* An encryption that has placed all its shares and is over.
Made(e) ==
  /\ cpc[e] \in Ended /\ next[e] > args[e].n
  /\ args[e].n <= Len(args[e].nodes) /\ SplitOK(args[e].n, args[e].t)

\* Metadata, on disk or read by a decryption, is of such an encryption.
MadeInv ==
  /\ \A e \in metaFile : Made(e)
  /\ \A d \in Decrypts : \A e \in readMeta[d] : Made(e)

\* A decryption has passed one node per share and per refusal; its shares are
\* different ones, those of nodes it has passed.
CollectInv ==
  \A d \in Decrypts :
    /\ next[d] = Len(collected[d]) + refusals[d] + 1
    /\ \A k \in DOMAIN collected[d] : collected[d][k] < next[d]
    /\ \A k, l \in DOMAIN collected[d] : collected[d][k] = collected[d][l] => k = l
    /\ cpc[d] \in {"collect", "insufficient", "mismatch"} => readMeta[d] # {}

ClientInv ==
  VarTypes /\ LoopInv /\ PlacedInv /\ MadeInv /\ CollectInv /\ ToleratesFailures

\* What an encryption that nobody disturbs finds in the files it has to itself.
OwnFiles(e) ==
  /\ cpc[e] = "fill" => encFile = {}
  /\ cpc[e] \in {"send", "save"} => encFile = {e}
  /\ cpc[e] = "save" => metaFile = {}

\* An encryption that has met no other runs alone, and has the files to itself.
AloneInv ==
  /\ \A e \in Encrypts \ overlapped : Running(e) =>
       \A f \in Encrypts \ {e} : ~Running(f)
  /\ \A e \in Encrypts \ overlapped : OwnFiles(e)
  /\ LastSuccessUsable

-----------------------------------------------------------------------------
(* What is true of any state.                                              *)

LEMMA CommandKinds ==
  /\ \A e \in Encrypts : e \in Commands /\ e \notin Decrypts
  /\ \A d \in Decrypts : d \in Commands /\ d \notin Encrypts
  BY CommandsAssumption DEF Commands

LEMMA ArgsKinds ==
  ASSUME NEW a \in ArgsType
  PROVE  a.nodes \in Seq(Nodes) /\ Len(a.nodes) \in Nat /\ a.n \in Nat /\ a.t \in Nat
<1>1. a.nodes \in NodeLists \/ a.nodes = <<>>
  BY DEF ArgsType
<1>2. a.nodes \in Seq(Nodes)
  <2>1. CASE a.nodes \in NodeLists
    BY <2>1, NodeListsAssumption
  <2>2. CASE a.nodes = <<>>
    BY <2>2
  <2> QED BY <1>1, <2>1, <2>2
<1> QED BY <1>2 DEF ArgsType

\* The metadata of a decryption that has read some is of one of Encrypts.
LEMMA MetaKind ==
  ASSUME VarTypes, NEW d \in Decrypts, readMeta[d] # {}
  PROVE  Meta(d) \in Encrypts /\ Meta(d) \in readMeta[d]
  BY DEF VarTypes, Meta

LEMMA ClientInit == Init => ClientInv /\ AloneInv
<1> SUFFICES ASSUME Init PROVE ClientInv /\ AloneInv
  OBVIOUS
<1> USE CommandKinds DEF Init
<1>1. NoArgs \in ArgsType /\ Len(NoArgs.nodes) = 0 /\ NoArgs.n = 0
  BY DEF NoArgs, ArgsType
<1>2. VarTypes
  BY <1>1 DEF VarTypes, Points
<1>3. LoopInv
  BY <1>1 DEF LoopInv
<1>4. PlacedInv
  BY <1>1 DEF PlacedInv
<1>5. MadeInv /\ CollectInv /\ ToleratesFailures
  BY DEF MadeInv, CollectInv, ToleratesFailures
<1>6. AloneInv
  BY DEF AloneInv, OwnFiles, Running, LastSuccessUsable
<1> QED BY <1>2, <1>3, <1>4, <1>5, <1>6 DEF ClientInv

-----------------------------------------------------------------------------
(* encrypt.                                                                *)

\* Decryptions see nothing of an encryption's step but for their files.
LEMMA DecryptsUndisturbed ==
  ASSUME ClientInv, NEW e \in Encrypts, UNCHANGED decVars,
         NEW point, cpc' = [cpc EXCEPT ![e] = point],
         \A d \in Decrypts : next'[d] = next[d],
         args' = args \/ cpc[e] = "idle",
         \A f \in Encrypts \ {e} : args'[f] = args[f]
  PROVE  CollectInv' /\ ToleratesFailures'
<1>1. \A d \in Decrypts : cpc'[d] = cpc[d]
  BY CommandKinds DEF ClientInv, VarTypes
<1>2. CollectInv'
  BY <1>1 DEF ClientInv, CollectInv, decVars
<1>3. ASSUME NEW d \in Decrypts, cpc[d] \in {"insufficient", "mismatch"}
      PROVE  Meta(d)' = Meta(d) /\ Threshold(d)' = Threshold(d)
             /\ args'[Meta(d)] = args[Meta(d)]
  <2>1. Meta(d)' = Meta(d)
    BY DEF decVars, Meta
  <2>2. Meta(d) \in Encrypts /\ cpc[Meta(d)] # "idle"
    BY <1>3, MetaKind DEF ClientInv, CollectInv, MadeInv, Made, Ended
  <2>3. args'[Meta(d)] = args[Meta(d)]
    BY <2>2
  <2> QED BY <2>1, <2>3 DEF Threshold
<1>4. ToleratesFailures'
  BY <1>1, <1>3 DEF ClientInv, ToleratesFailures, decVars
<1> QED BY <1>2, <1>4

\* An encryption that goes on or gives up without sending disturbs nothing but
\* the files.
LEMMA QuietStep ==
  ASSUME ClientInv, NEW e \in Encrypts, NEW point \in Points,
         cpc' = [cpc EXCEPT ![e] = point],
         cpc[e] \notin {"idle"} \cup Ended,
         \/ point = "failed"
         \/ cpc[e] = "write" /\ point = "fill"
         \/ cpc[e] = "fill" /\ point = "send" /\ SplitOK(args[e].n, args[e].t)
         \/ cpc[e] = "send" /\ point = "save" /\ next[e] > args[e].n,
         encFile' \subseteq Encrypts \cup Torn, metaFile' \in {metaFile, {}},
         lastGood' \subseteq Encrypts,
         UNCHANGED <<held, next, args, overlapped, decVars>>
  PROVE  ClientInv'
<1> USE CommandKinds
<1>1. VarTypes'
  BY DEF ClientInv, VarTypes, decVars
<1>2. LoopInv'
  BY DEF ClientInv, VarTypes, LoopInv
<1>3. PlacedInv'
  BY DEF ClientInv, VarTypes, PlacedInv
<1>4. MadeInv'
  BY DEF ClientInv, VarTypes, MadeInv, Made, decVars
<1>5. CollectInv' /\ ToleratesFailures'
  BY DecryptsUndisturbed
<1> QED BY <1>1, <1>2, <1>3, <1>4, <1>5 DEF ClientInv

LEMMA StartStep ==
  ASSUME ClientInv, NEW e \in Encrypts, EncryptStart(e)
  PROVE  ClientInv'
<1> USE CommandKinds
<1> PICK ns \in NodeLists, s \in Splits :
      /\ args' = [args EXCEPT ![e] = [nodes |-> ns, n |-> s[1], t |-> s[2]]]
      /\ IF Len(ns) < s[1] THEN Fail(e)
         ELSE cpc' = [cpc EXCEPT ![e] = "write"] /\ UNCHANGED lastGood
  BY DEF EncryptStart
<1> DEFINE a == [nodes |-> ns, n |-> s[1], t |-> s[2]]
<1>0. a \in ArgsType /\ a.n \in Nat /\ Len(a.nodes) \in Nat
  BY SplitsAssumption, NodeListsAssumption DEF ArgsType
<1>1. PICK point \in {"failed", "write"} :
        /\ cpc' = [cpc EXCEPT ![e] = point]
        /\ point = "write" => a.n <= Len(a.nodes)
        /\ lastGood' \subseteq Encrypts
  BY <1>0 DEF Fail, ClientInv, VarTypes
<1>2. /\ cpc[e] = "idle" /\ overlapped' \subseteq Encrypts
      /\ UNCHANGED <<encFile, metaFile, held, next, decVars>>
  BY DEF EncryptStart, fileVars, ClientInv, VarTypes
<1>3. next[e] = 1
  BY <1>2 DEF ClientInv, LoopInv
<1>4. VarTypes'
  BY <1>0, <1>1, <1>2 DEF ClientInv, VarTypes, decVars, Points, Ended
<1>5. LoopInv'
  BY <1>0, <1>1, <1>2, <1>3 DEF ClientInv, VarTypes, LoopInv
<1>6. PlacedInv'
  BY <1>0, <1>1, <1>2, <1>3 DEF ClientInv, VarTypes, PlacedInv
<1>7. MadeInv'
  BY <1>1, <1>2 DEF ClientInv, VarTypes, MadeInv, Made, decVars, Ended
<1>8. CollectInv' /\ ToleratesFailures'
  BY <1>1, <1>2, DecryptsUndisturbed DEF ClientInv, VarTypes
<1> QED BY <1>4, <1>5, <1>6, <1>7, <1>8 DEF ClientInv

\* The node the loop has come to is one of Nodes.
LEMMA TargetKind ==
  ASSUME ClientInv, NEW e \in Encrypts, Sending(e)
  PROVE  /\ Target(e) \in Nodes /\ next[e] \in 1..args[e].n
         /\ args[e].nodes \in Seq(Nodes) /\ args[e].n \in Nat
         /\ args[e].n <= Len(args[e].nodes)
<1>1. args[e] \in ArgsType /\ next[e] \in Nat \ {0}
  BY CommandKinds DEF ClientInv, VarTypes
<1>2. args[e].nodes \in Seq(Nodes) /\ args[e].n \in Nat
  BY <1>1, ArgsKinds
<1> QED BY <1>1, <1>2 DEF Sending, Target, ClientInv, LoopInv

\* A share is placed at a node that holds none of that object, and the
\* encryption goes on or, for want of a reply, gives up.
LEMMA SendStep ==
  ASSUME ClientInv, NEW e \in Encrypts, SendShare(e) \/ SendReplyLost(e)
  PROVE  ClientInv'
<1> USE CommandKinds
<1> DEFINE N == Target(e)
<1>0. /\ Sending(e) /\ cpc[e] = "send" /\ e \notin DOMAIN held[N]
      /\ held' = [held EXCEPT ![N] = Put(held[N], e, next[e])]
      /\ UNCHANGED <<encFile, metaFile, args, overlapped, decVars>>
      /\ lastGood' \subseteq Encrypts
  BY DEF SendShare, SendReplyLost, NodeTakes, Sending, fileVars, encVars, Fail,
         ClientInv, VarTypes
<1>1. /\ N \in Nodes /\ next[e] \in 1..args[e].n /\ args[e].n \in Nat
      /\ args[e].n <= Len(args[e].nodes) /\ args[e].nodes \in Seq(Nodes)
  BY <1>0, TargetKind
<1>2. PICK point \in {"send", "failed"} :
        /\ cpc' = [cpc EXCEPT ![e] = point]
        /\ \/ next' = [next EXCEPT ![e] = next[e] + 1]
           \/ next' = next
  BY <1>0 DEF SendShare, SendReplyLost, Fail, ClientInv, VarTypes
<1>n. next' \in [Commands -> Nat \ {0}] /\ \A d \in Decrypts : next'[d] = next[d]
  <2>1. next \in [Commands -> Nat \ {0}] /\ next[e] + 1 \in Nat \ {0}
    BY DEF ClientInv, VarTypes
  <2>2. CASE next' = [next EXCEPT ![e] = next[e] + 1]
    BY <2>1, <2>2
  <2>3. CASE next' = next
    BY <2>1, <2>3
  <2> QED BY <1>2, <2>2, <2>3
<1> HIDE DEF N
<1>3. /\ DOMAIN held'[N] = DOMAIN held[N] \cup {e} /\ held'[N][e] = next[e]
      /\ \A f \in DOMAIN held[N] : held'[N][f] = held[N][f]
      /\ \A d \in Nodes \ {N} : held'[d] = held[d]
      /\ held' = [d \in Nodes |-> held'[d]]
  BY <1>0, <1>1 DEF Put, ClientInv, VarTypes
<1>4. VarTypes'
  BY <1>0, <1>1, <1>2, <1>n, <1>3 DEF ClientInv, VarTypes, decVars, Points, Ended
<1>5. LoopInv'
  BY <1>0, <1>1, <1>2 DEF ClientInv, VarTypes, LoopInv
<1>6. PlacedInv'
  <2>1. ASSUME NEW f \in Encrypts, NEW i \in 1..next'[f] - 1
        PROVE  f \in DOMAIN held'[args[f].nodes[i]] /\ held'[args[f].nodes[i]][f] = i
    <3>1. CASE f = e /\ i = next[e]
      BY <1>1, <1>3, <3>1 DEF N, Target
    <3>2. CASE f # e \/ i # next[e]
      <4>1. i \in 1..next[f] - 1
        BY <1>1, <1>2, <3>2 DEF ClientInv, VarTypes
      <4>2. args[f] \in ArgsType /\ i <= Len(args[f].nodes) /\ next[f] \in Nat
        BY <4>1 DEF ClientInv, VarTypes, LoopInv
      <4>3. args[f].nodes[i] \in Nodes
        BY <4>1, <4>2, ArgsKinds
      <4>4. f \in DOMAIN held[args[f].nodes[i]] /\ held[args[f].nodes[i]][f] = i
        BY <4>1 DEF ClientInv, PlacedInv
      <4> QED BY <1>0, <1>3, <4>3, <4>4
    <3> QED BY <3>1, <3>2
  <2>2. ASSUME NEW d \in Nodes, NEW f \in DOMAIN held'[d]
        PROVE  held'[d][f] \in 1..args[f].n /\ cpc'[f] \notin {"idle", "write", "fill"}
    BY <1>0, <1>1, <1>2, <1>3 DEF ClientInv, VarTypes, PlacedInv
  <2> QED BY <1>0, <2>1, <2>2 DEF PlacedInv
<1>7. MadeInv'
  BY <1>0, <1>2 DEF ClientInv, VarTypes, MadeInv, Made, decVars, Ended
<1>8. CollectInv' /\ ToleratesFailures'
  BY <1>0, <1>2, <1>n, DecryptsUndisturbed
<1> QED BY <1>4, <1>5, <1>6, <1>7, <1>8 DEF ClientInv

LEMMA SaveStep ==
  ASSUME ClientInv, NEW e \in Encrypts, EncryptSaveMeta(e)
  PROVE  ClientInv'
<1> USE CommandKinds
<1>1. PICK point \in {"done", "failed"} :
        /\ cpc' = [cpc EXCEPT ![e] = point] /\ lastGood' \subseteq Encrypts
        /\ metaFile' \in {{e}, metaFile, {}}
  BY DEF EncryptSaveMeta, Succeed, Fail
<1>2. /\ cpc[e] = "save"
      /\ UNCHANGED <<encFile, held, next, args, overlapped, decVars>>
  BY DEF EncryptSaveMeta, encVars
<1>3. VarTypes'
  BY <1>1, <1>2 DEF ClientInv, VarTypes, decVars, Points, Ended
<1>4. LoopInv' /\ PlacedInv'
  BY <1>1, <1>2 DEF ClientInv, VarTypes, LoopInv, PlacedInv
<1>5. MadeInv'
  BY <1>1, <1>2 DEF ClientInv, VarTypes, LoopInv, MadeInv, Made, decVars, Ended
<1>6. CollectInv' /\ ToleratesFailures'
  BY <1>1, <1>2, DecryptsUndisturbed
<1> QED BY <1>3, <1>4, <1>5, <1>6 DEF ClientInv

LEMMA EncryptStep ==
  ASSUME ClientInv, NEW e \in Encrypts, Encrypt(e)
  PROVE  ClientInv'
<1>1. CASE EncryptTruncate(e) \/ EncryptTruncateMeta(e)
  BY <1>1, QuietStep
     DEF EncryptTruncate, EncryptTruncateMeta, Points, Ended, encVars, ClientInv,
         VarTypes
<1>2. CASE EncryptWrite(e)
  BY <1>2, QuietStep
     DEF EncryptWrite, Fail, Points, Ended, encVars, ClientInv, VarTypes
<1>3. CASE EncryptWriteFails(e) \/ SendRefused(e) \/ EncryptInterrupted(e)
  BY <1>3, QuietStep
     DEF EncryptWriteFails, SendRefused, Sending, EncryptInterrupted, Running, Fail,
         Points, Ended, fileVars, encVars, ClientInv, VarTypes
<1> QED BY <1>1, <1>2, <1>3, StartStep, SendStep, SaveStep DEF Encrypt

-----------------------------------------------------------------------------
(* decrypt.                                                                *)

\* Encryptions see nothing of a decryption.
LEMMA EncryptsUndisturbed ==
  ASSUME ClientInv, NEW d \in Decrypts,
         UNCHANGED <<metaFile, held, args>>,
         \A e \in Encrypts : cpc'[e] = cpc[e] /\ next'[e] = next[e],
         \A f \in Decrypts : readMeta'[f] \subseteq readMeta[f] \cup metaFile
  PROVE  LoopInv' /\ PlacedInv' /\ MadeInv'
<1>1. LoopInv'
  BY DEF ClientInv, LoopInv
<1>2. PlacedInv'
  BY DEF ClientInv, VarTypes, PlacedInv
<1>3. MadeInv'
  BY DEF ClientInv, VarTypes, MadeInv, Made
<1> QED BY <1>1, <1>2, <1>3

LEMMA ReadStep ==
  ASSUME ClientInv, NEW d \in Decrypts, DecryptReadFile(d) \/ DecryptReadMeta(d)
  PROVE  ClientInv'
<1> USE CommandKinds
<1>1. PICK point \in {"failed", "meta", "collect"} :
        /\ cpc' = [cpc EXCEPT ![d] = point]
        /\ point = "collect" => readMeta'[d] # {}
  BY DEF DecryptReadFile, DecryptReadMeta, End, ClientInv, VarTypes
<1>2. /\ readEnc' \in [Decrypts -> SUBSET (Encrypts \cup Torn)]
      /\ readMeta' \in [Decrypts -> SUBSET Encrypts]
      /\ \A f \in Decrypts : readMeta'[f] \subseteq readMeta[f] \cup metaFile
      /\ \A f \in Decrypts \ {d} : readMeta'[f] = readMeta[f] /\ readEnc'[f] = readEnc[f]
      /\ UNCHANGED <<encFile, metaFile, held, next, args, overlapped, collected,
                     refusals, lastGood>>
  BY DEF DecryptReadFile, DecryptReadMeta, ClientInv, VarTypes, fileVars, encVars
<1>3. VarTypes'
  BY <1>1, <1>2 DEF ClientInv, VarTypes, Points, Ended
<1>4. LoopInv' /\ PlacedInv' /\ MadeInv'
  BY <1>1, <1>2, EncryptsUndisturbed DEF ClientInv, VarTypes
<1>5. CollectInv'
  BY <1>1, <1>2 DEF ClientInv, VarTypes, CollectInv
<1>6. ToleratesFailures'
  BY <1>1, <1>2 DEF ClientInv, VarTypes, ToleratesFailures, Meta, Threshold
<1> QED BY <1>3, <1>4, <1>5, <1>6 DEF ClientInv

\* What the next node of a decryption holds is the share of that number.
LEMMA NextShare ==
  ASSUME ClientInv, NEW d \in Decrypts, Asking(d)
  PROVE  LET e == Meta(d) IN
           /\ e \in Encrypts /\ e \in readMeta[d]
           /\ next[d] \in 1..args[e].n /\ held[args[e].nodes[next[d]]][e] = next[d]
<1> DEFINE e == Meta(d)
<1>1. e \in Encrypts /\ e \in readMeta[d] /\ Made(e)
  BY MetaKind DEF Asking, ClientInv, CollectInv, MadeInv
<1>2. next[d] \in Nat \ {0} /\ next[e] \in Nat /\ args[e].n \in Nat
  BY <1>1, CommandKinds DEF ClientInv, VarTypes, ArgsType
<1>3. next[d] \in 1..args[e].n /\ next[d] \in 1..next[e] - 1
  BY <1>1, <1>2 DEF Asking, Made
<1> QED BY <1>1, <1>3 DEF ClientInv, PlacedInv

LEMMA CollectStep ==
  ASSUME ClientInv, NEW d \in Decrypts, DecryptCollect(d) \/ DecryptWarn(d)
  PROVE  ClientInv'
<1> USE CommandKinds
<1>0. Asking(d) /\ cpc[d] = "collect"
  BY DEF DecryptCollect, DecryptWarn, Asking
<1>1. /\ next' = [next EXCEPT ![d] = next[d] + 1] /\ next[d] \in Nat \ {0}
      /\ UNCHANGED <<encFile, metaFile, held, cpc, args, overlapped, readEnc, readMeta,
                     lastGood>>
  BY DEF DecryptCollect, DecryptWarn, fileVars, encVars, ClientInv, VarTypes
<1>2. \/ /\ collected' = [collected EXCEPT ![d] = Append(collected[d], next[d])]
         /\ refusals' = refusals
      \/ /\ collected' = collected
         /\ refusals' = [refusals EXCEPT ![d] = refusals[d] + 1]
  BY <1>0, NextShare DEF DecryptCollect, DecryptWarn, ClientInv, VarTypes
<1>t. collected \in [Decrypts -> Seq(Nat)] /\ refusals \in [Decrypts -> Nat]
  BY DEF ClientInv, VarTypes
<1>a. collected[d] \in Seq(Nat) /\ refusals[d] \in Nat
  BY <1>t
<1>b. Append(collected[d], next[d]) \in Seq(Nat) /\ refusals[d] + 1 \in Nat
  BY <1>1, <1>a
<1>c. collected' \in [Decrypts -> Seq(Nat)] /\ refusals' \in [Decrypts -> Nat]
  <2>1. CASE collected' = [collected EXCEPT ![d] = Append(collected[d], next[d])]
             /\ refusals' = refusals
    BY <1>t, <1>b, <2>1
  <2>2. CASE collected' = collected /\ refusals' = [refusals EXCEPT ![d] = refusals[d] + 1]
    BY <1>t, <1>b, <2>2
  <2> QED BY <1>2, <2>1, <2>2
<1>d. next' \in [Commands -> Nat \ {0}]
  <2>1. next \in [Commands -> Nat \ {0}] /\ next[d] + 1 \in Nat \ {0}
    BY <1>1 DEF ClientInv, VarTypes
  <2> QED BY <1>1, <2>1
<1>3. /\ collected[d] \in Seq(Nat) /\ refusals[d] \in Nat
      /\ collected'[d] \in Seq(Nat) /\ refusals'[d] \in Nat
      /\ \A f \in Decrypts \ {d} : collected'[f] = collected[f] /\ refusals'[f] = refusals[f]
  BY <1>t, <1>a, <1>c, <1>2
<1>4. VarTypes'
  BY <1>1, <1>c, <1>d DEF ClientInv, VarTypes
<1>5. LoopInv' /\ PlacedInv' /\ MadeInv'
  BY <1>1, EncryptsUndisturbed DEF ClientInv, VarTypes
<1>6. CollectInv'
  <2>1. ASSUME NEW f \in Decrypts, f # d
        PROVE  collected'[f] = collected[f] /\ refusals'[f] = refusals[f]
               /\ next'[f] = next[f]
    BY <1>1, <1>3, <2>1 DEF ClientInv, VarTypes
  <2>2. next'[d] = next[d] + 1 /\ next[d] = Len(collected[d]) + refusals[d] + 1
    BY <1>1 DEF ClientInv, VarTypes, CollectInv
  <2>3. CASE collected' = [collected EXCEPT ![d] = Append(collected[d], next[d])]
             /\ refusals' = refusals
    <3>1. collected'[d] = Append(collected[d], next[d])
      BY <2>3 DEF ClientInv, VarTypes
    <3>2. /\ Len(collected'[d]) = Len(collected[d]) + 1
          /\ \A k \in DOMAIN collected'[d] :
               \/ k = Len(collected[d]) + 1 /\ collected'[d][k] = next[d]
               \/ k \in DOMAIN collected[d] /\ collected'[d][k] = collected[d][k]
      BY <1>1, <1>3, <3>1
    <3>3. \A k \in DOMAIN collected[d] : collected[d][k] \in Nat /\ collected[d][k] < next[d]
      BY <1>3 DEF ClientInv, CollectInv
    <3>4. \A k \in DOMAIN collected'[d] : collected'[d][k] < next'[d]
      BY <1>1, <2>2, <3>2, <3>3
    <3>5. \A k, l \in DOMAIN collected'[d] :
            collected'[d][k] = collected'[d][l] => k = l
      BY <1>1, <3>2, <3>3 DEF ClientInv, CollectInv
    <3>6. next'[d] = Len(collected'[d]) + refusals'[d] + 1
      BY <1>3, <2>2, <2>3, <3>2
    <3> QED BY <1>1, <2>1, <3>4, <3>5, <3>6 DEF ClientInv, CollectInv
  <2>4. CASE collected' = collected /\ refusals' = [refusals EXCEPT ![d] = refusals[d] + 1]
    <3>1. refusals'[d] = refusals[d] + 1
      BY <2>4 DEF ClientInv, VarTypes
    <3>2. \A k \in DOMAIN collected[d] : collected[d][k] \in Nat
      BY <1>3
    <3> QED BY <1>1, <1>3, <2>1, <2>2, <2>4, <3>1, <3>2 DEF ClientInv, CollectInv
  <2> QED BY <1>2, <2>3, <2>4
<1>7. ToleratesFailures'
  BY <1>0, <1>1, <1>3 DEF ClientInv, VarTypes, ToleratesFailures, Meta, Threshold
<1> QED BY <1>4, <1>5, <1>6, <1>7 DEF ClientInv

\* Distinct shares are as many as the sequence of them is long.
LEMMA DistinctCount ==
  ASSUME NEW s \in Seq(Nat), \A k, l \in DOMAIN s : s[k] = s[l] => k = l
  PROVE  Cardinality({s[i] : i \in DOMAIN s}) = Len(s)
<1> DEFINE S == {s[i] : i \in DOMAIN s}
<1>1. DOMAIN s = 1..Len(s) /\ Len(s) \in Nat
  OBVIOUS
<1>2. s \in [1..Len(s) -> S]
  BY <1>1
<1>3. s \in Bijection(1..Len(s), S)
  BY <1>1, <1>2 DEF Bijection, Injection, Surjection, IsInjective
<1>4. ExistsBijection(1..Len(s), S)
  BY <1>3 DEF ExistsBijection
<1> QED BY <1>1, <1>4, FS_CountingElements

\* The decryption ends: if with too few shares, too many nodes refused it; if
\* with enough, they give the key.
LEMMA FinishStep ==
  ASSUME ClientInv, NEW d \in Decrypts, DecryptFinish(d)
  PROVE  ClientInv'
<1> USE CommandKinds
<1> DEFINE e == Meta(d)
<1>1. PICK point \in {"insufficient", "mismatch", "done", "failed"} :
        /\ cpc' = [cpc EXCEPT ![d] = point]
        /\ point = "insufficient" => ~Enough(d)
        /\ point = "mismatch" => Enough(d) /\ CombinesTo(d) # readEnc[d]
  BY DEF DecryptFinish, End
<1>2. /\ cpc[d] = "collect" /\ ~Asking(d)
      /\ UNCHANGED <<encFile, metaFile, held, next, args, overlapped, decVars, lastGood>>
  BY DEF DecryptFinish, fileVars, encVars
<1>3. VarTypes'
  BY <1>1, <1>2 DEF ClientInv, VarTypes, Points, Ended, decVars
<1>4. LoopInv' /\ PlacedInv' /\ MadeInv'
  BY <1>1, <1>2, EncryptsUndisturbed DEF ClientInv, VarTypes, decVars
<1>5. CollectInv'
  BY <1>1, <1>2 DEF ClientInv, VarTypes, CollectInv, decVars
<1>6. /\ e \in Encrypts /\ args[e].n \in Nat /\ args[e].t \in Nat
      /\ collected[d] \in Seq(Nat) /\ refusals[d] \in Nat
      /\ next[d] = Len(collected[d]) + refusals[d] + 1
  BY <1>2, MetaKind DEF ClientInv, VarTypes, CollectInv, ArgsType
<1>7. CASE point = "insufficient"
  <2>1. next[d] > args[e].n /\ Len(collected[d]) < args[e].t
    BY <1>1, <1>2, <1>6, <1>7 DEF Asking, Enough, Threshold
  <2>2. refusals[d] > args[e].n - Threshold(d)
    BY <1>6, <2>1 DEF Threshold
  <2>3. ToleratesFailures'
    BY <1>1, <1>2, <2>2 DEF ClientInv, VarTypes, ToleratesFailures, Meta, Threshold, decVars
  <2> QED BY <1>3, <1>4, <1>5, <2>3 DEF ClientInv
<1>8. CASE point = "mismatch"
  <2>1. Cardinality({collected[d][i] : i \in DOMAIN collected[d]}) = Len(collected[d])
    BY <1>6, DistinctCount DEF ClientInv, CollectInv
  <2>2. CombinesTo(d) = readMeta[d]
    BY <1>1, <1>8, <2>1 DEF CombinesTo, Enough
  <2>3. ToleratesFailures'
    BY <1>1, <1>2, <1>8, <2>2
       DEF ClientInv, VarTypes, ToleratesFailures, Meta, Threshold, decVars
  <2> QED BY <1>3, <1>4, <1>5, <2>3 DEF ClientInv
<1>9. CASE point \in {"done", "failed"}
  <2>1. ToleratesFailures'
    BY <1>1, <1>2, <1>9 DEF ClientInv, VarTypes, ToleratesFailures, Meta, Threshold, decVars
  <2> QED BY <1>3, <1>4, <1>5, <2>1 DEF ClientInv
<1> QED BY <1>7, <1>8, <1>9

-----------------------------------------------------------------------------
(* Encryptions that overlap no other.                                      *)

\* A step that leaves the encryptions' positions and the two files alone.
LEMMA AloneKept ==
  ASSUME AloneInv, \A e \in Encrypts : cpc'[e] = cpc[e],
         UNCHANGED <<encFile, metaFile, overlapped, lastGood>>
  PROVE  AloneInv'
  BY DEF AloneInv, OwnFiles, Running, LastSuccessUsable

\* An encryption that ends without SUCCESS: who runs can only become fewer.
LEMMA AloneEnds ==
  ASSUME ClientInv, AloneInv, NEW e \in Encrypts, NEW point \in Ended,
         cpc' = [cpc EXCEPT ![e] = point], lastGood' = {},
         overlapped \subseteq overlapped',
         UNCHANGED <<encFile, metaFile>> \/ Running(e)
  PROVE  AloneInv'
<1> USE CommandKinds
<1>1. \A f \in Encrypts : cpc'[f] = IF f = e THEN point ELSE cpc[f]
  BY DEF ClientInv, VarTypes
<1>2. \A f \in Encrypts : Running(f)' => f # e /\ Running(f)
  BY <1>1 DEF Running
<1>3. \A f \in Encrypts \ overlapped' : Running(f)' => \A g \in Encrypts \ {f} : ~Running(g)'
  BY <1>2 DEF AloneInv
<1>4. ASSUME NEW f \in Encrypts \ overlapped' PROVE OwnFiles(f)'
  <2>1. CASE Running(f)'
    <3>1. UNCHANGED <<encFile, metaFile>>
      BY <1>2, <2>1 DEF AloneInv
    <3>2. OwnFiles(f) /\ cpc'[f] = cpc[f]
      BY <1>1, <1>2, <2>1 DEF AloneInv
    <3> QED BY <3>1, <3>2 DEF OwnFiles
  <2>2. CASE ~Running(f)'
    BY <2>2 DEF Running, Ended, OwnFiles
  <2> QED BY <2>1, <2>2
<1> QED BY <1>3, <1>4 DEF AloneInv, LastSuccessUsable

\* One that starts makes overlapped of all that run, itself included.
LEMMA AloneStart ==
  ASSUME ClientInv, AloneInv, NEW e \in Encrypts, EncryptStart(e)
  PROVE  AloneInv'
<1> USE CommandKinds
<1> DEFINE others == {f \in Encrypts : Running(f)}
<1>1. /\ cpc[e] = "idle"
      /\ overlapped' = overlapped \cup others \cup (IF others = {} THEN {} ELSE {e})
      /\ UNCHANGED <<encFile, metaFile>>
      /\ \/ cpc' = [cpc EXCEPT ![e] = "failed"] /\ lastGood' = {}
         \/ cpc' = [cpc EXCEPT ![e] = "write"] /\ lastGood' = lastGood
  BY DEF EncryptStart, Fail, fileVars
<1>2. CASE cpc' = [cpc EXCEPT ![e] = "failed"] /\ lastGood' = {}
  BY <1>1, <1>2, AloneEnds DEF Ended
<1>3. CASE cpc' = [cpc EXCEPT ![e] = "write"] /\ lastGood' = lastGood
  <2>1. \A f \in Encrypts : cpc'[f] = IF f = e THEN "write" ELSE cpc[f]
    BY <1>3 DEF ClientInv, VarTypes
  <2>2. Running(e)' /\ \A f \in Encrypts \ {e} : Running(f)' <=> Running(f)
    BY <2>1 DEF Running, Ended
  <2>3. \A f \in Encrypts \ overlapped' : Running(f)' => f = e /\ others = {}
    BY <1>1, <2>2
  <2>4. \A f \in Encrypts \ overlapped' : Running(f)' =>
          \A g \in Encrypts \ {f} : ~Running(g)'
    BY <2>2, <2>3
  <2>5. \A f \in Encrypts \ overlapped' : cpc'[f] \notin {"fill", "send", "save"}
    BY <2>1, <2>3 DEF Running, Ended
  <2> QED BY <2>2, <2>4, <2>5 DEF AloneInv, OwnFiles, LastSuccessUsable
<1> QED BY <1>1, <1>2, <1>3

\* One that goes on from one file operation to the next still runs, alone or
\* not.
LEMMA AloneGoesOn ==
  ASSUME ClientInv, AloneInv, NEW e \in Encrypts, Running(e),
         NEW point \in {"fill", "send", "save"},
         cpc' = [cpc EXCEPT ![e] = point], overlapped' = overlapped,
         e \notin overlapped => OwnFiles(e)'
  PROVE  AloneInv'
<1> USE CommandKinds
<1>1. \A f \in Encrypts : cpc'[f] = IF f = e THEN point ELSE cpc[f]
  BY DEF ClientInv, VarTypes
<1>2. \A f \in Encrypts : Running(f)' <=> Running(f)
  BY <1>1 DEF Running, Ended
<1>3. \A f \in Encrypts \ overlapped : Running(f) => \A g \in Encrypts \ {f} : ~Running(g)
  BY DEF AloneInv
<1>4. ASSUME NEW f \in Encrypts \ overlapped PROVE OwnFiles(f)'
  <2>1. CASE f = e
    BY <2>1
  <2>2. CASE f # e
    <3>1. ~Running(f)'
      BY <1>2, <1>3, <2>2
    <3> QED BY <3>1 DEF Running, Ended, OwnFiles
  <2> QED BY <2>1, <2>2
<1> QED BY <1>2, <1>3, <1>4 DEF AloneInv, LastSuccessUsable

\* SUCCESS: if it met no other, both files are its own.
LEMMA AloneSaved ==
  ASSUME ClientInv, AloneInv, NEW e \in Encrypts, EncryptSaveMeta(e)
  PROVE  AloneInv'
<1> USE CommandKinds
<1>1. cpc[e] = "save" /\ Running(e) /\ UNCHANGED <<encFile, overlapped>>
  BY DEF EncryptSaveMeta, encVars, Running, Ended
<1>2. CASE Fail(e)
  BY <1>1, <1>2, AloneEnds DEF Fail, Ended
<1>3. CASE Succeed(e) /\ (metaFile' = {e} \/ metaFile # {})
  <2>1. cpc' = [cpc EXCEPT ![e] = "done"] /\ lastGood' = {e}
    BY <1>3 DEF Succeed
  <2>2. \A f \in Encrypts : cpc'[f] = IF f = e THEN "done" ELSE cpc[f]
    BY <2>1 DEF ClientInv, VarTypes
  <2>3. \A f \in Encrypts : Running(f)' => f # e /\ Running(f)
    BY <2>2 DEF Running, Ended
  <2>4. \A f \in Encrypts \ overlapped : ~Running(f)'
    BY <1>1, <2>3 DEF AloneInv
  <2>5. \A f \in Encrypts \ overlapped : OwnFiles(f)'
    BY <1>1, <2>4 DEF Running, Ended, OwnFiles
  <2>6. LastSuccessUsable'
    BY <1>1, <1>3, <2>1 DEF AloneInv, OwnFiles, LastSuccessUsable
  <2> QED BY <1>1, <2>4, <2>5, <2>6 DEF AloneInv
<1> QED BY <1>2, <1>3 DEF EncryptSaveMeta

LEMMA AloneNext == ClientInv /\ AloneInv /\ [Next]_vars => AloneInv'
<1> SUFFICES ASSUME ClientInv, AloneInv, [Next]_vars PROVE AloneInv'
  OBVIOUS
<1> USE CommandKinds
<1>1. ASSUME NEW e \in Encrypts, Encrypt(e) PROVE AloneInv'
  <2>1. CASE EncryptWrite(e)
    <3>1. /\ cpc[e] = "fill" /\ UNCHANGED <<metaFile, overlapped>>
          /\ encFile = {} => encFile' = {e}
      BY <2>1 DEF EncryptWrite, encVars
    <3>2. Running(e)
      BY <3>1 DEF Running, Ended
    <3>3. CASE cpc' = [cpc EXCEPT ![e] = "send"]
      <4>1. cpc'[e] = "send"
        BY <3>3 DEF ClientInv, VarTypes
      <4>2. e \notin overlapped => OwnFiles(e)'
        BY <3>1, <4>1 DEF AloneInv, OwnFiles
      <4> QED BY <3>1, <3>2, <3>3, <4>2, AloneGoesOn
    <3>4. CASE Fail(e)
      BY <3>1, <3>2, <3>4, AloneEnds DEF Fail, Ended
    <3> QED BY <2>1, <3>3, <3>4 DEF EncryptWrite
  <2>2. CASE EncryptTruncate(e) \/ EncryptTruncateMeta(e)
    <3>1. PICK point \in {"fill", "save"} : cpc' = [cpc EXCEPT ![e] = point]
      BY <2>2 DEF EncryptTruncate, EncryptTruncateMeta
    <3>2. /\ Running(e) /\ UNCHANGED overlapped /\ cpc'[e] = point
          /\ point = "fill" => encFile' = {}
          /\ point = "save" => cpc[e] = "send" /\ encFile' = encFile /\ metaFile' = {}
      BY <2>2, <3>1
         DEF EncryptTruncate, EncryptTruncateMeta, encVars, Running, Ended, ClientInv, VarTypes
    <3>3. e \notin overlapped => OwnFiles(e)'
      BY <3>2 DEF AloneInv, OwnFiles
    <3> QED BY <3>1, <3>2, <3>3, AloneGoesOn
  <2>3. CASE EncryptWriteFails(e)
    <3>1. Running(e) /\ Fail(e) /\ UNCHANGED overlapped
      BY <2>3 DEF EncryptWriteFails, encVars, Running, Ended
    <3> QED BY <3>1, AloneEnds DEF Fail, Ended
  <2>4. CASE SendRefused(e) \/ SendReplyLost(e) \/ EncryptInterrupted(e)
    <3>1. Fail(e) /\ UNCHANGED <<encFile, metaFile, overlapped>>
      BY <2>4 DEF SendRefused, SendReplyLost, EncryptInterrupted, encVars, fileVars
    <3> QED BY <3>1, AloneEnds DEF Fail, Ended
  <2>5. CASE SendShare(e)
    BY <2>5, AloneKept DEF SendShare, fileVars
  <2> QED BY <1>1, <2>1, <2>2, <2>3, <2>4, <2>5, AloneStart, AloneSaved
      DEF Encrypt
<1>2. ASSUME NEW d \in Decrypts, Decrypt(d) PROVE AloneInv'
  <2>1. UNCHANGED <<encFile, metaFile, overlapped, lastGood>>
    BY <1>2 DEF Decrypt, DecryptReadFile, DecryptReadMeta, DecryptCollect, DecryptWarn,
       DecryptFinish, fileVars, encVars
  <2>2. cpc' = cpc \/ \E point \in Points : cpc' = [cpc EXCEPT ![d] = point]
    BY <1>2 DEF Decrypt, DecryptReadFile, DecryptReadMeta, DecryptCollect, DecryptWarn,
       DecryptFinish, End, Points, Ended
  <2>3. \A e \in Encrypts : cpc'[e] = cpc[e]
    BY <2>2 DEF ClientInv, VarTypes
  <2> QED BY <2>1, <2>3, AloneKept
<1>3. CASE UNCHANGED vars
  BY <1>3, AloneKept DEF vars, fileVars, encVars
<1> QED BY <1>1, <1>2, <1>3 DEF Next

-----------------------------------------------------------------------------
LEMMA ClientNext == ClientInv /\ [Next]_vars => ClientInv'
<1> SUFFICES ASSUME ClientInv, [Next]_vars PROVE ClientInv'
  OBVIOUS
<1>1. ASSUME NEW d \in Decrypts, Decrypt(d) PROVE ClientInv'
  BY <1>1, ReadStep, CollectStep, FinishStep DEF Decrypt
<1>2. CASE UNCHANGED vars
  BY <1>2 DEF vars, fileVars, encVars, decVars, ClientInv, VarTypes, LoopInv,
     PlacedInv, MadeInv, Made, CollectInv, ToleratesFailures, Meta, Threshold
<1> QED BY <1>1, <1>2, EncryptStep DEF Next

LEMMA ClientInvariant == Spec => []ClientInv
<1>1. Init => ClientInv
  BY ClientInit
<1> QED BY <1>1, ClientNext, PTL DEF Spec

\* The client's state keeps its types, and the loops of handleEncrypt and
\* handleDecrypt stay within their lists.
THEOREM TypeCorrect == Spec => []TypeOK
<1>1. ClientInv => TypeOK
  BY CommandKinds DEF ClientInv, VarTypes, ArgsType, LoopInv, PlacedInv, CollectInv, TypeOK
<1> QED BY <1>1, ClientInvariant, PTL

\* Metadata names n distinct nodes, each of which holds its share, whatever
\* failed, was killed or ran at the same time (handleEncrypt).
THEOREM MetadataHonest == Spec => []MetaMeansDistributed
<1>1. ASSUME ClientInv PROVE MetaMeansDistributed
  <2>1. ASSUME NEW e \in metaFile, NEW i \in 1..args[e].n
        PROVE  e \in DOMAIN held[args[e].nodes[i]] /\ held[args[e].nodes[i]][e] = i
    <3>1. e \in Encrypts /\ Made(e) /\ next[e] \in Nat /\ args[e].n \in Nat
      BY <1>1, CommandKinds DEF ClientInv, VarTypes, MadeInv, ArgsType
    <3>2. i \in 1..next[e] - 1
      BY <3>1 DEF Made
    <3> QED BY <1>1, <3>1, <3>2 DEF ClientInv, PlacedInv
  <2> QED BY <2>1 DEF MetaMeansDistributed
<1> QED BY <1>1, ClientInvariant, PTL

\* Of the n nodes any n - t may fail a decryption whose two files belong
\* together, in any order (handleDecrypt).
THEOREM FailuresTolerated == Spec => []ToleratesFailures
<1>1. ClientInv => ToleratesFailures
  BY DEF ClientInv
<1> QED BY <1>1, ClientInvariant, PTL

\* What the last successful encryption left can be decrypted if it overlapped
\* no other, whatever earlier ones had left half done at the same paths.
THEOREM LastSuccessKept == Spec => []LastSuccessUsable
<1>1. AloneInv => LastSuccessUsable
  BY DEF AloneInv
<1> QED BY <1>1, ClientInit, ClientNext, AloneNext, PTL DEF Spec

=============================================================================
