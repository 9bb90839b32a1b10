-------------------------- MODULE ThresholdClient --------------------------
(***************************************************************************)
(* The client's encrypt and decrypt commands (client/main.go): a fresh key *)
(* split with Shamir's scheme over n nodes, and put together again from t  *)
(* of them.  Commands are processes that share the two files they are      *)
(* given, the ciphertext (-out / -file) and the metadata (-meta), and the  *)
(* nodes; a command may be interrupted between any two steps, of which     *)
(* os.WriteFile is two: it empties the file, then fills it.                *)
(*                                                                         *)
(* Keys, ciphertexts and object ids are fresh in every encryption, so they *)
(* are known by the encrypt command e that made them; share i of e's key   *)
(* is the number i in e's place.  A node is seen through its replies: it   *)
(* keeps the first share it is sent for an object (the client never sends  *)
(* X-Overwrite) and may fail any request.                                  *)
(***************************************************************************)
EXTENDS Naturals, Sequences, FiniteSets

CONSTANTS
  Encrypts, Decrypts,  \* the commands
  Nodes,               \* the storage nodes
  NodeLists,           \* the -nodes arguments: sequences of nodes
  Splits               \* the -n and -t arguments: pairs <<n, t>>

ASSUME NodeListsAssumption == NodeLists \subseteq Seq(Nodes)
ASSUME SplitsAssumption == Splits \subseteq Nat \X Nat
ASSUME CommandsAssumption == Encrypts \cap Decrypts = {}
ASSUME TornAssumption == "torn" \notin Encrypts

VARIABLES
  encFile,    \* whose ciphertext the file holds: {e}; {} if empty; or Torn
  metaFile,   \* whose metadata the file holds: {e}, or {} (none, no JSON)
  held,       \* BoltDB of each node: encryption -> the share it keeps
  cpc,        \* where each command is
  args,       \* an encryption's nodes, n and t
  next,       \* the index of the node a command turns to next
  readEnc,    \* a decryption's ciphertext, ...
  readMeta,   \* ... its metadata, ...
  collected,  \* ... the shares it collected, in order, ...
  refusals,   \* ... and how many nodes failed it
  lastGood,   \* history: {e} if e ended last of all encryptions, in success
  overlapped  \* history: encryptions that ran while another one did

fileVars == <<encFile, metaFile>>
encVars == <<args, overlapped>>
decVars == <<readEnc, readMeta, collected, refusals>>
vars == <<fileVars, held, cpc, next, encVars, decVars, lastGood>>

Commands == Encrypts \cup Decrypts
Ended == {"done", "failed", "mismatch", "insufficient"}
Points == {"idle", "write", "fill", "send", "save", "collect", "meta"} \cup Ended
Running(p) == cpc[p] \notin {"idle"} \cup Ended

\* A ciphertext file with a part of a write, or the tail of another command's.
Torn == {"torn"}

NoArgs == [nodes |-> <<>>, n |-> 0, t |-> 0]
Put(f, x, y) == [z \in DOMAIN f \cup {x} |-> IF z = x THEN y ELSE f[z]]

\* Every variable has its type; what a node holds of an encryption is one of
\* the n shares shamir.Split made, and the loops stay within their lists.
TypeOK ==
  /\ encFile \subseteq Encrypts \cup Torn /\ metaFile \subseteq Encrypts
  /\ \A d \in Nodes : /\ DOMAIN held[d] \subseteq Encrypts
                      /\ \A e \in DOMAIN held[d] : held[d][e] \in 1..args[e].n
  /\ cpc \in [Commands -> Points]
  /\ \A e \in Encrypts : args[e].nodes \in NodeLists \cup {<<>>}
  /\ \A e \in Encrypts : next[e] <= args[e].n + 1
  /\ \A d \in Decrypts : Len(collected[d]) + refusals[d] + 1 >= next[d]
  /\ lastGood \subseteq Encrypts /\ overlapped \subseteq Encrypts

Init ==
  /\ encFile = {} /\ metaFile = {}
  /\ held = [d \in Nodes |-> [e \in {} |-> 0]]
  /\ cpc = [p \in Commands |-> "idle"]
  /\ args = [e \in Encrypts |-> NoArgs]
  /\ next = [p \in Commands |-> 1]
  /\ readEnc = [d \in Decrypts |-> {}] /\ readMeta = [d \in Decrypts |-> {}]
  /\ collected = [d \in Decrypts |-> <<>>]
  /\ refusals = [d \in Decrypts |-> 0]
  /\ lastGood = {} /\ overlapped = {}

-----------------------------------------------------------------------------
(* encrypt.                                                                *)

\* shamir.Split(secret, parts, threshold) accepts these.
SplitOK(n, t) == n >= t /\ n <= 255 /\ t >= 2

\* An encryption ends: os.Exit(1), or SUCCESS.
Fail(e) == cpc' = [cpc EXCEPT ![e] = "failed"] /\ lastGood' = {}
Succeed(e) == cpc' = [cpc EXCEPT ![e] = "done"] /\ lastGood' = {e}

\* The arguments are read and the file encrypted in memory.
EncryptStart(e) ==
  /\ cpc[e] = "idle"
  /\ \E ns \in NodeLists, s \in Splits :
       /\ args' = [args EXCEPT ![e] = [nodes |-> ns, n |-> s[1], t |-> s[2]]]
       /\ IF Len(ns) < s[1] THEN Fail(e)
          ELSE cpc' = [cpc EXCEPT ![e] = "write"] /\ UNCHANGED lastGood
  /\ LET others == {f \in Encrypts : Running(f)} IN
       overlapped' = overlapped \cup others
                     \cup (IF others = {} THEN {} ELSE {e})
  /\ UNCHANGED <<fileVars, held, next, decVars>>

\* Mutant: an existing ciphertext file is not truncated.
EncryptTruncateOnce(e) ==
  /\ cpc[e] = "write"
  /\ cpc' = [cpc EXCEPT ![e] = "fill"]
  /\ UNCHANGED <<fileVars, held, next, encVars, decVars, lastGood>>

\* os.WriteFile opens the ciphertext file with O_TRUNC.
EncryptTruncate(e) ==
  /\ cpc[e] = "write"
  /\ encFile' = {}
  /\ cpc' = [cpc EXCEPT ![e] = "fill"]
  /\ UNCHANGED <<metaFile, held, next, encVars, decVars, lastGood>>

\* Its bytes are written over what the file holds by now; only then is the key
\* split.
EncryptWrite(e) ==
  /\ cpc[e] = "fill"
  /\ \/ encFile' = {e}
     \/ encFile # {} /\ encFile' = Torn
  /\ IF SplitOK(args[e].n, args[e].t)
       THEN cpc' = [cpc EXCEPT ![e] = "send"] /\ UNCHANGED lastGood
       ELSE Fail(e)
  /\ UNCHANGED <<metaFile, held, next, encVars, decVars>>

\* The write fails, or the command is killed in it, before the first byte or
\* after some.
EncryptWriteFails(e) ==
  /\ cpc[e] = "fill"
  /\ encFile' \in {encFile, Torn}
  /\ Fail(e)
  /\ UNCHANGED <<metaFile, held, next, encVars, decVars>>

Target(e) == args[e].nodes[next[e]]
Sending(e) == cpc[e] = "send" /\ next[e] <= args[e].n

\* handleStoreShare accepts e's share at node d if the share key is free.
NodeTakes(d, e) == e \notin DOMAIN held[d]

\* Mutant: a node that fails is passed over, as in decrypt.
SendRefusedGoesOn(e) ==
  /\ Sending(e)
  /\ next' = [next EXCEPT ![e] = @ + 1]
  /\ UNCHANGED <<fileVars, held, cpc, args, overlapped, decVars, lastGood>>

\* One round of the loop that gives up, as any error makes it: the node's
\* public key cannot be had, or the node refuses or fails the store (one with
\* STORE_API_KEY always does: no X-Api-Key is sent), perhaps for having been
\* named twice.
SendRefused(e) ==
  /\ Sending(e)
  /\ Fail(e)
  /\ UNCHANGED <<fileVars, held, next, args, overlapped, decVars>>

\* Mutant: the node is sent the share after its own.
SendShareAfter(e) ==
  /\ Sending(e) /\ NodeTakes(Target(e), e)
  /\ held' = [held EXCEPT ![Target(e)] = Put(@, e, next[e] + 1)]
  /\ next' = [next EXCEPT ![e] = @ + 1]
  /\ UNCHANGED <<fileVars, cpc, args, overlapped, decVars, lastGood>>

\* One round of the loop: the node stores share next[e] and the reply comes.
SendShare(e) ==
  /\ Sending(e) /\ NodeTakes(Target(e), e)
  /\ held' = [held EXCEPT ![Target(e)] = Put(@, e, next[e])]
  /\ next' = [next EXCEPT ![e] = @ + 1]
  /\ UNCHANGED <<fileVars, cpc, args, overlapped, decVars, lastGood>>

\* The node stores the share but its reply is lost: an error to the client.
SendReplyLost(e) ==
  /\ Sending(e) /\ NodeTakes(Target(e), e)
  /\ held' = [held EXCEPT ![Target(e)] = Put(@, e, next[e])]
  /\ Fail(e)
  /\ UNCHANGED <<fileVars, next, encVars, decVars>>

\* Every share is placed: the metadata file is opened with O_TRUNC, ...
EncryptTruncateMeta(e) ==
  /\ cpc[e] = "send" /\ next[e] > args[e].n
  /\ metaFile' = {}
  /\ cpc' = [cpc EXCEPT ![e] = "save"]
  /\ UNCHANGED <<encFile, held, next, encVars, decVars, lastGood>>

\* ... and written.  Over a longer one of another command, or in part, it is
\* no JSON.
EncryptSaveMeta(e) ==
  /\ cpc[e] = "save"
  /\ \/ Succeed(e) /\ (metaFile' = {e} \/ (metaFile # {} /\ metaFile' = {}))
     \/ Fail(e) /\ metaFile' \in {metaFile, {}}
  /\ UNCHANGED <<encFile, held, next, encVars, decVars>>

\* The command is killed, or cannot read its input or open a file it is to
\* write.
EncryptInterrupted(e) ==
  /\ Running(e)
  /\ Fail(e)
  /\ UNCHANGED <<fileVars, held, next, encVars, decVars>>

Encrypt(e) ==
  \/ EncryptStart(e) \/ EncryptTruncate(e) \/ EncryptWrite(e)
  \/ EncryptWriteFails(e) \/ SendRefused(e) \/ SendShare(e) \/ SendReplyLost(e)
  \/ EncryptTruncateMeta(e) \/ EncryptSaveMeta(e) \/ EncryptInterrupted(e)

-----------------------------------------------------------------------------
(* decrypt.                                                                *)

\* The metadata of decryption d is that of encryption Meta(d).
Meta(d) == CHOOSE e \in Encrypts : e \in readMeta[d]
Threshold(d) == args[Meta(d)].t
Enough(d) == Len(collected[d]) >= Threshold(d)

End(d, outcome) == cpc' = [cpc EXCEPT ![d] = outcome]

\* The ciphertext file is read, in full; fewer than 12 bytes are no nonce.
DecryptReadFile(d) ==
  /\ cpc[d] = "idle"
  /\ readEnc' = [readEnc EXCEPT ![d] = encFile]
  /\ End(d, IF encFile = {} THEN "failed" ELSE "meta")
  /\ UNCHANGED <<fileVars, held, next, encVars, readMeta, collected, refusals,
                 lastGood>>

\* Then the metadata; the request is built from it and signed, unless the seed
\* or the contract id is no such thing.
DecryptReadMeta(d) ==
  /\ cpc[d] = "meta"
  /\ readMeta' = [readMeta EXCEPT ![d] = metaFile]
  /\ \/ End(d, "failed")
     \/ metaFile # {} /\ End(d, "collect")
  /\ UNCHANGED <<fileVars, held, next, encVars, readEnc, collected, refusals,
                 lastGood>>

\* Mutant: the loop stops one share early.
AskingTooFew(d) ==
  /\ cpc[d] = "collect" /\ Len(collected[d]) + 1 < Threshold(d)
  /\ next[d] <= args[Meta(d)].n

\* The loop over meta.Nodes goes on.
Asking(d) ==
  /\ cpc[d] = "collect" /\ ~Enough(d)
  /\ next[d] <= args[Meta(d)].n

\* The next node releases its share.
DecryptCollect(d) ==
  LET e == Meta(d)
      node == args[e].nodes[next[d]] IN
    /\ Asking(d)
    /\ e \in DOMAIN held[node]
    /\ collected' = [collected EXCEPT ![d] = Append(@, held[node][e])]
    /\ next' = [next EXCEPT ![d] = @ + 1]
    /\ UNCHANGED <<fileVars, held, cpc, encVars, readEnc, readMeta, refusals,
                   lastGood>>

\* It does not (down, denied, rate limited, no share, ...): a warning, and
\* the loop turns to the next one.
DecryptWarn(d) ==
  /\ Asking(d)
  /\ refusals' = [refusals EXCEPT ![d] = @ + 1]
  /\ next' = [next EXCEPT ![d] = @ + 1]
  /\ UNCHANGED <<fileVars, held, cpc, encVars, readEnc, readMeta, collected,
                 lastGood>>

\* shamir.Combine on t distinct shares of e's key yields that key; on fewer,
\* or with a share twice, an error or another key.
CombinesTo(d) ==
  IF Cardinality({collected[d][i] : i \in DOMAIN collected[d]}) >= Threshold(d)
    THEN readMeta[d] ELSE {}

\* AES-GCM opens the ciphertext with the key it was made with, or not at all;
\* the plaintext is written, or cannot be.
DecryptFinish(d) ==
  /\ cpc[d] = "collect" /\ ~Asking(d)
  /\ \/ ~Enough(d) /\ End(d, "insufficient")
     \/ Enough(d) /\ CombinesTo(d) # readEnc[d] /\ End(d, "mismatch")
     \/ Enough(d) /\ CombinesTo(d) = readEnc[d] /\ (End(d, "done") \/ End(d, "failed"))
  /\ UNCHANGED <<fileVars, held, next, encVars, decVars, lastGood>>

Decrypt(d) ==
  \/ DecryptReadFile(d) \/ DecryptReadMeta(d) \/ DecryptCollect(d)
  \/ DecryptWarn(d) \/ DecryptFinish(d)

Next ==
  \/ \E e \in Encrypts : Encrypt(e)
  \/ \E d \in Decrypts : Decrypt(d)

Spec == Init /\ [][Next]_vars

-----------------------------------------------------------------------------
(* Properties.                                                             *)

\* Metadata only ever names nodes that hold what it promises: n different
\* nodes, each with a share of its own, of the key of that object.
MetaMeansDistributed ==
  \A e \in metaFile :
    /\ \A i \in 1..args[e].n : LET node == args[e].nodes[i] IN
         e \in DOMAIN held[node] /\ held[node][e] = i
    /\ \A i, j \in 1..args[e].n : args[e].nodes[i] = args[e].nodes[j] => i = j

\* A decryption given the ciphertext and the metadata of one encryption gets
\* the key unless more than n - t of the n nodes fail it: no order of
\* failures, duplicate entries or leftovers of other runs costs a share.
ToleratesFailures ==
  \A d \in Decrypts : cpc[d] \in {"insufficient", "mismatch"} =>
    \/ readEnc[d] # readMeta[d]
    \/ refusals[d] > args[Meta(d)].n - Threshold(d)

\* An encryption that reported SUCCESS, was the last to end and overlapped no
\* other left a ciphertext and metadata that belong together, whatever earlier
\* runs to the same paths, failed or killed half way, had left behind.
LastSuccessUsable ==
  \A e \in lastGood \ overlapped : (\A f \in Encrypts : ~Running(f)) =>
    encFile = {e} /\ metaFile = {e}
=============================================================================
