# soroban-encrypt: a TLA+ verification project

This directory holds TLA+ models of the soroban-encrypt storage node, its
client and its allowlist contract, the TLC configurations that check them on
small instances, and proofs checked by TLAPS. Paths below are relative to the
root of the repository.

## 1. The system

A client encrypts a file under a fresh AES key, splits the key with Shamir's
scheme into `n` shares, seals each share for one node's P-256 key and stores it
there. To decrypt, it asks the nodes for shares; a node releases its share if
the caller's `approve` call succeeds when simulated against the allowlist
contract. Any `t` shares give the key back.

| Component | State | Operations | Interacts with |
|---|---|---|---|
| Key store `node/keystore.go` | `node_key.pem` | `LoadOrGenerateKey`, `saveKeyToDisk` | called by `init()` and `initKeyManager` |
| Key manager `node/keymanager.go`, `rotate_handler.go` | versions, current version, `km.mu`, the two global keys | `initKeyManager`, `Rotate`, `CurrentVersion`, `GetKey` | handlers read the globals without `km.mu` |
| Share store `node/store.go` | BoltDB file, handle `db` | `initDB`, `saveShare`, `loadShare`, `deleteShare`, `countShares`, `closeDB` | the two handlers, shutdown |
| `POST /store`, `POST /retrieve` `node/handlers.go`, `node/main.go`, `node/crypto.go` | one goroutine per request | validate, check, save, reply; validate, verify, simulate, load, decrypt, reply | share store, key globals, Soroban RPC |
| Server `node/server.go` | accepting, draining, closed | routing, SIGTERM, 30 s drain, `closeDB` | every handler |
| Middleware `node/middleware.go`, `ratelimit.go`, settings `config.go` | token buckets per host and per object | log, body size, rate limits, API key | every handler |
| Contract `contract/src/lib.rs` | admin, allowed accounts | `init`, `add`, `remove`, `is_allowed`, `approve` | read through the RPC service |
| Client `client/main.go`, `crypto.go`, `transaction.go` | ciphertext file, metadata file | `encrypt`, `decrypt` | nodes, over HTTP |
| Streaming format `client/streaming.go` | an `.enc` file | `EncryptFileStreaming`, `DecryptFileStreaming` | files shared by several calls |
| Object index, admin client, SDK, contract variants | | | not modelled: section 8 |

What is hard here, and what makes each part correct:

* **Node key.** Crashes inside `LoadOrGenerateKey`, reads that fail, writes that
  are not synced, rotations that race each other and the handlers. A public key
  given to a client must stay usable; rotations must not overwrite one another;
  the two globals must be one pair.
* **Shares.** The write-once check and the save are two transactions; crashes
  fall between commit and reply; shutdown closes the database under running
  handlers. What was acknowledged must stay, be found and be opened.
* **Access.** The approval is a remote answer about a chain that moves on, to a
  transaction the client wrote. A share must be released only for an approval
  given during the request, by the contract named in it, to the caller, and must
  belong to the object that was asked for.
* **Shutdown.** A handler may wait for ever on an RPC call without time limit.
* **Client.** Nodes fail, replies are lost, commands are killed, files are
  reused. Metadata must never promise shares that were not placed, and `n - t`
  failing nodes must not cost the file.
* **Encrypted files.** A file is written block by block under a header that is
  already complete; it may be cut short, rewritten under a reader or written by
  two at once. What decrypts must be the whole of one source.
* **Limits.** `/retrieve` asks one bucket twice, with other requests in between,
  and a third bucket after that. No host or object may exceed its budget, and
  none may pay for another.

`PROJECT.json` lists these as hazards, each at its line with the properties that
would catch it.

`main()` as shipped calls neither `initDB` nor `initKeyManager` and sets no IP
limiter. The constants `DBWired` and `KeyManagerWired` say whether start-up does:
`FALSE` is the shipped `main()`, `TRUE` the node the tests set up and the
documentation describes. The properties of stored shares need `DBWired = TRUE`;
with `FALSE` a share cannot be stored at all: the first bbolt call of `/store`
panics.

## 2. Modules

| Module | Models | Composes |
|---|---|---|
| `NodeKeys` | the node's key: start-up, rotation, `/public-key`, crashes | |
| `ShareKey` | the BoltDB key of a share | |
| `Allowlist` | the contract, one instance per contract id | |
| `ShareVault` | what a node promises, as an abstract specification | |
| `ShareNode` | `/store`, `/retrieve`, BoltDB, server, shutdown | `NodeKeys`, `Allowlist`, `ShareKey`; implements `ShareVault` |
| `Gateway` | the middleware chain and the token buckets before the handlers | |
| `ThresholdClient` | `encrypt` and `decrypt` against nodes seen through their replies | |
| `Streaming` | block-wise encryption and decryption of one file | |
| `MCNodeKeys`, `MCShareNode`, `MCGateway`, `MCThresholdClient`, `MCStreaming` | values of constants and symmetry for TLC | |
| `NodeKeysProofs`, `ShareKeyProofs`, `ShareNodeProofs`, `ShareNodeKeyProofs`, `ShareVaultProofs`, `GatewayProofs`, `ThresholdClientProofs`, `StreamingProofs` | theorems about the module of that name (`ShareNodeKeyProofs`: the key inside `ShareNode`, and its types) | |

Definitions whose comment begins with "Mutant" are plausible wrong versions of
the definition that follows them. Nothing uses them; put in its place, each makes
one property fail (`PROJECT.json`, `mutants`).

### NodeKeys

Keys are numbers in the order they are generated; a private key and its public
key have the same number. `keyFile` is what a read of `node_key.pem` yields,
`durableKey` what it would yield after a loss of power. `phase` and `loader` are
the position in start-up, `pending` the key generated but not yet written.
`nodePrivateKey`, `nodePublicKey`, `keys`, `currentVersion` and `mu` are the
program's variables of those names; `pc`, `newKey` and `reported` the locals of
each `/rotate-key` request. `served` is history.

Steps: `Boot`, `LoadKey`, `GenerateKey` (which also truncates the file, as
`os.WriteFile` does first), `SaveKey`, each returning to `init()` or to
`initKeyManager`; `RotateGenerate` before the lock, `RotateLock` with the map
update, `PublishPrivate` and `PublishPublic` in either order (the handlers read
the globals without the lock, a data race, so nothing orders the two stores for
them), `RotateReport` after the lock; `Crash` anywhere. `Faults` turns on a read
that fails although the file is good (`"read"`) and loss of power (`"power"`).
`reencryptShares` does nothing in the code and so has no step.

### Allowlist and ShareKey

One action per entry point, one ledger transaction each. `approve` ignores the
object id, as the code does. `grantors` is history: the accounts that signed a
change to a contract's list. `ShareKey` works on sequences of characters because
its property is about them.

### ShareNode

A share is known by the request that carried it. `shares` is the BoltDB bucket
(a finite map, durable: bbolt syncs at commit), `db` the global handle, `srv` the
server. `hpc` is the position of each handler, `req` its validated request, `got`
what it loaded, `resp` its answer. `acked` and `vouched` are history: the stores
acknowledged before a request arrived, and the accounts that the contract named in
a retrieval has let in at some time since it arrived.

Steps end where another actor can come in: `StoreArrive`, `StoreCheck`,
`StoreSave`, `StoreReply`; `RetrieveArrive` (every local check, `VerifySorobanTx`
included), `RetrieveSimulate` (the moment the RPC node evaluates the call),
`RetrieveLoad`, `RetrieveDecrypt`; `SigTerm`, `ShutdownReturns` (handlers done or
30 s over, then `closeDB`), `Exit`; `Crash`. Requests that a check turns away are
one step to their answer; the order of the checks only decides which error a
doubly wrong request is given.

What a client may send is what the handlers let through:

* `/store` takes any text as contract id (`ContractIDs`), of which only some are
  contracts' (`Contracts`, base32 strkeys without the separator), and any three hex
  strings. `Forms` sorts those: sealed as `ECIESEncrypt` does it for a key the node
  has served; garbled, which `DecryptShare` answers with an error; or with a nonce
  of the wrong length, on which `gcm.Open` panics (`"aborted"`).
* The transaction of a `/retrieve` is `BuildApproveTransaction`'s or one that differs
  in a part: kind, source, number of operations, function, or the account `approve`
  is asked about. The node compares all of these but the last with the request
  (`VerifySorobanTx`), and `approve` does not ask that account to authorise, so who
  asks and whom the contract judges may be two. `GrantWasApproved` and `ShareVault`
  speak of the account the transaction names; that it is the caller's is
  `GrantedToAllowedCaller`, which `node_other_account` refutes.

### ShareVault and the mapping

`ShareVault` knows places, puts and gets. A put commits and is then acknowledged;
it may take the place of a share acknowledged before it was taken on only if it
asks to. A get names a place, a contract and an account; it is cleared when that
contract lets that account in, reads its place, and has the share released.
Anything but a committed put may be refused; "missing" may not be said of a share
known to be in. A restart loses the requests under way and nothing else.

`ShareNode!Vault` maps a node to a vault: `shares` to `vault`, so that a place is a
BoltDB key (two pairs of ids with one key have one place, as in the code), a
handler's `hpc` and `resp` to the stage of its request (`VaultStage`), `acked` to
`known`, `got` to `held`, a closed `db` to `closing`. The key, the server and the RPC
calls disappear: a rotation is a stutter, a failed decryption a refusal.

### Gateway

`limiters` and `objectLimiters` are the two maps of token buckets, `cfg` what
`LoadConfig` made of the environment, `wired` whether `globalIPLimiter` is set
(`main` leaves it nil; both are explored). A host is the list of the parts its
text has between colons, so that `strings.Split(addr, ":")[0]` is modelled by
what it does. `golang.org/x/time/rate` is external: a bucket holds whole tokens,
refilled once a second, which is `Allow` on a clock of whole seconds.

Steps: `Arrive` (logging, body cap and the limiter around the mux), `InnerLimit`
(the second limiter, `/retrieve` only), `Refused`, `Handle`, `HandleRetrieve`
(with the object's limiter), `Tick`. A bucket is found or made and charged in one
step: `get` holds `l.mu`, `LoadOrStore` keeps one limiter, and `Allow` locks.
`taken` and `objectTaken` are history: how often a host has got past a limiter, set
or not, and an object past its own, since each second. `IPBudget` bounds the one if
the limiter is set; `LimitedByOwnHost` says that an IPv4 host is refused only when
its own count has reached that bound for some window, so another host's requests
never cost it one. `ShareNode` sees all this as the answers a request may be refused
with.

### Streaming

A file is a sequence of cells: the magic, the count and each size take one, a
sealed chunk one per unit of plaintext and `Overhead` for nonce and tag. Each
encryption has a key of its own, as `handleEncrypt` draws one per file; GCM opens
exactly what was sealed with that key. A write goes to the writer's own offset,
so one that goes on after another call has truncated the file leaves a hole of
zeros. Where a decryption takes cells of a sealed chunk for a number, any of `Words`
may come out, a constant of which the proofs assume only that it is a set of
natural numbers. `ChunkSize + Overhead > MaxChunks` stands for 4 MB chunks against
headers of at most 10000 sizes: a chunk never fits inside a header.

### ThresholdClient

Commands are processes that share two files and may be killed between steps.
Fresh keys, ciphertexts and object ids are known by the `encrypt` command that
made them. `os.WriteFile` is two steps, the truncation and the write, for either
file: a reader may find it empty, and a command that overlaps another may leave it
torn (`Torn` for the ciphertext; metadata that is no JSON is as good as none). A node
keeps the first share it is sent for an object and may fail any request; one that
answers 200 with a wrong share is not modelled. `overlapped` is history: the
encryptions that ran while another one did.

## 3. Runs

Passing runs:

| Run | Shows |
|---|---|
| `keys_rotation` | `KeyPairAgrees`, `NoRotationLost`, `OldKeysKept`, `RotationCompletes`, `TypeOK`: two concurrent rotations with every fault |
| `node_restarts` | `AckedStoreKept`, `WriteOnceInOrder`, `StoredSharesOpen`, `KeyStable`, `KeyOnDisk`, `NotFoundIsHonest`, `ImplementsVault`: three stores, a retrieval, restarts and shutdowns of the node as shipped but with its database |
| `node_access` | `GrantWasApproved`, `ReleasedShareMatches`, `ChainOneAuthority`, `ImplementsVault`, `TypeOK`: ids that collide, shares of every form, transactions that name any account, grants and revocations |
| `node_rotation` | `PanicsOnlyOnNonce`, `SyncedKeyKept`, `ShutdownEnds`: everything together with rotation and power loss |
| `gateway` | `IPBudget`, `ObjectBudget`, `LimitedByOwnHost`, `TypeOK`: three requests of four hosts and two ports through all limiters while time passes |
| `client_commands` | `MetaMeansDistributed`, `ToleratesFailures`, `LastSuccessUsable`, `TypeOK`: overlapping commands that fail or are killed anywhere |
| `streaming` | `DecryptsWhole`, `OutIsPrefix`, `RoundTrips`, `TypeOK`: two encryptions and a decryption of one file at once, failing anywhere |

Runs that end in a counterexample, each a disagreement between the code and what
a comment, a test or a document of the repository says (quoted in
`PROJECT.json`, `findings`):

| Run | Counterexample |
|---|---|
| `keys_read_fault` | one failed read of a good `node_key.pem` and the key is overwritten |
| `keys_rotated_key_lost` | a rotated key is never written to disk |
| `node_write_once` | two concurrent stores of one object are both answered 200 (of stores one after the other only one is: `WriteOnceInOrder`) |
| `node_rotate_under_retrieve` | a rotation makes stored shares undecryptable at once |
| `node_other_account` | a caller who is not on the list is given a share with a transaction that names one who is |

Two passing properties say what the code does where a document says otherwise, and
are findings too:

* `OldKeysKept` (`keys_rotation`): `docs/operations.md:33-34` has old key versions
  purged after a grace period of 24 hours; no code purges one.
* `ChainOneAuthority` (`node_access`): `docs/contract.md:32-37` adds a second admin;
  the contract that is built has no function for it.

Disagreements met while modelling that need no run to see:

* `main()` calls neither `initDB` nor `initKeyManager`: as shipped, `/store` panics
  on the nil handle and `/rotate-key` refuses.
* The client never sends `X-Api-Key`, though `README.md:111` and
  `client/main.go:408` speak of `--node-api-key`: a node with `STORE_API_KEY`
  refuses it.
* `main` never sets `globalIPLimiter`, so the per-IP limits
  `docs/threat_model.md:26` counts on are off.
* IPv6 hosts with one first group share a bucket ("per-IP", `ratelimit.go:41`).
  `LimitedByOwnHost` is therefore stated for IPv4 hosts.
* With `RATE_BURST=1` and the limiter set, `/retrieve`, which needs two tokens, is
  answered only if a refill falls between its two limiters.
* `loggingMiddleware` has buffered the whole body before the cap or any limiter.
* An empty file, and one of more than 10000 chunks, encrypts but does not decrypt.
  `RoundTrips` names that range.
* `client/streaming.go:25` says smaller files use a single block; every file is
  cut into 4 MB blocks.

## 4. Bounds

* `MaxKey` bounds the keys ever generated (2 to 6): enough for a first key, one
  generated after a crash inside start-up, and one per rotation. Crashes and
  restarts are not bounded.
* Two rotations: one waits for the lock, or overtakes, while the other is in it.
  The proofs of section 6 cover any number.
* Three stores of one object: one acknowledged, one that races it and one that
  comes later, each with or without `X-Overwrite`. One retrieval suffices: no
  property relates two, and a retrieval writes nothing another one reads.
* `node_access`: one contract `C`, and two ids that are no contract's: `D`, so that a
  share filed or approved under the wrong id shows, and `C_`, which with object `y`
  has the share key of `C` with `_y`. An approval of `C` is another contract's for a
  request that names `D` or `C_`. Two accounts: one that asks and one that its
  transaction names. A store and a retrieval suffice: a wrong answer needs one share.
* `Forms`: all three in `node_access`, sealed shares and bad nonces in
  `node_rotation`, sealed ones in the runs about keeping and opening them.
* Three nodes, lists with distinct and with repeated nodes, and the splits
  (3,2), (2,2), (3,3) and (2,1), the last refused by `shamir.Split`.
* Three requests at the limiters: one between the two limiters of `/retrieve`, a
  rival of the same host, and one of another host. Two IPv4 hosts, two IPv6 hosts
  that share a bucket, two ports each. The default burst, 3 here, runs out between
  the two limiters of a second `/retrieve`; rates 1 (the default) and 0, so that a
  bucket run dry fills up or stays dry; a second that passes gives windows before
  and after it. The proofs cover any numbers.
* Two encryptions and one decryption of a file, with `ChunkSize` 2 and `MaxChunks`
  2 and sources of 0, 2, 3, 4 and 5 units: no chunk, one full chunk, a full and a
  partial one, the most, and one too many. `Words` is 0 to 4: every size a chunk of
  this instance can have, every valid count and invalid ones. A v1 file is there at the start. Two
  decryptions would not meet: neither writes what the other reads.
* Requests, commands and accounts are interchangeable, so `node_restarts`,
  `node_access`, `gateway`, `client_commands` and `streaming` use symmetry; the
  runs that check liveness do not.

## 5. Fairness

`keys_rotation`: a goroutine inside the critical section goes on (weak fairness of
the two stores), and a waiter on a Go `RWMutex` is not starved (strong fairness
of taking it). Nothing is assumed of start-up, crashes or clients.

`node_rotation`: weak fairness of `ShutdownReturns` (the 30 s context expires)
and of `Exit` (main returns). Nothing is assumed of handlers, clients or the RPC
service: that is the point of the run.

`client_commands`, `streaming` and `gateway` turn deadlock checking off: there
commands, calls and requests end.

## 6. Proofs

`NodeKeysProofs` proves for every set of rotations, every bound and every set of
faults:

* `TypeCorrect`: `TypeOK`, strengthened by `KeysAreReal` (what is about to be
  returned or installed is a key), without which the manager's map could hold nil.
* `PairAgrees`, `RotationsKept`, `OldVersionsKept`: `KeyPairAgrees`,
  `NoRotationLost` and `OldKeysKept`, from one inductive invariant `RotationInv`.
  It adds that `km.mu` has one holder, the request in the critical section
  (`MutexInv`), how far the globals have come inside it (`PublishInv`), and that
  a process that does not serve yet has no requests and no versions
  (`StartUpInv`). The version installed is new because every installed version is
  at most `currentVersion`, a part of `TypeOK`.
* `KeySurvivesRestarts`, `ServedKeyOnDisk`: `KeyStable` and `KeyOnDisk` for the
  shipped node without faults (`AsShipped`). The invariant `FileInv` says that a
  key was served only if the file holds it. Both assumptions are needed: the
  two `keys_*` counterexamples each drop one.
* `SyncedKeySurvives`: `SyncedKeyKept` if reads do not fail, from `SyncInv`: what
  is on the disk is what the file holds, and a key is saved only over a file that
  holds none.

`ShareKeyProofs` proves `ShareKeyInjective`: a share key determines contract and
object if contract ids contain no `_`; nothing is asked of object ids. Contract
ids are strkeys (base32), which contain none.

`ShareNodeProofs` proves for any number of requests, contracts, accounts,
rotations and restarts, with and without faults:

* `AckedSharesKept`: `AckedStoreKept`, from the inductive invariant `StoreInv`.
  `WrittenInv` says that a share is on disk before it is acknowledged and that
  what a request believes acknowledged is. `CheckedInv` carries the result of the
  write-once check over to the save: while the database is open, a store past its
  check collides with nothing acknowledged before it arrived. The check is skipped
  if the database is closed, and `ServerInv` (handlers run only in a process that
  has started) excludes that it is open again when such a store saves.
* `WrittenOnceInOrder`: `WriteOnceInOrder`, what is left of write-once when stores
  overlap. `OrderInv` takes `CheckedInv` from the save on to the answer.
* `NoPanicsWithDatabase`: `PanicsOnlyOnNonce` if start-up opens the database
  (`DBWired`). `WiredInv` says that the handle is not nil while the server runs, a
  closed one under late handlers included.
* `NotFoundHonest`: `NotFoundIsHonest`, a property of steps, from `WrittenInv`.
* `GrantsWereApproved`, `ReleasedSharesMatch`: `GrantWasApproved` and
  `ReleasedShareMatches`, from `AccessInv`: what `VerifySorobanTx` established of
  the request, and no more (`RequestInv`: nothing of the transaction's argument),
  that the account named by a retrieval past the simulation was let in since the
  request came (`VouchedInv`), and that what was loaded was stored under the key
  asked for (`LoadedInv`), from which `ShareKeyInjective` gives the ids if the share
  was stored under an id without a separator. That the contracts' own ids have none
  is all `IdsAssumption` asks; those in stores are arbitrary.
* `OneAdminDecides`: `ChainOneAuthority`, from `AuthorityInv`: whoever signed a
  change to a contract's list is its admin, and there is no change before there
  is an admin.

`ShareNodeKeyProofs` carries the results about the key over to the node. `KeyStep`
shows that every step of a node is a step of its key or leaves it alone, so the
invariants of `NodeKeysProofs` hold there too:

* `NodeKeyStable`, `NodeKeyOnDisk`, `NodeSyncedKeyKept`: the three properties of
  the key, of a node under any requests, shutdowns and ledger transactions.
* `SharesStayOpen`: `StoredSharesOpen` for the shipped node without faults. Shares
  are sealed for served keys (`OpenInv`), served keys are the one the node uses
  (`RestartInv`), so a share loaded by a running handler opens.
* `NodeTypeCorrect`: `ShareNode!TypeOK`. `NodeTypeInv` joins the typing of the key
  (`NodeKeysProofs`), of the ledger and of the handlers' maps (`NodeTypes`).

`ShareVaultProofs` proves `NodeImplementsVault`: a node's behaviours are a vault's,
for any constants. `AccessInv` is strengthened to `RefineInv` by the type of the
ledger (`LedgerInv`) and by the fact that the database is closed only on the way
out (`ClosedInv`), so that `closing` ends with the process. `StepRefines` then
takes the actions one by one.

`GatewayProofs` proves for any requests, hosts, objects, rates and bursts:

* `TypeCorrect`: `TypeOK`, no bucket above its burst included.
* `HostsWithinBudget`, `ObjectsWithinBudget`: `IPBudget` and `ObjectBudget`. The
  invariant adds to what was given what the bucket still holds: together they
  never exceed the burst plus what time has added, for each window (`IPInv`,
  `ObjectInv`).
* `LimitedForOwnRequests`: `LimitedByOwnHost`, the converse of `IPBudget`. `OwnInv` says
  that the bucket of an IPv4 host holds no less than a full one and its refills
  since some moment, less what that host itself took since (`Spent`): a refill that
  fills it starts the moment anew. No other host has that bucket, so an empty one
  was emptied by the host it belongs to.

`ThresholdClientProofs` proves for any nodes, node lists, splits and numbers of
commands, from `ClientInv`:

* `TypeCorrect`: `TypeOK`, from the types (`VarTypes`) and `LoopInv`: the loop of
  an encryption stays within a list that is long enough.
* `MetadataHonest`: `MetaMeansDistributed`. `PlacedInv` says that the nodes the loop
  has passed hold the shares it sent them. A node keeps one share per object, so
  they are distinct: that is why a list with a repeated node ends in an error.
  `MadeInv` says that metadata, on disk or already read, is of an encryption that
  has got to the end of its loop.
* `FailuresTolerated`: `ToleratesFailures`. `CollectInv` counts: a decryption has
  passed one node per share and per refusal, and its shares have different
  indexes. When it gives up it has passed `n` nodes, so fewer than `t` shares mean
  more than `n - t` refusals; `t` different ones (`DistinctCount`) give the key.
* `LastSuccessKept`: `LastSuccessUsable`, from `AloneInv`: an encryption that has met
  no other runs alone, and finds in the files what it left there (`OwnFiles`).

`StreamingProofs` proves for any number of calls, sources of any length and any
chunk size and bound with `SizesAssumption` (`ChunkSize + Overhead > MaxChunks`):

* What is in a file. `SetInduction` is induction over the natural numbers for a
  set of them, from the well-foundedness of `<`. By it `FlattenSeq` joins its parts
  (`JoinsExists`, `FlattenJoins`), the cells of chunk `i` of an encryption are where
  `Place` says (`DataCells`), and `OutputCells` gives the layout of the whole file.
* `TypeCorrect`: `TypeOK`.
* `WholeOrError`, `OutputIsPrefix`: `DecryptsWhole` and `OutIsPrefix`. Chunks carry no
  number, so what keeps them in order is an argument about places. `FileInv`:
  whoever wrote, cut or left holes, a cell of a sealed chunk is at its own
  encryption's place for it. `ReadInv`: a decryption that has opened `m` chunks is
  `m` full chunks past a header of the length it believes. Hence
  `OpensNext`: what opens next is chunk `m + 1`, because the header a first chunk
  could be found behind differs from the true one by whole chunks, and
  `SizesAssumption` leaves no room for one. A chunk before the last is full, and
  the last one completes the source (`ChunkJoins`).
* `RoundTrip`: `RoundTrips`, from `SteadyInv`: while the file is complete and left
  alone, the count and the sizes read are those of the key's encryption, and the
  next chunk is there and opens (`SteadyOpens`).

The parts of this invariant were tried with TLC on the instance of run `streaming`
before they were proved.

Only model-checked: liveness (`RotationCompletes`, `ShutdownEnds`), which is out of
the prover's reach. Every safety property of a passing run is a theorem.

## 7. Plan

Done: the key, the node and its middleware, the contract, the client and the file
format, the abstract vault, their runs, and proofs of all their safety properties.
Next:

1. What the counterexamples leave, as theorems beside `WrittenOnceInOrder`,
   `GrantsWereApproved` and `NoPanicsWithDatabase`: which shares still open after a
   rotation.
2. Shorter proofs where facts about sequences or maps recur.

## 8. Not modelled

* `contract/src/multi_admin.rs` and `per_object.rs`: `lib.rs` does not declare
  them, so they are not part of the contract.
* The client's object database: nothing opens it, so there is no order of
  operations to be right or wrong about.
* `ipAllowlistMiddleware`, `storeAuthMiddleware`, `wrapWithMiddlewareChain`:
  `buildMux` does not install them. `Config.Validate`: nothing calls it.
* `DELETE /shares` (with `deleteShare`) is not routed, and `/sync` changes nothing.
  Health, readiness and status endpoints only read.
* HKDF and AAD helpers: no encryption path uses them.
* Admin client: single calls without state. `pkg/sorobanencrypt` and `sdk`: stubs.
* TLS, logging, metrics, dashboard: no effect on keys, shares or replies.
* Expiry of ledger entries, a lagging RPC node, and time other than as
  nondeterminism (but for the seconds of `Gateway`).
