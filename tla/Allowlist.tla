----------------------------- MODULE Allowlist -----------------------------
(***************************************************************************)
(* The Soroban allowlist contract (contract/src/lib.rs), one instance per  *)
(* contract id.  Every call is one ledger transaction, so one step.        *)
(***************************************************************************)
CONSTANTS
  Contracts,  \* deployed contract ids
  Accounts    \* Stellar accounts: the admins and the callers

VARIABLES
  admin,      \* DataKey::Admin of each initialised contract
  allowed,    \* the accounts with a DataKey::AllowedUser entry
  grantors    \* history: the accounts whose add() or remove() was accepted

chainVars == <<admin, allowed, grantors>>

ChainTypeOK ==
  /\ DOMAIN admin \subseteq Contracts
  /\ admin \in [DOMAIN admin -> Accounts]
  /\ allowed \in [Contracts -> SUBSET Accounts]
  /\ grantors \in [Contracts -> SUBSET Accounts]

ChainInit ==
  /\ admin = [c \in {} |-> c]
  /\ allowed = [c \in Contracts |-> {}]
  /\ grantors = [c \in Contracts |-> {}]

\* Mutant: init() without its "Already initialized" panic.
InitContractAgain(c, a) ==
  /\ admin' = [d \in DOMAIN admin \cup {c} |-> IF d = c THEN a ELSE admin[d]]
  /\ UNCHANGED <<allowed, grantors>>

\* init(admin, name)
InitContract(c, a) ==
  /\ c \notin DOMAIN admin
  /\ admin' = [d \in DOMAIN admin \cup {c} |-> IF d = c THEN a ELSE admin[d]]
  /\ UNCHANGED <<allowed, grantors>>

\* admin.require_auth(): the transaction is authorised by the stored admin.
AdminAuth(c, signer) == c \in DOMAIN admin /\ admin[c] = signer

\* add(account)
Add(c, signer, account) ==
  /\ AdminAuth(c, signer)
  /\ allowed' = [allowed EXCEPT ![c] = @ \cup {account}]
  /\ grantors' = [grantors EXCEPT ![c] = @ \cup {signer}]
  /\ UNCHANGED admin

\* remove(account)
Remove(c, signer, account) ==
  /\ AdminAuth(c, signer)
  /\ allowed' = [allowed EXCEPT ![c] = @ \ {account}]
  /\ grantors' = [grantors EXCEPT ![c] = @ \cup {signer}]
  /\ UNCHANGED admin

\* approve(_id, caller) panics with ENoAccess unless is_allowed(caller).  The
\* object id is not looked at.
Approve(c, caller) == caller \in allowed[c]

ChainNext ==
  \E c \in Contracts, a \in Accounts :
    \/ InitContract(c, a)
    \/ \E b \in Accounts : Add(c, a, b) \/ Remove(c, a, b)

ChainSpec == ChainInit /\ [][ChainNext]_chainVars

\* A contract's list is in one account's hands for good: every add() and
\* remove() ever accepted was authorised by the account that is its admin now,
\* whatever inits, grants and revocations were tried in between ("Already
\* initialized", contract/src/lib.rs:20).  The second admin that
\* docs/contract.md:32-37 adds does not exist: lib.rs does not declare the
\* module contract/src/multi_admin.rs, so add_admin is not in the contract.
OneAuthority ==
  \A c \in Contracts : \A a \in grantors[c] :
    c \in DOMAIN admin /\ admin[c] = a
=============================================================================
