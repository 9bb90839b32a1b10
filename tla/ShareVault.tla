----------------------------- MODULE ShareVault -----------------------------
(***************************************************************************)
(* What a storage node promises, with nothing said of how it keeps it: a   *)
(* vault of places, each known by its name.  A put is acknowledged once    *)
(* its share is in the vault; a get is cleared by the contract it names,   *)
(* for the account it names (which need not be who asks), then reads the   *)
(* place it asked for, then has the share released to it.  Any request may *)
(* be refused on the way, a committed put may not.  ShareNode implements   *)
(* this specification (ShareNode!ImplementsVault).                         *)
(***************************************************************************)
CONSTANTS
  Puts, Gets,          \* the requests
  Places,
  Contracts, Accounts

VARIABLES
  vault,    \* place -> the put whose share is kept there
  stage,    \* where each request is
  ask,      \* what it asks for, once it is taken on
  known,    \* the puts already acknowledged at that moment
  held,     \* the share a get has read
  allowed,  \* the accounts each contract lets in
  closing   \* the vault is being closed

vars == <<vault, stage, ask, known, held, allowed, closing>>

Requests == Puts \cup Gets
PutAsks == [place : Places, overwrite : BOOLEAN]
GetAsks == [place : Places, contract : Contracts, names : Accounts]

Acknowledged == {p \in Puts : stage[p] = "acked"}

\* f with x mapped to y.
With(f, x, y) == [z \in DOMAIN f \cup {x} |-> IF z = x THEN y ELSE f[z]]
Nothing == [x \in {} |-> x]

\* (The second conjunct follows from the third and spares TLC comparing
\* whole functions.)
Move(h, from, to) ==
  /\ stage[h] = from
  /\ stage'[h] = to
  /\ stage' = [stage EXCEPT ![h] = to]

TakeOn(h, a) ==
  /\ Move(h, "new", "open")
  /\ ask' = With(ask, h, a) /\ known' = With(known, h, Acknowledged)
  /\ UNCHANGED <<vault, held, allowed, closing>>

\* A share takes the place of one acknowledged before its put was taken on
\* only if the put says so.
Commit(p) ==
  /\ ~closing
  /\ Move(p, "open", "in")
  /\ ask[p].overwrite \/ \A q \in known[p] : ask[q].place # ask[p].place
  /\ vault' = With(vault, ask[p].place, p)
  /\ UNCHANGED <<ask, known, held, allowed, closing>>

Acknowledge(p) ==
  /\ Move(p, "in", "acked")
  /\ UNCHANGED <<vault, ask, known, held, allowed, closing>>

\* The contract lets the account in, now.
Clear(g) ==
  /\ Move(g, "open", "cleared")
  /\ ask[g].names \in allowed[ask[g].contract]
  /\ UNCHANGED <<vault, ask, known, held, allowed, closing>>

Fetch(g) ==
  /\ Move(g, "cleared", "held")
  /\ ask[g].place \in DOMAIN vault
  /\ held' = With(held, g, vault[ask[g].place])
  /\ UNCHANGED <<vault, ask, known, allowed, closing>>

Release(g) ==
  /\ Move(g, "held", "granted")
  /\ UNCHANGED <<vault, ask, known, held, allowed, closing>>

\* "Not found" is said of no share known to be in, unless the vault is closed.
Miss(g) ==
  /\ Move(g, "cleared", "missing")
  /\ closing \/ \A p \in known[g] : ask[p].place # ask[g].place
  /\ UNCHANGED <<vault, ask, known, held, allowed, closing>>

Refuse(h) ==
  /\ \E from \in {"new", "open", "cleared", "held"} : Move(h, from, "refused")
  /\ UNCHANGED <<vault, ask, known, held, allowed, closing>>

\* The ledger moves on by itself.
Ledger ==
  /\ allowed' \in [Contracts -> SUBSET Accounts]
  /\ UNCHANGED <<vault, stage, ask, known, held, closing>>

Close ==
  /\ closing' = TRUE
  /\ UNCHANGED <<vault, stage, ask, known, held, allowed>>

\* A crash or an exit loses the requests under way and nothing else.
Restart ==
  /\ stage' = [h \in Requests |->
       IF stage[h] \in {"open", "in", "cleared", "held"} THEN "gone" ELSE stage[h]]
  /\ closing' = FALSE
  /\ UNCHANGED <<vault, ask, known, held, allowed>>

Init ==
  /\ vault = Nothing /\ ask = Nothing /\ known = Nothing /\ held = Nothing
  /\ stage = [h \in Requests |-> "new"]
  /\ allowed = [c \in Contracts |-> {}]
  /\ closing = FALSE

Next ==
  \/ Ledger \/ Close \/ Restart
  \/ \E p \in Puts : \/ \E a \in PutAsks : TakeOn(p, a)
                     \/ Commit(p) \/ Acknowledge(p)
  \/ \E g \in Gets : \/ \E a \in GetAsks : TakeOn(g, a)
                     \/ Clear(g) \/ Fetch(g) \/ Release(g) \/ Miss(g)
  \/ \E h \in Requests : Refuse(h)

Spec == Init /\ [][Next]_vars
=============================================================================
