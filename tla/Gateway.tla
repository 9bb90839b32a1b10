------------------------------ MODULE Gateway ------------------------------
(***************************************************************************)
(* What stands before a node's handlers: the middleware chain of buildMux  *)
(* (node/server.go), the per-IP token buckets (node/ratelimit.go), the API *)
(* key and the body cap (node/middleware.go), the configuration they read  *)
(* (node/config.go), and the per-object bucket handleRetrieveShare asks    *)
(* (node/handlers.go).  Every request runs in a goroutine of its own, and  *)
(* between two limiters another may take the token it would have had.      *)
(*                                                                         *)
(* The buckets live and die with the process; one life of it is modelled.  *)
(***************************************************************************)
EXTENDS Naturals, Sequences

CONSTANTS
  Requests,      \* the HTTP requests
  Hosts, Ports,  \* client addresses: a host's text split at ":", and ports
  ObjectIDs,     \* the ids /retrieve may name
  EnvRates,      \* what RATE_LIMIT and RATE_BURST may hold: the numbers the
  EnvBursts,     \*   text stands for (one, or none: unset or not a number)
  DefaultRate,   \* 10.0 and 20
  DefaultBurst,
  ObjectRate,    \* 1 and 5
  ObjectBurst,
  MaxTime        \* bound on the seconds that pass

\* A host without ":" is an IPv4 address, and no other host's text begins
\* with one (that of an IPv6 address begins with "[").
ASSUME HostsAssumption ==
  /\ Hosts \subseteq Seq(STRING) \ {<<>>}
  /\ \A h, k \in Hosts : Len(h) = 1 /\ Head(h) = Head(k) => h = k
ASSUME RatesAssumption ==
  /\ EnvRates \subseteq SUBSET Nat /\ EnvBursts \subseteq SUBSET Nat
  /\ DefaultRate \in Nat /\ DefaultBurst \in Nat
  /\ ObjectRate \in Nat /\ ObjectBurst \in Nat /\ MaxTime \in Nat

VARIABLES
  cfg,             \* Config, as far as it is used here
  wired,           \* whether globalIPLimiter has been set
  now,             \* the clock, in seconds
  limiters,        \* globalIPLimiter.limiters: ip -> tokens
  objectLimiters,  \* objectLimiters: object id -> tokens
  hpc,             \* where each request is
  req,             \* the requests that have come
  resp,            \* how each was answered, if it was before its handler's work
  taken,           \* history: how often a host got past a limiter since each time
  objectTaken      \* history: the same for an object

vars == <<cfg, wired, now, limiters, objectLimiters, hpc, req, resp, taken,
          objectTaken>>

Times == 0..MaxTime

\* The routes: open (/health, /ready and /status are routed like this one),
\* behind apiKeyMiddleware (like /rotate-key and /sync), behind a second
\* rateLimitMiddleware.
Paths == {"/public-key", "/store", "/retrieve"}

-----------------------------------------------------------------------------
(* Configuration.                                                          *)

\* getEnvInt, getEnvFloat: text that is no number gives the fallback.
GetEnvNumber(numbers, fallback) ==
  IF numbers = {} THEN fallback ELSE CHOOSE n \in numbers : TRUE

LoadConfig(rate, burst, key) ==
  [rate |-> GetEnvNumber(rate, DefaultRate),
   burst |-> GetEnvNumber(burst, DefaultBurst),
   apiKey |-> key]

-----------------------------------------------------------------------------
(* Token buckets, and the maps that hold one for each key.                 *)

\* The tokens of the bucket for k: get under l.mu, or LoadOrStore.  A new
\* bucket is full.
Get(l, k, burst) == IF k \in DOMAIN l THEN l[k] ELSE burst

\* rate.Limiter.Allow.
Allow(l, k, burst) == Get(l, k, burst) >= 1

\* The map after that call.
Took(l, k, burst) ==
  [x \in DOMAIN l \cup {k} |->
     IF x # k THEN l[x]
     ELSE IF Allow(l, k, burst) THEN Get(l, k, burst) - 1 ELSE Get(l, k, burst)]

\* The map a second later.
Refilled(l, rate, burst) ==
  [k \in DOMAIN l |-> IF l[k] + rate <= burst THEN l[k] + rate ELSE burst]

\* x has got past once more, in every window that has begun.
Counted(history, x) ==
  [history EXCEPT ![x] =
     [w \in Times |-> IF w <= now THEN history[x][w] + 1 ELSE history[x][w]]]

-----------------------------------------------------------------------------
(* The chain of handlers.                                                  *)

\* Mutant: the address is not split.
IpWhole(remoteAddr) == remoteAddr

\* Mutant: the port is taken for the address.
IpPort(remoteAddr) == remoteAddr[Len(remoteAddr)]

\* strings.Split(r.RemoteAddr, ":")[0]: of an IPv6 address, its first group.
Ip(remoteAddr) == Head(remoteAddr)
Bucket(q) == Ip(q.host \o <<q.port>>)

\* The request goes on at point, or is answered.
GoTo(r, point) == hpc' = [hpc EXCEPT ![r] = point] /\ UNCHANGED resp
Answer(r, answer) ==
  hpc' = [hpc EXCEPT ![r] = "done"] /\ resp' = [resp EXCEPT ![r] = answer]

\* rateLimitMiddleware: request r, which is q, takes a token and goes on at
\* point, or is turned away; with no globalIPLimiter it passes.
RateLimit(r, q, point) ==
  \/ /\ ~wired
     /\ GoTo(r, point)
     /\ taken' = Counted(taken, q.host)
     /\ UNCHANGED limiters
  \/ /\ wired
     /\ limiters' = Took(limiters, Bucket(q), cfg.burst)
     /\ \/ /\ Allow(limiters, Bucket(q), cfg.burst)
           /\ GoTo(r, point)
           /\ taken' = Counted(taken, q.host)
        \/ /\ ~Allow(limiters, Bucket(q), cfg.burst)
           /\ Answer(r, "limited")
           /\ UNCHANGED taken

\* A request comes: loggingMiddleware reads its whole body, dropping any
\* error, bodySizeLimitMiddleware caps what will be read of that, and the
\* limiter around the mux is asked.
Arrive(r) ==
  /\ hpc[r] = "idle"
  /\ \E h \in Hosts, p \in Ports, path \in Paths :
       LET q == [host |-> h, port |-> p, path |-> path] IN
         /\ req' = [req EXCEPT ![r] = q]
         /\ RateLimit(r, q, IF path = "/retrieve" THEN "inner" ELSE "handler")
  /\ UNCHANGED <<cfg, wired, now, objectLimiters, objectTaken>>

\* The limiter around /retrieve.
InnerLimit(r) ==
  /\ hpc[r] = "inner"
  /\ RateLimit(r, req[r], "handler")
  /\ UNCHANGED <<cfg, wired, now, objectLimiters, req, objectTaken>>

\* apiKeyMiddleware does not find the key; or the handler refuses a wrong
\* method, a body over the cap, or one it cannot decode.
Refused(r) ==
  /\ hpc[r] = "handler"
  /\ \/ /\ req[r].path = "/store" /\ cfg.apiKey
        /\ Answer(r, "unauthorized")
     \/ Answer(r, "invalid")
  /\ UNCHANGED <<cfg, wired, now, limiters, objectLimiters, req, taken, objectTaken>>

\* The handler of any other path does its work (modelled in ShareNode).
Handle(r) ==
  /\ hpc[r] = "handler" /\ req[r].path # "/retrieve"
  /\ Answer(r, "handled")
  /\ UNCHANGED <<cfg, wired, now, limiters, objectLimiters, req, taken, objectTaken>>

\* Mutant: Store instead of LoadOrStore.
CheckObjectRateLimitStores(r, o) ==
  /\ objectLimiters' = Took([x \in {o} |-> ObjectBurst], o, ObjectBurst)
  /\ objectTaken' = Counted(objectTaken, o)
  /\ Answer(r, "handled")

\* Mutant: the bucket is made with the burst of the IP limiter.
CheckObjectRateLimitIPBurst(r, o) ==
  /\ objectLimiters' = Took(objectLimiters, o, cfg.burst)
  /\ \/ /\ Allow(objectLimiters, o, cfg.burst)
        /\ objectTaken' = Counted(objectTaken, o)
        /\ Answer(r, "handled")
     \/ /\ ~Allow(objectLimiters, o, cfg.burst)
        /\ Answer(r, "objectLimited")
        /\ UNCHANGED objectTaken

\* checkObjectRateLimit: the id is the object's alone, whatever the contract,
\* and is charged before the signature is looked at.
CheckObjectRateLimit(r, o) ==
  /\ objectLimiters' = Took(objectLimiters, o, ObjectBurst)
  /\ \/ /\ Allow(objectLimiters, o, ObjectBurst)
        /\ objectTaken' = Counted(objectTaken, o)
        /\ Answer(r, "handled")
     \/ /\ ~Allow(objectLimiters, o, ObjectBurst)
        /\ Answer(r, "objectLimited")
        /\ UNCHANGED objectTaken

HandleRetrieve(r) ==
  /\ hpc[r] = "handler" /\ req[r].path = "/retrieve"
  /\ \E o \in ObjectIDs : CheckObjectRateLimit(r, o)
  /\ UNCHANGED <<cfg, wired, now, limiters, req, taken>>

\* A second passes.
Tick ==
  /\ now < MaxTime
  /\ now' = now + 1
  /\ limiters' = Refilled(limiters, cfg.rate, cfg.burst)
  /\ objectLimiters' = Refilled(objectLimiters, ObjectRate, ObjectBurst)
  /\ UNCHANGED <<cfg, wired, hpc, req, resp, taken, objectTaken>>

-----------------------------------------------------------------------------
RequestType == [host : Hosts, port : Ports, path : Paths]
NoRequest == [host |-> <<>>, port |-> "", path |-> ""]
EmptyMap == [x \in {} |-> x]

\* main leaves globalIPLimiter nil; newIPLimiterStore is there to set it.
Init ==
  /\ \E rate \in EnvRates, burst \in EnvBursts, key \in BOOLEAN :
       cfg = LoadConfig(rate, burst, key)
  /\ wired \in BOOLEAN
  /\ now = 0
  /\ limiters = EmptyMap /\ objectLimiters = EmptyMap
  /\ hpc = [r \in Requests |-> "idle"]
  /\ req = [r \in Requests |-> NoRequest]
  /\ resp = [r \in Requests |-> "none"]
  /\ taken = [h \in Hosts |-> [w \in Times |-> 0]]
  /\ objectTaken = [o \in ObjectIDs |-> [w \in Times |-> 0]]

Request(r) ==
  \/ Arrive(r) \/ InnerLimit(r)
  \/ Refused(r) \/ Handle(r) \/ HandleRetrieve(r)

Next == Tick \/ \E r \in Requests : Request(r)

Spec == Init /\ [][Next]_vars

-----------------------------------------------------------------------------
(* Properties.                                                             *)

\* Types; a bucket never holds more than its burst, whoever made it.
TypeOK ==
  /\ cfg \in [rate : Nat, burst : Nat, apiKey : BOOLEAN] /\ wired \in BOOLEAN
  /\ now \in Times
  /\ \A k \in DOMAIN limiters : limiters[k] \in 0..cfg.burst
  /\ \A o \in DOMAIN objectLimiters : objectLimiters[o] \in 0..ObjectBurst
  /\ hpc \in [Requests -> {"idle", "inner", "handler", "done"}]
  /\ req \in [Requests -> RequestType \cup {NoRequest}]
  /\ \A r \in Requests : hpc[r] # "idle" => req[r] \in RequestType
  /\ resp \in [Requests -> {"none", "limited", "unauthorized", "invalid",
                            "objectLimited", "handled"}]
  /\ taken \in [Hosts -> [Times -> Nat]]
  /\ objectTaken \in [ObjectIDs -> [Times -> Nat]]

\* If globalIPLimiter is set: in whatever window of time, from whatever ports,
\* through however many requests at once, a host gets past the limiters no more
\* often than its bucket held and gained tokens (ratelimit.go:41, "per-IP token
\* bucket limits on all endpoints").
IPBudget ==
  wired => \A h \in Hosts : \A w \in 0..now :
             taken[h][w] <= cfg.burst + cfg.rate * (now - w)

\* The same of the retrievals of one object, whoever asks for it
\* (ratelimit.go:56, "returns false if the object has exceeded its per-second
\* quota").
ObjectBudget ==
  \A o \in ObjectIDs : \A w \in 0..now :
    objectTaken[o][w] <= ObjectBurst + ObjectRate * (now - w)

\* A host whose address is not cut short by the split at ":".
WholeHost(h) == Len(h) = 1

\* Such a host is turned away for what it asked for itself only: since some
\* moment its own requests, whatever others did, have got past the limiters as
\* often as a full bucket and all it gained allow.
LimitedByOwnHost ==
  [][\A r \in Requests :
       resp[r] # "limited" /\ resp'[r] = "limited" /\ WholeHost(req'[r].host) =>
         \E w \in 0..now :
           taken[req'[r].host][w] >= cfg.burst + cfg.rate * (now - w)]_vars
=============================================================================
