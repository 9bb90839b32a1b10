--------------------------- MODULE GatewayProofs ---------------------------
(***************************************************************************)
(* Theorems about Gateway: the buckets keep their types and the budgets    *)
(* hold for any number of requests, hosts and objects, any rates and       *)
(* bursts, and any length of time.                                         *)
(*                                                                         *)
(* A budget is not inductive: that a window's tokens fit it says nothing   *)
(* of those the bucket can still give.  What is preserved is that the two  *)
(* together fit it, and that a bucket not yet made owes nothing.  That a   *)
(* host is turned away for its own requests only is the other side: of the *)
(* window that began when its bucket was last full, the two together are   *)
(* all there is.                                                           *)
(***************************************************************************)
EXTENDS Gateway, TLAPS

\* At time t, the tokens given since w (h[w]) and those still in bucket k of
\* the map l are together no more than the window is worth, for every w.
Owes(l, k, h, rate, burst, t) ==
  \A w \in Times :
    IF w <= t
      THEN h[w] + Get(l, k, burst) <= burst + rate * (t - w)
      ELSE h[w] = 0

BucketOf(h) == Head(h)

IPInv ==
  /\ TypeOK
  /\ wired => \A h \in Hosts :
       Owes(limiters, BucketOf(h), taken[h], cfg.rate, cfg.burst, now)

ObjectInv ==
  /\ TypeOK
  /\ \A o \in ObjectIDs :
       Owes(objectLimiters, o, objectTaken[o], ObjectRate, ObjectBurst, now)

-----------------------------------------------------------------------------
(* Buckets.                                                                *)

\* A map of buckets, none over the burst.
Buckets(l, burst) == \A k \in DOMAIN l : l[k] \in 0..burst

LEMMA GetType ==
  ASSUME NEW l, NEW k, NEW burst \in Nat, Buckets(l, burst)
  PROVE  Get(l, k, burst) \in 0..burst
BY DEF Get, Buckets

\* Allow leaves every other bucket alone and takes at most one token.
LEMMA TookGet ==
  ASSUME NEW l, NEW k, NEW burst \in Nat, Buckets(l, burst)
  PROVE  /\ Buckets(Took(l, k, burst), burst)
         /\ Get(Took(l, k, burst), k, burst) =
              IF Allow(l, k, burst) THEN Get(l, k, burst) - 1 ELSE Get(l, k, burst)
         /\ \A x : x # k => Get(Took(l, k, burst), x, burst) = Get(l, x, burst)
<1>1. Get(l, k, burst) \in 0..burst
  BY GetType
<1> DEFINE t == Took(l, k, burst)
<1>2. DOMAIN t = DOMAIN l \cup {k}
  BY DEF Took
<1>3. t[k] = IF Allow(l, k, burst) THEN Get(l, k, burst) - 1 ELSE Get(l, k, burst)
  BY DEF Took
<1>4. \A x \in DOMAIN l : x # k => t[x] = l[x]
  BY DEF Took
<1>5. t[k] \in 0..burst
  BY <1>1, <1>3 DEF Allow
<1>6. Buckets(t, burst)
  BY <1>2, <1>4, <1>5 DEF Buckets
<1>7. Get(t, k, burst) = t[k]
  BY <1>2 DEF Get
<1>8. ASSUME NEW x, x # k PROVE Get(t, x, burst) = Get(l, x, burst)
  BY <1>2, <1>4, <1>8 DEF Get
<1> QED
  BY <1>3, <1>6, <1>7, <1>8

\* A second takes no token and gives each bucket at most rate of them.
LEMMA RefilledGet ==
  ASSUME NEW l, NEW burst \in Nat, NEW rate \in Nat, Buckets(l, burst)
  PROVE  /\ Buckets(Refilled(l, rate, burst), burst)
         /\ \A k : /\ Get(l, k, burst) <= Get(Refilled(l, rate, burst), k, burst)
                  /\ Get(Refilled(l, rate, burst), k, burst) <= Get(l, k, burst) + rate
                  /\ \/ Get(Refilled(l, rate, burst), k, burst) = burst
                     \/ Get(Refilled(l, rate, burst), k, burst) = Get(l, k, burst) + rate
<1> DEFINE t == Refilled(l, rate, burst)
<1>1. DOMAIN t = DOMAIN l
  BY DEF Refilled
<1>2. \A k \in DOMAIN l : /\ t[k] \in 0..burst /\ l[k] <= t[k] /\ t[k] <= l[k] + rate
                          /\ t[k] = burst \/ t[k] = l[k] + rate
  BY DEF Refilled, Buckets
<1>3. Buckets(t, burst)
  BY <1>1, <1>2 DEF Buckets
<1>4. ASSUME NEW k
      PROVE  /\ Get(l, k, burst) <= Get(t, k, burst)
             /\ Get(t, k, burst) <= Get(l, k, burst) + rate
             /\ Get(t, k, burst) = burst \/ Get(t, k, burst) = Get(l, k, burst) + rate
  <2>1. CASE k \in DOMAIN l
    BY <1>1, <1>2, <2>1 DEF Get
  <2>2. CASE k \notin DOMAIN l
    BY <1>1, <2>2 DEF Get
  <2> QED BY <2>1, <2>2
<1> QED
  BY <1>3, <1>4

LEMMA Distributes ==
  ASSUME NEW a \in Nat, NEW x \in Nat
  PROVE  a * (x + 1) = a * x + a /\ a * x \in Nat /\ a * 0 = 0
OBVIOUS

-----------------------------------------------------------------------------
(* What a bucket owes.                                                     *)

LEMMA TimesType == Times \subseteq Nat
BY DEF Times

\* A second later.
LEMMA OwesTick ==
  ASSUME NEW l, NEW k, NEW rate \in Nat, NEW burst \in Nat, Buckets(l, burst),
         NEW t \in Nat, NEW u, u = t + 1, NEW h \in [Times -> Nat],
         Owes(l, k, h, rate, burst, t)
  PROVE  Owes(Refilled(l, rate, burst), k, h, rate, burst, u)
<1> DEFINE g == Get(l, k, burst)
<1> DEFINE g1 == Get(Refilled(l, rate, burst), k, burst)
<1>1. g \in 0..burst /\ g1 \in 0..burst /\ g1 <= g + rate
  BY GetType, RefilledGet
<1> HIDE DEF g, g1
<1>2. ASSUME NEW w \in Times
      PROVE  IF w <= u THEN h[w] + g1 <= burst + rate * (u - w) ELSE h[w] = 0
  <2>1. w \in Nat /\ h[w] \in Nat
    BY TimesType
  <2>2. IF w <= t THEN h[w] + g <= burst + rate * (t - w) ELSE h[w] = 0
    BY DEF Owes, g
  <2>3. CASE w <= t
    <3>1. rate * ((t - w) + 1) = rate * (t - w) + rate /\ rate * (t - w) \in Nat
      BY <2>1, <2>3, Distributes
    <3>2. (t - w) + 1 = u - w
      BY <2>1
    <3> QED
      BY <1>1, <2>1, <2>2, <2>3, <3>1, <3>2
  <2>4. CASE w = u
    <3>1. rate * (u - w) = 0
      BY <2>1, <2>4
    <3> QED
      BY <1>1, <2>1, <2>2, <2>4, <3>1
  <2>5. CASE w > u
    BY <2>1, <2>2, <2>5
  <2> QED
    BY <2>1, <2>3, <2>4, <2>5
<1> QED
  BY <1>2 DEF Owes, g1

\* A token taken from some bucket, and counted in h1 if the bucket is k.
LEMMA OwesTake ==
  ASSUME NEW l, NEW k, NEW j, NEW rate \in Nat, NEW burst \in Nat,
         Buckets(l, burst), NEW t \in Nat,
         NEW h \in [Times -> Nat], NEW h1 \in [Times -> Nat],
         Owes(l, k, h, rate, burst, t),
         \/ h1 = h
         \/ /\ j = k /\ Allow(l, j, burst)
            /\ \A w \in Times : h1[w] = IF w <= t THEN h[w] + 1 ELSE h[w]
  PROVE  Owes(Took(l, j, burst), k, h1, rate, burst, t)
<1> DEFINE g == Get(l, k, burst)
<1> DEFINE g1 == Get(Took(l, j, burst), k, burst)
<1>1. g \in 0..burst /\ g1 \in 0..burst
  BY GetType, TookGet
<1>2. g1 <= g /\ (j = k /\ Allow(l, j, burst) => g1 = g - 1)
  <2>1. CASE j = k
    BY <1>1, <2>1, TookGet
  <2>2. CASE j # k
    BY <1>1, <2>2, TookGet
  <2> QED
    BY <2>1, <2>2
<1> HIDE DEF g, g1
<1>3. ASSUME NEW w \in Times
      PROVE  IF w <= t THEN h1[w] + g1 <= burst + rate * (t - w) ELSE h1[w] = 0
  <2>1. w \in Nat
    BY TimesType
  <2>2. h[w] \in Nat /\ h1[w] \in Nat
    OBVIOUS
  <2>3. IF w <= t THEN h[w] + g <= burst + rate * (t - w) ELSE h[w] = 0
    BY DEF Owes, g
  <2>4. CASE w <= t
    <3>1. rate * (t - w) \in Nat
      BY <2>1, <2>4, Distributes
    <3>2. h1[w] + g1 <= h[w] + g
      BY <1>1, <1>2, <2>2, <2>4
    <3> QED
      BY <1>1, <2>2, <2>3, <2>4, <3>1, <3>2
  <2>5. CASE ~(w <= t)
    BY <2>3, <2>5
  <2> QED
    BY <2>4, <2>5
<1> QED
  BY <1>3 DEF Owes, g1

LEMMA OwesInit ==
  ASSUME NEW k, NEW rate \in Nat, NEW burst \in Nat, NEW h, h = [w \in Times |-> 0]
  PROVE  Owes(EmptyMap, k, h, rate, burst, 0)
<1>1. Get(EmptyMap, k, burst) = burst
  BY DEF Get, EmptyMap
<1> SUFFICES ASSUME NEW w \in Times
             PROVE  IF w <= 0 THEN h[w] + burst <= burst + rate * (0 - w)
                                ELSE h[w] = 0
  BY <1>1 DEF Owes
<1>2. w \in Nat
  BY DEF Times
<1>3. w <= 0 => rate * (0 - w) = 0
  BY <1>2
<1> QED
  BY <1>2, <1>3

-----------------------------------------------------------------------------
(* Types.                                                                  *)

LEMMA BucketIsHead ==
  ASSUME NEW q \in RequestType
  PROVE  Bucket(q) = BucketOf(q.host)
<1>1. q.host \in Seq(STRING \cup Ports) /\ q.host # <<>> /\ q.port \in Ports
  <2>1. q.host \in Seq(STRING) /\ q.host # <<>> /\ q.port \in Ports
    BY HostsAssumption DEF RequestType
  <2> QED BY <2>1
<1>2. Head(q.host \o <<q.port>>) = Head(q.host)
  BY <1>1
<1> QED
  BY <1>2 DEF Bucket, Ip, BucketOf

LEMMA CountedType ==
  ASSUME NEW X, NEW history \in [X -> [Times -> Nat]], NEW x \in X
  PROVE  /\ Counted(history, x) \in [X -> [Times -> Nat]]
         /\ \A y \in X : y # x => Counted(history, x)[y] = history[y]
         /\ \A w \in Times : Counted(history, x)[x][w] =
              IF w <= now THEN history[x][w] + 1 ELSE history[x][w]
BY DEF Counted

LEMMA NumberType ==
  ASSUME NEW numbers \in SUBSET Nat, NEW fallback \in Nat
  PROVE  GetEnvNumber(numbers, fallback) \in Nat
BY DEF GetEnvNumber

\* What a passage through the limiter does to the types.
LEMMA RateLimitType ==
  ASSUME TypeOK, NEW r \in Requests, NEW point \in {"inner", "handler"},
         NEW q \in RequestType,
         RateLimit(r, q, point)
  PROVE  /\ Buckets(limiters', cfg.burst)
         /\ taken' \in [Hosts -> [Times -> Nat]]
         /\ hpc' \in [Requests -> {"idle", "inner", "handler", "done"}]
         /\ resp' \in [Requests -> {"none", "limited", "unauthorized", "invalid",
                                    "objectLimited", "handled"}]
         /\ \A s \in Requests \ {r} : hpc'[s] = hpc[s]
<1>1. cfg.burst \in Nat /\ Buckets(limiters, cfg.burst)
  BY DEF TypeOK, Buckets
<1>2. Buckets(Took(limiters, Bucket(q), cfg.burst), cfg.burst)
  BY <1>1, TookGet
<1>3. Buckets(limiters', cfg.burst)
  BY <1>1, <1>2 DEF RateLimit
<1>4. Counted(taken, q.host) \in [Hosts -> [Times -> Nat]]
  BY CountedType DEF TypeOK, RequestType
<1>5. taken' \in [Hosts -> [Times -> Nat]]
  BY <1>4 DEF RateLimit, TypeOK
<1> QED
  BY <1>3, <1>5 DEF RateLimit, GoTo, Answer, TypeOK

LEMMA TypeInit == Init => TypeOK
<1> SUFFICES ASSUME Init PROVE TypeOK
  OBVIOUS
<1>1. cfg \in [rate : Nat, burst : Nat, apiKey : BOOLEAN]
  <2>1. PICK rate \in EnvRates, burst \in EnvBursts, key \in BOOLEAN :
          cfg = LoadConfig(rate, burst, key)
    BY DEF Init
  <2> QED
    BY <2>1, NumberType, RatesAssumption DEF LoadConfig
<1>2. now \in Times
  BY RatesAssumption DEF Init, Times
<1>3. DOMAIN limiters = {} /\ DOMAIN objectLimiters = {}
  BY DEF Init, EmptyMap
<1> QED
  BY <1>1, <1>2, <1>3 DEF Init, TypeOK

LEMMA TypeStep == TypeOK /\ [Next]_vars => TypeOK'
<1> SUFFICES ASSUME TypeOK, [Next]_vars PROVE TypeOK'
  OBVIOUS
<1>0. /\ cfg.burst \in Nat /\ cfg.rate \in Nat /\ ObjectBurst \in Nat /\ ObjectRate \in Nat
      /\ Buckets(limiters, cfg.burst) /\ Buckets(objectLimiters, ObjectBurst)
  BY RatesAssumption DEF TypeOK, Buckets
<1>1. ASSUME NEW r \in Requests, Arrive(r) PROVE TypeOK'
  <2>1. PICK h \in Hosts, p \in Ports, path \in Paths :
          /\ req' = [req EXCEPT ![r] = [host |-> h, port |-> p, path |-> path]]
          /\ RateLimit(r, [host |-> h, port |-> p, path |-> path],
                       IF path = "/retrieve" THEN "inner" ELSE "handler")
    BY <1>1 DEF Arrive
  <2> DEFINE q == [host |-> h, port |-> p, path |-> path]
  <2>2. q \in RequestType
    BY DEF RequestType
  <2>3. /\ Buckets(limiters', cfg.burst)
        /\ taken' \in [Hosts -> [Times -> Nat]]
        /\ hpc' \in [Requests -> {"idle", "inner", "handler", "done"}]
        /\ resp' \in [Requests -> {"none", "limited", "unauthorized", "invalid",
                                   "objectLimited", "handled"}]
        /\ \A s \in Requests \ {r} : hpc'[s] = hpc[s]
    BY <2>1, <2>2, RateLimitType
  <2>4. \A s \in Requests : hpc'[s] # "idle" =>
          req'[s] \in RequestType
    BY <2>1, <2>2, <2>3 DEF TypeOK
  <2>5. req' \in [Requests -> RequestType \cup {NoRequest}]
    BY <2>1, <2>2 DEF TypeOK
  <2> QED
    BY <1>1, <2>1, <2>3, <2>4, <2>5 DEF Arrive, TypeOK, Buckets
<1>2. ASSUME NEW r \in Requests, InnerLimit(r) PROVE TypeOK'
  <2>1. req[r] \in RequestType
    BY <1>2 DEF InnerLimit, TypeOK
  <2>2. /\ Buckets(limiters', cfg.burst)
        /\ taken' \in [Hosts -> [Times -> Nat]]
        /\ hpc' \in [Requests -> {"idle", "inner", "handler", "done"}]
        /\ resp' \in [Requests -> {"none", "limited", "unauthorized", "invalid",
                                   "objectLimited", "handled"}]
        /\ \A s \in Requests \ {r} : hpc'[s] = hpc[s]
    BY <1>2, <2>1, RateLimitType DEF InnerLimit
  <2> QED
    BY <1>2, <2>1, <2>2 DEF InnerLimit, TypeOK, Buckets
<1>3. ASSUME NEW r \in Requests, Refused(r) \/ Handle(r) PROVE TypeOK'
  BY <1>3 DEF Refused, Handle, Answer, TypeOK
<1>4. ASSUME NEW r \in Requests, HandleRetrieve(r) PROVE TypeOK'
  <2>1. PICK o \in ObjectIDs : CheckObjectRateLimit(r, o)
    BY <1>4 DEF HandleRetrieve
  <2>2. Buckets(objectLimiters', ObjectBurst)
    BY <1>0, <2>1, TookGet DEF CheckObjectRateLimit
  <2>3. Counted(objectTaken, o) \in [ObjectIDs -> [Times -> Nat]]
    BY CountedType DEF TypeOK
  <2>4. objectTaken' \in [ObjectIDs -> [Times -> Nat]]
    BY <2>1, <2>3 DEF CheckObjectRateLimit, TypeOK
  <2> QED
    BY <1>4, <2>1, <2>2, <2>4
    DEF HandleRetrieve, CheckObjectRateLimit, Answer, TypeOK, Buckets
<1>5. CASE Tick
  <2>1. Buckets(limiters', cfg.burst) /\ Buckets(objectLimiters', ObjectBurst)
    BY <1>0, <1>5, RefilledGet DEF Tick
  <2>2. now' \in Times
    BY <1>5, RatesAssumption DEF Tick, TypeOK, Times
  <2> QED
    BY <1>5, <2>1, <2>2 DEF Tick, TypeOK, Buckets
<1>6. CASE UNCHANGED vars
  BY <1>6 DEF vars, TypeOK
<1> QED
  BY <1>1, <1>2, <1>3, <1>4, <1>5, <1>6 DEF Next, Request

\* Every bucket stays between empty and its burst, and the node's middleware
\* state keeps its types, whatever the configuration.
THEOREM TypeCorrect == Spec => []TypeOK
BY TypeInit, TypeStep, PTL DEF Spec

-----------------------------------------------------------------------------
(* The budget of a host.                                                   *)

\* A passage through the limiter keeps what every host is owed.
LEMMA RateLimitOwes ==
  ASSUME IPInv, wired, NEW r \in Requests, NEW point, NEW q \in RequestType,
         RateLimit(r, q, point), UNCHANGED <<cfg, now>>
  PROVE  \A h \in Hosts :
           Owes(limiters', BucketOf(h), taken'[h], cfg'.rate, cfg'.burst, now')
<1> SUFFICES ASSUME NEW h \in Hosts
             PROVE  Owes(limiters', BucketOf(h), taken'[h], cfg'.rate, cfg'.burst, now')
  OBVIOUS
<1>1. /\ cfg.burst \in Nat /\ cfg.rate \in Nat /\ now \in Times
      /\ Buckets(limiters, cfg.burst) /\ taken[h] \in [Times -> Nat]
      /\ taken \in [Hosts -> [Times -> Nat]] /\ q.host \in Hosts
  BY DEF IPInv, TypeOK, Buckets, RequestType
<1>2. Owes(limiters, BucketOf(h), taken[h], cfg.rate, cfg.burst, now)
  BY DEF IPInv
<1> DEFINE t == Took(limiters, Bucket(q), cfg.burst)
<1>3. limiters' = t
  BY DEF RateLimit
<1>4. /\ taken'[h] \in [Times -> Nat]
      /\ \/ taken'[h] = taken[h]
         \/ /\ Bucket(q) = BucketOf(h) /\ Allow(limiters, Bucket(q), cfg.burst)
            /\ \A w \in Times :
                 taken'[h][w] = IF w <= now THEN taken[h][w] + 1 ELSE taken[h][w]
  <2>1. CASE taken' = taken
    BY <1>1, <2>1
  <2>2. CASE taken' = Counted(taken, q.host) /\ Allow(limiters, Bucket(q), cfg.burst)
    <3>1. taken' \in [Hosts -> [Times -> Nat]]
      BY <1>1, <2>2, CountedType
    <3>2. CASE q.host = h
      BY <1>1, <2>2, <3>1, <3>2, CountedType, BucketIsHead
    <3>3. CASE q.host # h
      BY <1>1, <2>2, <3>1, <3>3, CountedType
    <3> QED
      BY <3>2, <3>3
  <2> QED
    BY <2>1, <2>2 DEF RateLimit
<1>5. Owes(t, BucketOf(h), taken'[h], cfg.rate, cfg.burst, now)
  BY <1>1, <1>2, <1>4, TimesType, OwesTake
<1> QED
  BY <1>3, <1>5

LEMMA IPInit == Init => IPInv
<1> SUFFICES ASSUME Init PROVE IPInv
  OBVIOUS
<1>1. TypeOK
  BY TypeInit
<1>2. ASSUME NEW h \in Hosts
      PROVE  Owes(limiters, BucketOf(h), taken[h], cfg.rate, cfg.burst, now)
  BY <1>1, OwesInit DEF Init, TypeOK
<1> QED
  BY <1>1, <1>2 DEF IPInv

LEMMA IPStep == IPInv /\ [Next]_vars => IPInv'
<1> SUFFICES ASSUME IPInv, [Next]_vars PROVE IPInv'
  OBVIOUS
<1>1. TypeOK'
  BY TypeStep DEF IPInv
<1> SUFFICES ASSUME wired
             PROVE  \A h \in Hosts : Owes(limiters', BucketOf(h), taken'[h],
                                         cfg'.rate, cfg'.burst, now')
  <2>1. wired' = wired
    BY DEF Next, Request, Arrive, InnerLimit, Refused, Handle, HandleRetrieve, Tick, vars
  <2> QED BY <1>1, <2>1 DEF IPInv, Owes, Get, BucketOf
<1> DEFINE Goal == \A h \in Hosts :
             Owes(limiters', BucketOf(h), taken'[h], cfg'.rate, cfg'.burst, now')
<1>2. ASSUME NEW r \in Requests, Arrive(r) PROVE Goal
  <2>1. PICK h \in Hosts, p \in Ports, path \in Paths :
          RateLimit(r, [host |-> h, port |-> p, path |-> path],
                    IF path = "/retrieve" THEN "inner" ELSE "handler")
    BY <1>2 DEF Arrive
  <2>2. [host |-> h, port |-> p, path |-> path] \in RequestType
    BY DEF RequestType
  <2> QED
    BY <1>2, <2>1, <2>2, RateLimitOwes DEF Arrive
<1>3. ASSUME NEW r \in Requests, InnerLimit(r) PROVE Goal
  <2>1. req[r] \in RequestType
    BY <1>3 DEF InnerLimit, IPInv, TypeOK
  <2> QED
    BY <1>3, <2>1, RateLimitOwes DEF InnerLimit
<1>4. ASSUME NEW r \in Requests, Refused(r) \/ Handle(r) \/ HandleRetrieve(r)
      PROVE  Goal
  BY <1>4 DEF Refused, Handle, HandleRetrieve, IPInv
<1>5. ASSUME Tick PROVE Goal
  <2> SUFFICES ASSUME NEW h \in Hosts
               PROVE  Owes(limiters', BucketOf(h), taken'[h], cfg'.rate, cfg'.burst, now')
    OBVIOUS
  <2>1. /\ cfg.burst \in Nat /\ cfg.rate \in Nat /\ now \in Times
        /\ Buckets(limiters, cfg.burst) /\ taken[h] \in [Times -> Nat]
    BY DEF IPInv, TypeOK, Buckets
  <2>2. Owes(limiters, BucketOf(h), taken[h], cfg.rate, cfg.burst, now)
    BY DEF IPInv
  <2>3. Owes(Refilled(limiters, cfg.rate, cfg.burst), BucketOf(h), taken[h],
             cfg.rate, cfg.burst, now')
    BY <1>5, <2>1, <2>2, TimesType, OwesTick DEF Tick
  <2> QED
    BY <1>5, <2>3 DEF Tick
<1>6. ASSUME UNCHANGED vars PROVE Goal
  BY <1>6 DEF vars, IPInv
<1> QED
  BY <1>2, <1>3, <1>4, <1>5, <1>6 DEF Next, Request

\* Where the limiter is set, no host gets past it more often in any window than
\* the window is worth, for any number of hosts, ports and concurrent requests,
\* both limiters of /retrieve included, and IPv6 hosts that share a bucket too
\* (rateLimitMiddleware, get).
THEOREM HostsWithinBudget == Spec => []IPBudget
<1>1. IPInv => IPBudget
  <2> SUFFICES ASSUME IPInv, wired, NEW h \in Hosts, NEW w \in 0..now
               PROVE  taken[h][w] <= cfg.burst + cfg.rate * (now - w)
    BY DEF IPBudget
  <2>1. /\ cfg.burst \in Nat /\ cfg.rate \in Nat /\ now \in Nat /\ w \in Times
        /\ w \in Nat /\ w <= now
        /\ Buckets(limiters, cfg.burst) /\ taken[h][w] \in Nat
    BY RatesAssumption DEF IPInv, TypeOK, Buckets, Times
  <2>2. Get(limiters, BucketOf(h), cfg.burst) \in 0..cfg.burst
    BY <2>1, GetType
  <2>3. taken[h][w] + Get(limiters, BucketOf(h), cfg.burst)
          <= cfg.burst + cfg.rate * (now - w)
    BY <2>1 DEF IPInv, Owes
  <2>4. cfg.rate * (now - w) \in Nat
    BY <2>1, Distributes
  <2> QED
    BY <2>1, <2>2, <2>3, <2>4
<1> QED
  BY <1>1, IPInit, IPStep, PTL DEF Spec

-----------------------------------------------------------------------------
(* The budget of an object.                                                *)

LEMMA ObjectInit == Init => ObjectInv
<1> SUFFICES ASSUME Init PROVE ObjectInv
  OBVIOUS
<1>1. TypeOK
  BY TypeInit
<1>2. ASSUME NEW o \in ObjectIDs
      PROVE  Owes(objectLimiters, o, objectTaken[o], ObjectRate, ObjectBurst, now)
  BY OwesInit, RatesAssumption DEF Init
<1> QED
  BY <1>1, <1>2 DEF ObjectInv

LEMMA ObjectStep == ObjectInv /\ [Next]_vars => ObjectInv'
<1> SUFFICES ASSUME ObjectInv, [Next]_vars PROVE ObjectInv'
  OBVIOUS
<1>1. TypeOK'
  BY TypeStep DEF ObjectInv
<1>2. SUFFICES ASSUME NEW o \in ObjectIDs
               PROVE  Owes(objectLimiters', o, objectTaken'[o], ObjectRate,
                           ObjectBurst, now')
  BY <1>1 DEF ObjectInv, Owes, Get
<1> DEFINE Goal == Owes(objectLimiters', o, objectTaken'[o], ObjectRate,
                        ObjectBurst, now')
<1>3. /\ ObjectBurst \in Nat /\ ObjectRate \in Nat /\ now \in Nat
      /\ Buckets(objectLimiters, ObjectBurst)
      /\ objectTaken \in [ObjectIDs -> [Times -> Nat]]
      /\ objectTaken[o] \in [Times -> Nat]
  BY RatesAssumption, TimesType DEF ObjectInv, TypeOK, Buckets
<1>4. Owes(objectLimiters, o, objectTaken[o], ObjectRate, ObjectBurst, now)
  BY DEF ObjectInv
<1>5. ASSUME NEW r \in Requests, HandleRetrieve(r) PROVE Goal
  <2>1. PICK p \in ObjectIDs : CheckObjectRateLimit(r, p)
    BY <1>5 DEF HandleRetrieve
  <2>2. objectLimiters' = Took(objectLimiters, p, ObjectBurst) /\ now' = now
    BY <1>5, <2>1 DEF HandleRetrieve, CheckObjectRateLimit
  <2>3. /\ objectTaken'[o] \in [Times -> Nat]
        /\ \/ objectTaken'[o] = objectTaken[o]
           \/ /\ p = o /\ Allow(objectLimiters, p, ObjectBurst)
              /\ \A w \in Times : objectTaken'[o][w] =
                   IF w <= now THEN objectTaken[o][w] + 1 ELSE objectTaken[o][w]
    <3>1. CASE objectTaken' = objectTaken
      BY <1>3, <3>1
    <3>2. CASE /\ objectTaken' = Counted(objectTaken, p)
               /\ Allow(objectLimiters, p, ObjectBurst)
      <4>1. objectTaken' \in [ObjectIDs -> [Times -> Nat]]
        BY <1>3, <3>2, CountedType
      <4> DEFINE c == Counted(objectTaken, p)
      <4>2. /\ \A y \in ObjectIDs : y # p => c[y] = objectTaken[y]
            /\ \A w \in Times :
                 c[p][w] = IF w <= now THEN objectTaken[p][w] + 1 ELSE objectTaken[p][w]
        BY <1>3, CountedType
      <4> HIDE DEF c
      <4>3. CASE p = o
        BY <3>2, <4>1, <4>2, <4>3 DEF c
      <4>4. CASE p # o
        BY <3>2, <4>1, <4>2, <4>4 DEF c
      <4> QED
        BY <4>3, <4>4
    <3> QED
      BY <2>1, <3>1, <3>2 DEF CheckObjectRateLimit
  <2>4. Owes(Took(objectLimiters, p, ObjectBurst), o, objectTaken'[o],
             ObjectRate, ObjectBurst, now)
    BY <1>3, <1>4, <2>3, OwesTake
  <2> QED
    BY <2>2, <2>4
<1>6. ASSUME Tick PROVE Goal
  <2>1. Owes(Refilled(objectLimiters, ObjectRate, ObjectBurst), o, objectTaken[o],
             ObjectRate, ObjectBurst, now')
    BY <1>3, <1>4, <1>6, OwesTick DEF Tick
  <2> QED
    BY <1>6, <2>1 DEF Tick
<1>7. ASSUME NEW r \in Requests,
             Arrive(r) \/ InnerLimit(r) \/ Refused(r) \/ Handle(r)
      PROVE  Goal
  BY <1>4, <1>7 DEF Arrive, InnerLimit, Refused, Handle
<1>8. ASSUME UNCHANGED vars PROVE Goal
  BY <1>4, <1>8 DEF vars
<1> QED
  BY <1>5, <1>6, <1>7, <1>8 DEF Next, Request

\* No object is retrieved more often in any window than its bucket allows,
\* for any number of objects and concurrent requests.
THEOREM ObjectsWithinBudget == Spec => []ObjectBudget
<1>1. ObjectInv => ObjectBudget
  <2> SUFFICES ASSUME ObjectInv, NEW o \in ObjectIDs, NEW w \in 0..now
               PROVE  objectTaken[o][w] <= ObjectBurst + ObjectRate * (now - w)
    BY DEF ObjectBudget
  <2>1. /\ ObjectBurst \in Nat /\ ObjectRate \in Nat /\ now \in Nat
        /\ w \in Times /\ w \in Nat /\ w <= now
        /\ Buckets(objectLimiters, ObjectBurst) /\ objectTaken[o][w] \in Nat
    BY RatesAssumption DEF ObjectInv, TypeOK, Buckets, Times
  <2>2. Get(objectLimiters, o, ObjectBurst) \in 0..ObjectBurst
    BY <2>1, GetType
  <2>3. objectTaken[o][w] + Get(objectLimiters, o, ObjectBurst)
          <= ObjectBurst + ObjectRate * (now - w)
    BY <2>1 DEF ObjectInv, Owes
  <2>4. ObjectRate * (now - w) \in Nat
    BY <2>1, Distributes
  <2> QED
    BY <2>1, <2>2, <2>3, <2>4
<1> QED
  BY <1>1, ObjectInit, ObjectStep, PTL DEF Spec

-----------------------------------------------------------------------------
(* Who is turned away.                                                     *)

\* Since some moment, the tokens given and those in bucket k are together no
\* less than the window is worth.
Spent(l, k, h, rate, burst, t) ==
  \E w \in Times : w <= t /\ h[w] + Get(l, k, burst) >= burst + rate * (t - w)

\* Of a host that shares its bucket with no other.
OwnInv ==
  /\ TypeOK
  /\ wired => \A h \in Hosts : WholeHost(h) =>
       Spent(limiters, BucketOf(h), taken[h], cfg.rate, cfg.burst, now)

\* A second later the bucket is full, and the window begins now, or it has
\* gained what the window has.
LEMMA SpentTick ==
  ASSUME NEW l, NEW k, NEW rate \in Nat, NEW burst \in Nat, Buckets(l, burst),
         NEW t \in Nat, NEW u \in Times, u = t + 1, NEW h \in [Times -> Nat],
         Spent(l, k, h, rate, burst, t)
  PROVE  Spent(Refilled(l, rate, burst), k, h, rate, burst, u)
<1> DEFINE g == Get(l, k, burst)
<1> DEFINE g1 == Get(Refilled(l, rate, burst), k, burst)
<1>1. g \in 0..burst /\ g1 \in 0..burst /\ (g1 = burst \/ g1 = g + rate)
  BY GetType, RefilledGet
<1>2. PICK w \in Times : w <= t /\ h[w] + g >= burst + rate * (t - w)
  BY DEF Spent
<1> HIDE DEF g, g1
<1>3. CASE g1 = burst
  <2>1. u \in Nat /\ rate * (u - u) = 0 /\ h[u] \in Nat
    OBVIOUS
  <2>2. u <= u /\ h[u] + g1 >= burst + rate * (u - u)
    BY <1>3, <2>1
  <2> QED BY <2>2 DEF Spent, g1
<1>4. CASE g1 = g + rate
  <2>1. w \in Nat /\ h[w] \in Nat /\ t - w \in Nat
    BY <1>2, TimesType
  <2>2. rate * ((t - w) + 1) = rate * (t - w) + rate /\ rate * (t - w) \in Nat
    BY <2>1, Distributes
  <2>3. (t - w) + 1 = u - w
    BY <2>1
  <2>4. w <= u /\ h[w] + g1 >= burst + rate * (u - w)
    BY <1>1, <1>2, <1>4, <2>1, <2>2, <2>3
  <2> QED BY <2>4 DEF Spent, g1
<1> QED
  BY <1>1, <1>3, <1>4

\* Bucket k loses a token only when one is counted.
LEMMA SpentTake ==
  ASSUME NEW l, NEW k, NEW j, NEW rate \in Nat, NEW burst \in Nat,
         Buckets(l, burst), NEW t \in Nat,
         NEW h \in [Times -> Nat], NEW h1 \in [Times -> Nat],
         Spent(l, k, h, rate, burst, t),
         \/ h1 = h /\ (j # k \/ ~Allow(l, j, burst))
         \/ \A w \in Times : h1[w] = IF w <= t THEN h[w] + 1 ELSE h[w]
  PROVE  Spent(Took(l, j, burst), k, h1, rate, burst, t)
<1> DEFINE g == Get(l, k, burst)
<1> DEFINE g1 == Get(Took(l, j, burst), k, burst)
<1>1. g \in 0..burst /\ g1 \in 0..burst
  BY GetType, TookGet
<1>2. g1 >= g - 1 /\ (j # k \/ ~Allow(l, j, burst) => g1 = g)
  <2>1. CASE j = k
    BY <1>1, <2>1, TookGet
  <2>2. CASE j # k
    BY <1>1, <2>2, TookGet
  <2> QED
    BY <2>1, <2>2
<1>3. PICK w \in Times : w <= t /\ h[w] + g >= burst + rate * (t - w)
  BY DEF Spent
<1> HIDE DEF g, g1
<1>4. w \in Nat /\ h[w] \in Nat /\ h1[w] \in Nat /\ t - w \in Nat
  BY <1>3, TimesType
<1>5. h1[w] + g1 >= h[w] + g
  BY <1>1, <1>2, <1>3, <1>4
<1>6. rate * (t - w) \in Nat
  BY <1>4, Distributes
<1>7. h1[w] + g1 >= burst + rate * (t - w)
  BY <1>1, <1>3, <1>4, <1>5, <1>6
<1> QED
  BY <1>3, <1>7 DEF Spent, g1

\* A passage through the limiter: only h itself touches the bucket of h.
LEMMA RateLimitSpent ==
  ASSUME OwnInv, wired, NEW r \in Requests, NEW point, NEW q \in RequestType,
         RateLimit(r, q, point), NEW h \in Hosts, WholeHost(h)
  PROVE  Spent(limiters', BucketOf(h), taken'[h], cfg.rate, cfg.burst, now)
<1>1. /\ cfg.burst \in Nat /\ cfg.rate \in Nat /\ now \in Nat
      /\ Buckets(limiters, cfg.burst) /\ taken[h] \in [Times -> Nat]
      /\ taken \in [Hosts -> [Times -> Nat]] /\ q.host \in Hosts
  BY TimesType DEF OwnInv, TypeOK, Buckets, RequestType
<1>2. Spent(limiters, BucketOf(h), taken[h], cfg.rate, cfg.burst, now)
  BY DEF OwnInv
<1>3. limiters' = Took(limiters, Bucket(q), cfg.burst)
  BY DEF RateLimit
<1>4. Bucket(q) = BucketOf(q.host)
  BY BucketIsHead
<1>5. /\ taken'[h] \in [Times -> Nat]
      /\ \/ taken'[h] = taken[h] /\ (Bucket(q) # BucketOf(h) \/ ~Allow(limiters, Bucket(q), cfg.burst))
         \/ \A w \in Times :
              taken'[h][w] = IF w <= now THEN taken[h][w] + 1 ELSE taken[h][w]
  <2>1. CASE taken' = taken /\ ~Allow(limiters, Bucket(q), cfg.burst)
    BY <1>1, <2>1
  <2>2. CASE taken' = Counted(taken, q.host)
    <3>1. taken' \in [Hosts -> [Times -> Nat]]
      BY <1>1, <2>2, CountedType
    <3>2. CASE q.host = h
      BY <1>1, <2>2, <3>1, <3>2, CountedType
    <3>3. CASE q.host # h
      <4>1. Bucket(q) # BucketOf(h)
        BY <1>1, <1>4, <3>3, HostsAssumption DEF BucketOf, WholeHost
      <4>2. taken'[h] = taken[h]
        BY <1>1, <2>2, <3>3, CountedType
      <4> QED BY <3>1, <4>1, <4>2
    <3> QED
      BY <3>2, <3>3
  <2> QED
    BY <2>1, <2>2 DEF RateLimit
<1> QED
  BY <1>1, <1>2, <1>3, <1>5, SpentTake

LEMMA OwnInit == Init => OwnInv
<1> SUFFICES ASSUME Init PROVE OwnInv
  OBVIOUS
<1>1. TypeOK
  BY TypeInit
<1>2. ASSUME NEW h \in Hosts
      PROVE  Spent(limiters, BucketOf(h), taken[h], cfg.rate, cfg.burst, now)
  <2>1. Get(limiters, BucketOf(h), cfg.burst) = cfg.burst
    BY DEF Init, EmptyMap, Get
  <2>2. cfg.burst \in Nat /\ cfg.rate \in Nat /\ now = 0 /\ 0 \in Times /\ taken[h][0] = 0
    BY <1>1, RatesAssumption DEF Init, TypeOK, Times
  <2>3. cfg.rate * (0 - 0) = 0
    BY <2>2
  <2> QED
    BY <2>1, <2>2, <2>3 DEF Spent
<1> QED
  BY <1>1, <1>2 DEF OwnInv

LEMMA OwnStep == OwnInv /\ [Next]_vars => OwnInv'
<1> SUFFICES ASSUME OwnInv, [Next]_vars PROVE OwnInv'
  OBVIOUS
<1>1. TypeOK'
  BY TypeStep DEF OwnInv
<1> SUFFICES ASSUME wired, NEW h \in Hosts, WholeHost(h)
             PROVE  Spent(limiters', BucketOf(h), taken'[h], cfg'.rate, cfg'.burst, now')
  <2>1. wired' = wired
    BY DEF Next, Request, Arrive, InnerLimit, Refused, Handle, HandleRetrieve, Tick, vars
  <2> QED BY <1>1, <2>1 DEF OwnInv, Spent, Get, BucketOf, WholeHost
<1> DEFINE Goal == Spent(limiters', BucketOf(h), taken'[h], cfg'.rate, cfg'.burst, now')
<1>2. Spent(limiters, BucketOf(h), taken[h], cfg.rate, cfg.burst, now)
  BY DEF OwnInv
<1>3. ASSUME NEW r \in Requests, Arrive(r) PROVE Goal
  <2>1. PICK k \in Hosts, p \in Ports, path \in Paths :
          RateLimit(r, [host |-> k, port |-> p, path |-> path],
                    IF path = "/retrieve" THEN "inner" ELSE "handler")
    BY <1>3 DEF Arrive
  <2>2. [host |-> k, port |-> p, path |-> path] \in RequestType
    BY DEF RequestType
  <2>3. Spent(limiters', BucketOf(h), taken'[h], cfg.rate, cfg.burst, now)
    BY <2>1, <2>2, RateLimitSpent
  <2> QED
    BY <1>3, <2>3 DEF Arrive
<1>4. ASSUME NEW r \in Requests, InnerLimit(r) PROVE Goal
  <2>1. req[r] \in RequestType /\ RateLimit(r, req[r], "handler")
    BY <1>4 DEF InnerLimit, OwnInv, TypeOK
  <2>2. Spent(limiters', BucketOf(h), taken'[h], cfg.rate, cfg.burst, now)
    BY <2>1, RateLimitSpent
  <2> QED
    BY <1>4, <2>2 DEF InnerLimit
<1>5. ASSUME NEW r \in Requests, Refused(r) \/ Handle(r) \/ HandleRetrieve(r)
      PROVE  Goal
  BY <1>2, <1>5 DEF Refused, Handle, HandleRetrieve
<1>6. ASSUME Tick PROVE Goal
  <2>1. /\ cfg.burst \in Nat /\ cfg.rate \in Nat /\ now \in Nat /\ now' \in Times
        /\ Buckets(limiters, cfg.burst) /\ taken[h] \in [Times -> Nat]
    BY <1>1, TimesType DEF OwnInv, TypeOK, Buckets
  <2>2. Spent(Refilled(limiters, cfg.rate, cfg.burst), BucketOf(h), taken[h],
              cfg.rate, cfg.burst, now')
    BY <1>2, <1>6, <2>1, SpentTick DEF Tick
  <2> QED
    BY <1>6, <2>2 DEF Tick
<1>7. ASSUME UNCHANGED vars PROVE Goal
  BY <1>2, <1>7 DEF vars
<1> QED
  BY <1>3, <1>4, <1>5, <1>6, <1>7 DEF Next, Request

\* A host that is turned away has an empty bucket, so it has spent its budget.
LEMMA TurnedAway ==
  ASSUME OwnInv, Next, NEW r \in Requests,
         resp[r] # "limited", resp'[r] = "limited", WholeHost(req'[r].host)
  PROVE  \E w \in 0..now : taken[req'[r].host][w] >= cfg.burst + cfg.rate * (now - w)
<1>1. resp \in [Requests -> {"none", "limited", "unauthorized", "invalid",
                            "objectLimited", "handled"}]
      /\ req \in [Requests -> RequestType \cup {NoRequest}]
  BY DEF OwnInv, TypeOK
<1>2. ASSUME NEW s \in Requests, NEW q \in RequestType, NEW point, RateLimit(s, q, point)
      PROVE  s = r /\ wired /\ ~Allow(limiters, Bucket(q), cfg.burst)
  BY <1>1, <1>2 DEF RateLimit, GoTo, Answer
<1>3. PICK q \in RequestType :
        /\ req'[r] = q /\ wired /\ ~Allow(limiters, Bucket(q), cfg.burst)
  <2>1. ASSUME NEW s \in Requests, Arrive(s)
        PROVE  \E q \in RequestType :
                 req'[r] = q /\ wired /\ ~Allow(limiters, Bucket(q), cfg.burst)
    <3>1. PICK k \in Hosts, p \in Ports, path \in Paths :
            /\ req' = [req EXCEPT ![s] = [host |-> k, port |-> p, path |-> path]]
            /\ RateLimit(s, [host |-> k, port |-> p, path |-> path],
                         IF path = "/retrieve" THEN "inner" ELSE "handler")
      BY <2>1 DEF Arrive
    <3> DEFINE q == [host |-> k, port |-> p, path |-> path]
    <3>2. q \in RequestType
      BY DEF RequestType
    <3>3. s = r /\ wired /\ ~Allow(limiters, Bucket(q), cfg.burst)
      BY <1>2, <3>1, <3>2
    <3>4. req'[r] = q
      BY <1>1, <3>1, <3>3
    <3> QED BY <3>2, <3>3, <3>4
  <2>2. ASSUME NEW s \in Requests, InnerLimit(s)
        PROVE  \E q \in RequestType :
                 req'[r] = q /\ wired /\ ~Allow(limiters, Bucket(q), cfg.burst)
    <3>1. /\ req[s] \in RequestType /\ req' = req
          /\ RateLimit(s, req[s], "handler")
      BY <2>2 DEF InnerLimit, OwnInv, TypeOK
    <3> QED BY <1>2, <3>1
  <2>3. ASSUME NEW s \in Requests, Refused(s) \/ Handle(s) \/ HandleRetrieve(s)
        PROVE  FALSE
    BY <1>1, <2>3 DEF Refused, Handle, HandleRetrieve, CheckObjectRateLimit, Answer
  <2>4. ~Tick
    BY DEF Tick
  <2> QED
    BY <2>1, <2>2, <2>3, <2>4 DEF Next, Request
<1> DEFINE h == q.host
<1>4. /\ h \in Hosts /\ WholeHost(h) /\ Bucket(q) = BucketOf(h)
      /\ cfg.burst \in Nat /\ cfg.rate \in Nat /\ now \in Nat
      /\ Buckets(limiters, cfg.burst)
  BY <1>3, BucketIsHead, TimesType DEF RequestType, OwnInv, TypeOK, Buckets
<1>5. Get(limiters, BucketOf(h), cfg.burst) = 0
  <2>1. Get(limiters, BucketOf(h), cfg.burst) \in 0..cfg.burst
    BY <1>4, GetType
  <2> QED BY <1>3, <1>4, <2>1 DEF Allow
<1>6. PICK w \in Times :
        w <= now /\ taken[h][w] + 0 >= cfg.burst + cfg.rate * (now - w)
  BY <1>3, <1>4, <1>5 DEF OwnInv, Spent
<1>7. w \in 0..now /\ taken[h][w] \in Nat
  BY <1>4, <1>6, TimesType DEF OwnInv, TypeOK
<1>8. taken[h][w] >= cfg.burst + cfg.rate * (now - w)
  BY <1>6, <1>7
<1> QED
  BY <1>3, <1>7, <1>8

\* A host with an IPv4 address is turned away only when its own requests have
\* spent its budget, for any number of hosts and concurrent requests
\* (rateLimitMiddleware, get).
THEOREM LimitedForOwnRequests == Spec => LimitedByOwnHost
<1>1. OwnInv /\ [Next]_vars =>
        [\A r \in Requests :
           resp[r] # "limited" /\ resp'[r] = "limited" /\ WholeHost(req'[r].host) =>
             \E w \in 0..now :
               taken[req'[r].host][w] >= cfg.burst + cfg.rate * (now - w)]_vars
  BY TurnedAway
<1> QED
  BY <1>1, OwnInit, OwnStep, PTL DEF Spec, LimitedByOwnHost
=============================================================================
