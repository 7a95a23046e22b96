---------------------------- MODULE RequestAuth -----------------------------
(***************************************************************************)
(* Signed requests (backend/interviews/auth.py): the window in which the   *)
(* timestamp of a request is good, the nonces that Redis remembers, and    *)
(* the verification of the signature, which comes after them.              *)
(*                                                                         *)
(* The signature comes as base64 in a header, which is decoded leniently:  *)
(* padding is appended, and letters outside the alphabet and unused bits   *)
(* are passed over.  One signature has thus several spellings, and what    *)
(* Redis remembers is the hash of the header as it was spelled.            *)
(*                                                                         *)
(* The backend is one asyncio process and its Redis client is synchronous: *)
(* from the look at the clock to SETEX a handler runs without letting      *)
(* others in, but time goes by.  It lets them in when it awaits the        *)
(* database and the body.  Backend and Redis share a machine and, so it is *)
(* assumed, a clock.                                                       *)
(***************************************************************************)
EXTENDS Naturals

CONSTANTS
  Agents,
  Handlers,     \* requests the backend can be at work on at the same time
  Timestamps,   \* what clients put in X-Timestamp
  Window,       \* MAX_TIMESTAMP_SKEW, 60 seconds
  Spellings,    \* ways in which a signature can be spelled in the header
  Delay,        \* longest time from the look at the clock to SETEX
  Ttl,          \* how long a nonce is kept, 120 seconds
  MaxTime       \* bound on the clock

ASSUME TimestampsAssumption == Timestamps \subseteq Nat
ASSUME WindowAssumption == Window \in Nat
ASSUME DelayAssumption == Delay \in Nat
ASSUME TtlAssumption == Ttl \in Nat
ASSUME MaxTimeAssumption == MaxTime \in Nat

VARIABLES
  now,
  redis,         \* is the Redis server up?
  connected,     \* has the backend got a Redis client?
  expiry,        \* the nonces, with the time at which each expires
  registered,    \* agents the database knows
  handler,       \* the request each handler is verifying
  early,         \* history: requests with a nonce that can expire before they do
  passed,        \* history: requests let through, that is handed to a handler
  passedAgain,   \* history: requests let through more than once
  intact         \* history: has every nonce been stored and kept so far?

redisVars == <<redis, connected, expiry, intact>>
historyVars == <<passed, passedAgain>>
vars == <<now, redisVars, early, registered, handler, historyVars>>

\* A request as it is received.  ED25519 is deterministic, so what a client
\* signs twice in a second is one request.  What was signed once is as many
\* requests as its signature has spellings.
\* genuine: the signature is that of the agent's key.
Requests == [agent: Agents, ts: Timestamps, genuine: BOOLEAN, spelling: Spellings]

Idle == [idle |-> TRUE]

TypeOK ==
  /\ now \in Nat
  /\ redis \in BOOLEAN /\ connected \in BOOLEAN
  /\ DOMAIN expiry \subseteq Requests
  /\ expiry \in [DOMAIN expiry -> Nat]
  /\ registered \subseteq Agents
  /\ handler \in [Handlers -> Requests \cup {Idle}]
  /\ early \subseteq Requests
  /\ passed \subseteq Requests /\ passedAgain \subseteq Requests
  /\ intact \in BOOLEAN

-----------------------------------------------------------------------------
\* The clock as it was read at most Delay ago.
InWindow(r) ==
  \E t \in 0..now :
    /\ now <= t + Delay
    /\ t <= r.ts + Window /\ r.ts <= t + Window

\* Its nonce, if stored now, can be gone by the last moment at which the
\* timestamp may be found good and EXISTS be asked.
TooEarly(r) == now + Ttl < r.ts + Window + Delay

\* EXISTS
Known(r) == r \in DOMAIN expiry

\* Fault: the nonce is kept for one window, not for two.
RememberForWindow(r) ==
  expiry' = [q \in DOMAIN expiry \cup {r} |-> IF q = r THEN now + Window ELSE expiry[q]]

\* SETEX
Remember(r) ==
  expiry' = [q \in DOMAIN expiry \cup {r} |-> IF q = r THEN now + Ttl ELSE expiry[q]]

Init ==
  /\ now = 0
  /\ redis = TRUE /\ connected = TRUE
  /\ expiry = <<>>
  /\ registered \in SUBSET Agents
  /\ handler = [h \in Handlers |-> Idle]
  /\ early = {}
  /\ passed = {} /\ passedAgain = {}
  /\ intact = TRUE

(* The dependency get_authenticated_agent.  A request it refuses for its      *)
(* timestamp or as a replay changes nothing.                                  *)

Accept(h, r) ==
  /\ handler[h] = Idle
  /\ InWindow(r)
  /\ handler' = [handler EXCEPT ![h] = r]
  /\ UNCHANGED <<now, redis, connected, registered, historyVars, intact>>

CheckNonce(h, r) ==
  /\ connected /\ redis
  /\ ~Known(r)
  /\ Remember(r)
  /\ early' = IF TooEarly(r) THEN early \cup {r} ELSE early
  /\ Accept(h, r)

\* Fault: a Redis that is down is taken for one that never was there.
SkipNonceWhenDown(h, r) ==
  /\ ~connected \/ ~redis
  /\ UNCHANGED <<expiry, early>>
  /\ Accept(h, r)

\* "Redis unavailable - allow request": it was, when the backend started.
SkipNonce(h, r) ==
  /\ ~connected
  /\ UNCHANGED <<expiry, early>>
  /\ Accept(h, r)

Receive(h, r) == CheckNonce(h, r) \/ SkipNonce(h, r)

\* verify_agent_signature_for_dashboard, a copy of it with nonces in common.
ReceiveForDashboard(h, r) == Receive(h, r)

\* Redis goes away between EXISTS and the reply to SETEX: ConnectionError is
\* answered with 500, the nonce is there.
LoseReply(r) ==
  /\ connected /\ redis
  /\ InWindow(r) /\ ~Known(r)
  /\ Remember(r)
  /\ redis' = FALSE
  /\ UNCHANGED <<now, connected, early, registered, handler, historyVars, intact>>

\* The agent is found and the signature verifies.
Pass(h) ==
  /\ handler[h] # Idle
  /\ handler[h].genuine
  /\ handler[h].agent \in registered
  /\ passed' = passed \cup {handler[h]}
  /\ passedAgain' = passedAgain \cup ({handler[h]} \cap passed)
  /\ handler' = [handler EXCEPT ![h] = Idle]
  /\ UNCHANGED <<now, redisVars, early, registered>>

\* Unknown agent, invalid signature, or the database raises.  The nonce stays.
Drop(h) ==
  /\ handler[h] # Idle
  /\ handler' = [handler EXCEPT ![h] = Idle]
  /\ UNCHANGED <<now, redisVars, early, registered, historyVars>>

(* Around it. *)

\* POST /v1/register
Register(a) ==
  /\ a \notin registered
  /\ registered' = registered \cup {a}
  /\ UNCHANGED <<now, redisVars, early, handler, historyVars>>

\* Redis keeps a key until the clock is past its expiry.
Tick ==
  /\ now < MaxTime
  /\ now' = now + 1
  /\ expiry' = [r \in {q \in DOMAIN expiry : expiry[q] >= now'} |-> expiry[r]]
  /\ UNCHANGED <<redis, connected, intact, early, registered, handler, historyVars>>

RedisStops ==
  /\ redis
  /\ redis' = FALSE
  /\ UNCHANGED <<now, connected, expiry, intact, early, registered, handler, historyVars>>

\* The append-only file brings back the keys, up to what was written in the
\* last second before a crash.
RedisStarts ==
  /\ ~redis
  /\ redis' = TRUE
  /\ \E kept \in SUBSET DOMAIN expiry :
       /\ expiry' = [r \in kept |-> expiry[r]]
       /\ intact' = (intact /\ kept = DOMAIN expiry)
  /\ UNCHANGED <<now, connected, early, registered, handler, historyVars>>

\* The backend is started again and looks for Redis once, with PING.
BackendRestarts ==
  /\ connected' = redis
  /\ intact' = (intact /\ redis)
  /\ handler' = [h \in Handlers |-> Idle]
  /\ UNCHANGED <<now, redis, expiry, early, registered, historyVars>>

Next ==
  \/ \E h \in Handlers :
       \/ \E r \in Requests : Receive(h, r) \/ ReceiveForDashboard(h, r)
       \/ Pass(h)
       \/ Drop(h)
  \/ \E r \in Requests : LoseReply(r)
  \/ \E a \in Agents : Register(a)
  \/ Tick
  \/ RedisStops \/ RedisStarts \/ BackendRestarts

Spec == Init /\ [][Next]_vars

-----------------------------------------------------------------------------
(* Safety. *)

\* A request is processed once, however often it is sent with the same headers,
\* as long as Redis was there when the backend started and has lost no nonce.
\* A nonce outlives the time at which its request could pass the check of the
\* timestamp again, although timestamps may be up to a window ahead of the
\* clock; this fails only for one so far ahead that, when it was stored, the
\* time to live did not cover its window and a delay.
PassedOnce == intact => passedAgain \subseteq early

-----------------------------------------------------------------------------
(* Why. *)

\* What the backend has seen of r will be known for as long as r can be found
\* good.
Remembered(r) ==
  now <= r.ts + Window + Delay =>
    r \in DOMAIN expiry /\ expiry[r] >= r.ts + Window + Delay

\* While all nonces are kept there is a client, and a request that was let
\* through or is being verified is remembered, and it is not both of these nor
\* verified twice, unless it was early.
OnceInv ==
  intact =>
    /\ connected
    /\ passedAgain \subseteq early
    /\ \A h \in Handlers : handler[h] \notin early \cup {Idle} =>
         /\ Remembered(handler[h])
         /\ handler[h] \notin passed
         /\ \A g \in Handlers : handler[g] = handler[h] => g = h
    /\ \A r \in passed \ early : Remembered(r)

IndInv == TypeOK /\ OnceInv
=============================================================================
