------------------------- MODULE RequestAuthProofs --------------------------
(***************************************************************************)
(* Proofs about RequestAuth, for every window, delay and time to live, and *)
(* any number of agents, handlers, timestamps and spellings.               *)
(***************************************************************************)
EXTENDS RequestAuth, TLAPS

-----------------------------------------------------------------------------
\* A handler at rest has no request.
LEMMA IdleIsNone == Idle \notin Requests
<1>1. \A r \in Requests : "agent" \in DOMAIN r
  BY DEF Requests
<1>2. "agent" \notin DOMAIN Idle
  BY DEF Idle
<1> QED
  BY <1>1, <1>2

\* A request found good was so a delay ago at most, so now is not later than its
\* window and a delay.
LEMMA GoodIsNow ==
  ASSUME TypeOK, NEW r \in Requests, InWindow(r)
  PROVE  r.ts \in Nat /\ now \in Nat /\ now <= r.ts + Window + Delay
<1>1. r.ts \in Nat /\ now \in Nat
  BY TimestampsAssumption DEF TypeOK, Requests
<1>2. PICK t \in 0..now : now <= t + Delay /\ t <= r.ts + Window
  BY DEF InWindow
<1>3. now <= r.ts + Window + Delay
  BY <1>1, <1>2, WindowAssumption, DelayAssumption
<1> QED
  BY <1>1, <1>3

\* A request found good whose nonce Redis does not know was not seen, or was
\* early: else it is not in `passed`, and no handler is at work on it.
LEMMA UnknownIsNew ==
  ASSUME TypeOK, OnceInv, intact, NEW r \in Requests, InWindow(r), ~Known(r)
  PROVE  r \notin early =>
           r \notin passed /\ \A h \in Handlers : handler[h] # Idle => handler[h] # r
<1>1. ~Remembered(r)
  BY GoodIsNow DEF Remembered, Known
<1> QED
  BY <1>1 DEF OnceInv

\* Storing a nonce makes its request remembered, unless it is too early for the
\* time to live, and harms no other.
LEMMA StoredIsRemembered ==
  ASSUME TypeOK, NEW r \in Requests, ~Known(r), Remember(r), now' = now
  PROVE  /\ ~TooEarly(r) => Remembered(r)'
         /\ \A q \in Requests : Remembered(q) => Remembered(q)'
<1>1. r.ts \in Nat /\ now \in Nat
  BY TimestampsAssumption DEF TypeOK, Requests
<1>2. r \in DOMAIN expiry' /\ expiry'[r] = now + Ttl
  BY DEF Remember
<1>3. ~TooEarly(r) => now + Ttl >= r.ts + Window + Delay
  BY <1>1, WindowAssumption, DelayAssumption, TtlAssumption DEF TooEarly
<1>4. ~TooEarly(r) => Remembered(r)'
  BY <1>2, <1>3 DEF Remembered
<1>5. ASSUME NEW q \in Requests, Remembered(q), q # r PROVE Remembered(q)'
  BY <1>5 DEF Remembered, Remember
<1>6. ASSUME Remembered(r) PROVE Remembered(r)'
  <2>1. ~(now <= r.ts + Window + Delay)
    BY <1>6 DEF Remembered, Known
  <2> QED
    BY <2>1 DEF Remembered
<1> QED
  BY <1>4, <1>5, <1>6

\* When the clock goes on, Redis forgets the nonces of requests that are too old.
LEMMA TimeForgets ==
  ASSUME TypeOK, NEW q \in Requests, Remembered(q), Tick
  PROVE  Remembered(q)'
<1>1. q.ts \in Nat /\ now \in Nat
  BY TimestampsAssumption DEF TypeOK, Requests
<1>2. now' = now + 1
  BY DEF Tick
<1>3. ASSUME now' <= q.ts + Window + Delay
      PROVE  q \in DOMAIN expiry' /\ expiry'[q] >= q.ts + Window + Delay
  <2>1. now <= q.ts + Window + Delay
    BY <1>1, <1>2, <1>3, WindowAssumption, DelayAssumption
  <2>2. q \in DOMAIN expiry /\ expiry[q] >= q.ts + Window + Delay
    BY <2>1 DEF Remembered
  <2>3. expiry[q] \in Nat
    BY <2>2 DEF TypeOK
  <2>4. expiry[q] >= now'
    BY <1>1, <1>2, <1>3, <2>2, <2>3, WindowAssumption, DelayAssumption
  <2> QED
    BY <2>2, <2>4 DEF Tick
<1> QED
  BY <1>3 DEF Remembered

\* A restart of Redis that loses no nonce.
LEMMA RestartKeeps ==
  ASSUME TypeOK, NEW q \in Requests, Remembered(q), RedisStarts, intact'
  PROVE  Remembered(q)'
<1>1. PICK kept \in SUBSET DOMAIN expiry :
        /\ expiry' = [r \in kept |-> expiry[r]]
        /\ intact' = (intact /\ kept = DOMAIN expiry)
  BY DEF RedisStarts
<1>2. kept = DOMAIN expiry
  BY <1>1
<1>3. now' = now
  BY DEF RedisStarts
<1> QED
  BY <1>1, <1>2, <1>3 DEF Remembered

-----------------------------------------------------------------------------
\* The state keeps its type.
LEMMA StepTyped == TypeOK /\ [Next]_vars => TypeOK'
<1> SUFFICES ASSUME TypeOK, [Next]_vars PROVE TypeOK'
  OBVIOUS
<1> USE TtlAssumption DEF TypeOK
<1>1. ASSUME NEW h \in Handlers, NEW r \in Requests, Receive(h, r) PROVE TypeOK'
  <2>1. handler' = [handler EXCEPT ![h] = r]
        /\ UNCHANGED <<now, redis, connected, registered, historyVars, intact>>
        /\ early' \subseteq early \cup {r}
    BY <1>1 DEF Receive, CheckNonce, SkipNonce, Accept
  <2>2. Remember(r) \/ UNCHANGED expiry
    BY <1>1 DEF Receive, CheckNonce, SkipNonce
  <2>3. DOMAIN expiry' \subseteq Requests /\ expiry' \in [DOMAIN expiry' -> Nat]
    BY <2>2 DEF Remember
  <2> QED
    BY <2>1, <2>3 DEF historyVars
<1>2. ASSUME NEW h \in Handlers, Pass(h) PROVE TypeOK'
  <2>1. handler[h] \in Requests
    BY <1>2 DEF Pass
  <2> QED
    BY <1>2, <2>1 DEF Pass, redisVars
<1>3. ASSUME NEW h \in Handlers, Drop(h) PROVE TypeOK'
  BY <1>3 DEF Drop, redisVars, historyVars
<1>4. ASSUME NEW r \in Requests, LoseReply(r) PROVE TypeOK'
  <2>1. DOMAIN expiry' \subseteq Requests /\ expiry' \in [DOMAIN expiry' -> Nat]
    BY <1>4 DEF LoseReply, Remember
  <2> QED
    BY <1>4, <2>1 DEF LoseReply, historyVars
<1>5. ASSUME NEW a \in Agents, Register(a) PROVE TypeOK'
  BY <1>5 DEF Register, redisVars, historyVars
<1>6. CASE Tick
  <2>1. DOMAIN expiry' \subseteq DOMAIN expiry /\ \A r \in DOMAIN expiry' : expiry'[r] = expiry[r]
    BY <1>6 DEF Tick
  <2>2. expiry' \in [DOMAIN expiry' -> Nat]
    BY <1>6, <2>1 DEF Tick
  <2> QED
    BY <1>6, <2>1, <2>2 DEF Tick, historyVars
<1>7. CASE RedisStops
  BY <1>7 DEF RedisStops, historyVars
<1>8. CASE RedisStarts
  BY <1>8 DEF RedisStarts, historyVars
<1>9. CASE BackendRestarts
  BY <1>9 DEF BackendRestarts, historyVars
<1>10. CASE UNCHANGED vars
  BY <1>10 DEF vars, redisVars, historyVars
<1> QED
  BY <1>1, <1>2, <1>3, <1>4, <1>5, <1>6, <1>7, <1>8, <1>9, <1>10
  DEF Next, ReceiveForDashboard

\* Every step keeps the requests that were seen remembered, and apart.
LEMMA StepOnce == IndInv /\ [Next]_vars => OnceInv'
<1> SUFFICES ASSUME TypeOK, OnceInv, [Next]_vars, intact' PROVE OnceInv'
  BY DEF IndInv, OnceInv
<1>1. ASSUME NEW h \in Handlers, NEW r \in Requests, Receive(h, r) PROVE OnceInv'
  <2>1. intact /\ connected /\ now' = now
    BY <1>1 DEF Receive, CheckNonce, SkipNonce, Accept, OnceInv
  <2>2. CheckNonce(h, r) /\ InWindow(r) /\ ~Known(r) /\ Remember(r)
    BY <1>1, <2>1 DEF Receive, SkipNonce, CheckNonce, Accept
  <2>3. handler' = [handler EXCEPT ![h] = r] /\ UNCHANGED <<connected, passed, passedAgain>>
    BY <2>2 DEF CheckNonce, Accept, historyVars
  <2>a. early \subseteq early' /\ (r \notin early' => r \notin early /\ ~TooEarly(r))
    BY <2>2 DEF CheckNonce
  <2>4. r \notin early' =>
          r \notin passed /\ \A g \in Handlers : handler[g] # Idle => handler[g] # r
    BY <2>1, <2>2, <2>a, UnknownIsNew
  <2>5. /\ r \notin early' => Remembered(r)'
        /\ \A q \in Requests : Remembered(q) => Remembered(q)'
    BY <2>1, <2>2, <2>a, StoredIsRemembered
  <2>6. \A q \in passed' \ early' : Remembered(q)'
    <3>1. \A q \in passed \ early : Remembered(q)
      BY <2>1 DEF OnceInv
    <3> QED
      BY <2>3, <2>5, <2>a, <3>1 DEF TypeOK
  <2>7. ASSUME NEW g \in Handlers, handler'[g] \notin early' \cup {Idle}
        PROVE  /\ Remembered(handler[g])' /\ handler'[g] \notin passed'
               /\ \A k \in Handlers : handler'[k] = handler'[g] => k = g
    <3>1. CASE g = h
      <4>1. handler'[g] = r /\ r \notin early'
        BY <2>3, <2>7, <3>1 DEF TypeOK
      <4>2. \A k \in Handlers \ {h} : handler'[k] = handler[k]
        BY <2>3 DEF TypeOK
      <4>3. \A k \in Handlers \ {h} : handler[k] # r
        BY <2>4, <4>1, IdleIsNone
      <4> QED
        BY <2>3, <2>4, <2>5, <3>1, <4>1, <4>2, <4>3
    <3>2. CASE g # h
      <4>1. handler'[g] = handler[g] /\ handler[g] \in Requests /\ handler[g] \notin early \cup {Idle}
        BY <2>3, <2>7, <2>a, <3>2 DEF TypeOK
      <4>2. Remembered(handler[g]) /\ handler[g] \notin passed
        BY <2>1, <4>1 DEF OnceInv
      <4>3. \A k \in Handlers : handler[k] = handler[g] => k = g
        BY <2>1, <4>1 DEF OnceInv
      <4>4. handler[g] # r
        BY <2>4, <2>7, <4>1
      <4>5. Remembered(handler[g])'
        <5>1. \A q \in Requests : Remembered(q) => Remembered(q)'
          BY <2>5
        <5> QED
          BY <4>1, <4>2, <5>1 DEF Remembered
      <4> QED
        BY <2>3, <4>1, <4>2, <4>3, <4>4, <4>5 DEF TypeOK
    <3> QED
      BY <3>1, <3>2
  <2>8. connected' /\ passedAgain' \subseteq early'
    BY <2>1, <2>3, <2>a DEF OnceInv
  <2> QED
    BY <2>6, <2>7, <2>8 DEF OnceInv
<1>2. ASSUME NEW h \in Handlers, Pass(h) PROVE OnceInv'
  <2>1. PICK r \in Requests : r = handler[h] /\ r # Idle
    BY <1>2 DEF Pass, TypeOK
  <2>2. /\ intact /\ connected /\ UNCHANGED <<now, expiry, connected, early>>
        /\ handler' = [handler EXCEPT ![h] = Idle]
        /\ passed' = passed \cup {r} /\ passedAgain' = passedAgain \cup ({r} \cap passed)
    BY <1>2, <2>1 DEF Pass, redisVars, OnceInv
  <2>3. r \notin early =>
          /\ r \notin passed /\ Remembered(r)
          /\ \A g \in Handlers : handler[g] = r => g = h
    BY <2>1, <2>2 DEF OnceInv
  <2>4. passedAgain' \subseteq early' /\ connected'
    BY <2>2, <2>3 DEF OnceInv
  <2>5. \A q \in passed' \ early' : Remembered(q)'
    <3>1. \A q \in passed' \ early : Remembered(q)
      BY <2>2, <2>3 DEF OnceInv
    <3> QED
      BY <2>2, <3>1 DEF Remembered
  <2>6. ASSUME NEW g \in Handlers, handler'[g] \notin early' \cup {Idle}
        PROVE  /\ Remembered(handler[g])' /\ handler'[g] \notin passed'
               /\ \A k \in Handlers : handler'[k] = handler'[g] => k = g
    <3>1. g # h /\ handler'[g] = handler[g] /\ handler[g] \notin early \cup {Idle}
      BY <2>2, <2>6 DEF TypeOK
    <3>2. /\ Remembered(handler[g]) /\ handler[g] \notin passed
          /\ \A k \in Handlers : handler[k] = handler[g] => k = g
      BY <2>2, <3>1 DEF OnceInv
    <3>3. handler[g] # r
      BY <2>1, <3>1, <3>2
    <3>4. Remembered(handler[g])'
      BY <2>2, <3>1, <3>2 DEF Remembered
    <3>5. \A k \in Handlers : handler'[k] = handler[k] \/ handler'[k] = Idle
      BY <2>2 DEF TypeOK
    <3> QED
      BY <2>2, <3>1, <3>2, <3>3, <3>4, <3>5
  <2> QED
    BY <2>4, <2>5, <2>6 DEF OnceInv
<1>a. ASSUME \A q \in Requests : Remembered(q) => Remembered(q)',
             \A g \in Handlers : handler'[g] = handler[g] \/ handler'[g] = Idle,
             UNCHANGED <<early, passed, passedAgain>>, connected', intact
      PROVE  OnceInv'
  <2>1. passedAgain' \subseteq early'
    BY <1>a DEF OnceInv
  <2>2. \A q \in passed' \ early' : Remembered(q)'
    <3>1. \A q \in passed' \ early' : Remembered(q) /\ q \in Requests
      BY <1>a DEF OnceInv, TypeOK
    <3> QED
      BY <1>a, <3>1
  <2>3. ASSUME NEW g \in Handlers, handler'[g] \notin early' \cup {Idle}
        PROVE  /\ Remembered(handler[g])' /\ handler'[g] \notin passed'
               /\ \A k \in Handlers : handler'[k] = handler'[g] => k = g
    <3>1. handler'[g] = handler[g] /\ handler[g] \notin early \cup {Idle}
      BY <1>a, <2>3
    <3>2. PICK q \in Requests : q = handler[g]
      BY <3>1 DEF TypeOK
    <3>3. /\ Remembered(q) /\ q \notin passed
          /\ \A k \in Handlers : handler[k] = q => k = g
      BY <1>a, <3>1, <3>2 DEF OnceInv
    <3>4. Remembered(q)' /\ handler'[g] = q
      BY <1>a, <3>1, <3>2, <3>3
    <3>5. Remembered(handler[g])'
      BY <3>4 DEF Remembered
    <3> QED
      BY <1>a, <3>1, <3>2, <3>3, <3>5
  <2> QED
    BY <1>a, <2>1, <2>2, <2>3 DEF OnceInv
<1>b. ASSUME UNCHANGED <<now, expiry>>
      PROVE  \A q \in Requests : Remembered(q) => Remembered(q)'
  BY <1>b DEF Remembered
<1>3. ASSUME NEW h \in Handlers, Drop(h) PROVE OnceInv'
  <2>1. \A g \in Handlers : handler'[g] = handler[g] \/ handler'[g] = Idle
    BY <1>3 DEF Drop, TypeOK
  <2> QED
    BY <1>3, <1>a, <1>b, <2>1 DEF Drop, redisVars, historyVars, OnceInv
<1>4. ASSUME NEW r \in Requests, LoseReply(r) PROVE OnceInv'
  <2>1. /\ now' = now /\ UNCHANGED <<connected, intact, early, handler, passed, passedAgain>>
        /\ ~Known(r) /\ Remember(r)
    BY <1>4 DEF LoseReply, historyVars
  <2>2. \A q \in Requests : Remembered(q) => Remembered(q)'
    BY <2>1, StoredIsRemembered
  <2> QED
    BY <1>a, <2>1, <2>2 DEF OnceInv
<1>5. ASSUME NEW a \in Agents, Register(a) PROVE OnceInv'
  BY <1>5, <1>a, <1>b DEF Register, redisVars, historyVars, OnceInv
<1>6. CASE Tick
  <2>1. UNCHANGED <<connected, intact, early, handler, passed, passedAgain>>
    BY <1>6 DEF Tick, historyVars
  <2>2. \A q \in Requests : Remembered(q) => Remembered(q)'
    BY <1>6, TimeForgets
  <2> QED
    BY <1>a, <2>1, <2>2 DEF OnceInv
<1>7. CASE RedisStops
  BY <1>7, <1>a, <1>b DEF RedisStops, historyVars, OnceInv
<1>8. CASE RedisStarts
  <2>1. UNCHANGED <<connected, early, handler, passed, passedAgain>> /\ intact
    BY <1>8 DEF RedisStarts, historyVars
  <2>2. \A q \in Requests : Remembered(q) => Remembered(q)'
    BY <1>8, RestartKeeps
  <2> QED
    BY <1>a, <2>1, <2>2 DEF OnceInv
<1>9. CASE BackendRestarts
  BY <1>9, <1>a, <1>b DEF BackendRestarts, historyVars, OnceInv
<1>10. CASE UNCHANGED vars
  BY <1>10, <1>a, <1>b DEF vars, redisVars, historyVars, OnceInv
<1> QED
  BY <1>1, <1>2, <1>3, <1>4, <1>5, <1>6, <1>7, <1>8, <1>9, <1>10
  DEF Next, ReceiveForDashboard

\* The invariant holds of every reachable state.
THEOREM Invariance == Spec => []IndInv
<1>1. Init => IndInv
  BY DEF Init, IndInv, TypeOK, OnceInv
<1>2. IndInv /\ [Next]_vars => IndInv'
  BY StepTyped, StepOnce DEF IndInv
<1> QED
  BY <1>1, <1>2, PTL DEF Spec

\* What is sent twice with the same headers, in any order and by however many
\* handlers, is let through once, unless the nonce was stored so early that its
\* time to live did not cover it, as long as Redis was there at the start and
\* lost no nonce.
THEOREM ProcessedOnce == Spec => []PassedOnce
<1>1. IndInv => PassedOnce
  BY DEF IndInv, OnceInv, PassedOnce
<1> QED
  BY <1>1, Invariance, PTL
=============================================================================
