--------------------------- MODULE AccountsProofs ---------------------------
(***************************************************************************)
(* Proofs about Accounts, for any number of agents, calls, handlers and    *)
(* tokens, and both orders of commit and reply.                            *)
(***************************************************************************)
EXTENDS Accounts, RequestAuthProofs

-----------------------------------------------------------------------------
\* Nothing is at once a request, a call and the absence of either.
LEMMA Apart ==
  /\ Idle \notin Requests
  /\ \A c \in Calls : c # Idle /\ c \notin Requests
BY IdleIsNone, CallsAssumption

\* For the verification of requests, each step is one of RequestAuth.
LEMMA RequestStep ==
  ASSUME TypeOK, AccountsTypeOK, [AccountsNext]_<<vars, accountVars>>
  PROVE  [Next]_vars
<1>1. ASSUME NEW c \in Calls, Commit(c) PROVE [Next]_vars
  <2>1. call[c].agent \in Agents
    BY <1>1 DEF Commit, At, AccountsTypeOK, PendingCalls, NoCall
  <2> QED
    BY <1>1, <2>1 DEF Commit, Next
<1>2. ASSUME NEW c \in Calls, NEW h \in Handlers, GetDashboardToken(h, c) PROVE [Next]_vars
  BY <1>2 DEF GetDashboardToken, Next
<1>3. ASSUME NEW h \in Handlers, NEW r \in Requests, Arrive(h, r) PROVE [Next]_vars
  BY <1>3 DEF Arrive, Next
<1>4. CASE RestartBackend
  BY <1>4 DEF RestartBackend, Next
<1>5. CASE Around
  BY <1>5 DEF Around, Next
<1> QED
  BY <1>1, <1>2, <1>3, <1>4, <1>5
  DEF AccountsNext, RegisterAgent, Write, Conflict, Raise, Tell, CommitFails, GiveUp, SignMint

\* Pending calls have their parts.
LEMMA Pending ==
  ASSUME AccountsTypeOK, NEW c \in Calls
  PROVE  /\ call[c] # NoCall <=> At(c, {"drawn", "written", "committed", "told"})
         /\ call[c] # NoCall => call[c] \in PendingCalls
BY DEF AccountsTypeOK, PendingCalls, NoCall, At
-----------------------------------------------------------------------------
\* The state keeps its type.

LEMMA RowTyped ==
  ASSUME AccountsTypeOK, NEW c \in Calls, call[c] # NoCall
  PROVE  Row(c) \in Accounts
BY DEF AccountsTypeOK, PendingCalls, Accounts, Row

LEMMA SignedIsRequest == \A a \in Agents, ts \in Timestamps : Signed(a, ts) \in Requests
BY UsualAssumption DEF Signed, Requests

LEMMA StageTyped ==
  ASSUME AccountsTypeOK, NEW c \in Calls, call[c] # NoCall,
         NEW st \in {"written", "committed", "told"}
  PROVE  [call EXCEPT ![c].stage = st] \in [Calls -> PendingCalls \cup {NoCall}]
<1>1. call[c] \in PendingCalls
  BY DEF AccountsTypeOK
<1>2. [call[c] EXCEPT !.stage = st] \in PendingCalls
  BY <1>1 DEF PendingCalls
<1> QED
  BY <1>2 DEF AccountsTypeOK

LEMMA FreedTyped ==
  ASSUME AccountsTypeOK, NEW c \in Calls
  PROVE  [call EXCEPT ![c] = NoCall] \in [Calls -> PendingCalls \cup {NoCall}]
BY DEF AccountsTypeOK

LEMMA DrawTyped ==
  ASSUME TypeOK, AccountsTypeOK, NEW c \in Calls, NEW a \in Agents,
         NEW of \in Calls \cup Requests, Draw(c, a, of)
  PROVE  drawn' \in 0..MaxTokens /\ call' \in [Calls -> PendingCalls \cup {NoCall}]
<1>1. drawn' \in Tokens /\ drawn' \in 0..MaxTokens
  BY MaxTokensAssumption DEF Draw, AccountsTypeOK, Tokens
<1>2. [agent |-> a, token |-> drawn', issued |-> now, found |-> a \in DOMAIN account,
       of |-> of, stage |-> "drawn"] \in PendingCalls
  BY <1>1 DEF PendingCalls, TypeOK
<1> QED
  BY <1>1, <1>2 DEF Draw, AccountsTypeOK

\* What the actions make of a client's record.
LEMMA ClientAsks ==
  ASSUME AccountsTypeOK, NEW a \in Agents, NEW as \in SUBSET Nat,
         NEW w \in Calls \cup Requests \cup {Idle},
         client' = [client EXCEPT ![a].waiting = w, ![a].asked = as]
  PROVE  /\ client' \in [Agents -> Clients]
         /\ client'[a].waiting = w /\ client'[a].asked = as
         /\ client'[a].hand = client[a].hand /\ client'[a].sent = client[a].sent
         /\ \A b \in Agents \ {a} : client'[b] = client[b]
<1>1. client[a] \in Clients
  BY DEF AccountsTypeOK
<1>2. client' = [client EXCEPT ![a] = [client[a] EXCEPT !.waiting = w, !.asked = as]]
  BY <1>1 DEF AccountsTypeOK, Clients
<1>3. [client[a] EXCEPT !.waiting = w, !.asked = as] \in Clients
  BY <1>1 DEF Clients
<1> QED
  BY <1>1, <1>2, <1>3 DEF AccountsTypeOK, Clients

LEMMA ClientSigns ==
  ASSUME AccountsTypeOK, NEW a \in Agents, NEW as \in SUBSET Nat,
         NEW w \in Calls \cup Requests \cup {Idle}, NEW sn \in SUBSET Timestamps,
         client' = [client EXCEPT ![a].waiting = w, ![a].asked = as, ![a].sent = sn]
  PROVE  /\ client' \in [Agents -> Clients]
         /\ client'[a].waiting = w /\ client'[a].asked = as
         /\ client'[a].hand = client[a].hand /\ client'[a].sent = sn
         /\ \A b \in Agents \ {a} : client'[b] = client[b]
<1>1. client[a] \in Clients
  BY DEF AccountsTypeOK
<1>2. client' = [client EXCEPT ![a] = [client[a] EXCEPT !.waiting = w, !.asked = as, !.sent = sn]]
  BY <1>1 DEF AccountsTypeOK, Clients
<1>3. [client[a] EXCEPT !.waiting = w, !.asked = as, !.sent = sn] \in Clients
  BY <1>1 DEF Clients
<1> QED
  BY <1>1, <1>2, <1>3 DEF AccountsTypeOK, Clients

LEMMA ClientIsTold ==
  ASSUME AccountsTypeOK, NEW a \in Agents, NEW hd \in Tokens,
         client' = [client EXCEPT ![a].waiting = Idle, ![a].hand = hd]
  PROVE  /\ client' \in [Agents -> Clients]
         /\ client'[a].waiting = Idle /\ client'[a].hand = hd
         /\ client'[a].asked = client[a].asked /\ client'[a].sent = client[a].sent
         /\ \A b \in Agents \ {a} : client'[b] = client[b]
<1>1. client[a] \in Clients
  BY DEF AccountsTypeOK
<1>2. client' = [client EXCEPT ![a] = [client[a] EXCEPT !.waiting = Idle, !.hand = hd]]
  BY <1>1 DEF AccountsTypeOK, Clients
<1>3. [client[a] EXCEPT !.waiting = Idle, !.hand = hd] \in Clients
  BY <1>1 DEF Clients
<1> QED
  BY <1>1, <1>2, <1>3 DEF AccountsTypeOK, Clients

LEMMA ClientIsDisturbed ==
  ASSUME AccountsTypeOK, NEW a \in Agents,
         client' = [client EXCEPT ![a].asked = {}]
  PROVE  /\ client' \in [Agents -> Clients]
         /\ client'[a].asked = {} /\ client'[a].waiting = client[a].waiting
         /\ client'[a].hand = client[a].hand /\ client'[a].sent = client[a].sent
         /\ \A b \in Agents \ {a} : client'[b] = client[b]
<1>1. client[a] \in Clients
  BY DEF AccountsTypeOK
<1>2. client' = [client EXCEPT ![a] = [client[a] EXCEPT !.asked = {}]]
  BY <1>1 DEF AccountsTypeOK, Clients
<1>3. [client[a] EXCEPT !.asked = {}] \in Clients
  BY <1>1 DEF Clients
<1> QED
  BY <1>1, <1>2, <1>3 DEF AccountsTypeOK, Clients

LEMMA Signing ==
  ASSUME TypeOK, AccountsTypeOK, NEW a \in Agents, NEW ts \in Timestamps, SignMint(a, ts)
  PROVE  /\ client' \in [Agents -> Clients]
         /\ client'[a].waiting = Signed(a, ts)
         /\ client'[a].asked = {now : t \in client[a].asked}
         /\ client'[a].hand = client[a].hand /\ client'[a].sent = client[a].sent \cup {ts}
         /\ \A b \in Agents \ {a} : client'[b] = client[b]
<1>1. PICK as \in SUBSET Nat : as = {now : t \in client[a].asked}
  BY DEF TypeOK
<1>2. PICK sn \in SUBSET Timestamps : sn = client[a].sent \cup {ts}
  BY DEF AccountsTypeOK, Clients
<1>3. PICK w \in Calls \cup Requests \cup {Idle} : w = Signed(a, ts)
  BY SignedIsRequest
<1>4. client' = [client EXCEPT ![a].waiting = w, ![a].asked = as, ![a].sent = sn]
  BY <1>1, <1>2, <1>3 DEF SignMint
<1>5. /\ client' \in [Agents -> Clients]
      /\ client'[a].waiting = w /\ client'[a].asked = as
      /\ client'[a].hand = client[a].hand /\ client'[a].sent = sn
      /\ \A b \in Agents \ {a} : client'[b] = client[b]
  BY <1>4, ClientSigns
<1> QED
  BY <1>1, <1>2, <1>3, <1>5

LEMMA Registering ==
  ASSUME TypeOK, AccountsTypeOK, NEW a \in Agents, NEW c \in Calls, RegisterAgent(c, a)
  PROVE  /\ client' \in [Agents -> Clients]
         /\ client'[a].waiting = c
         /\ client'[a].asked = {now : t \in client[a].asked}
         /\ client'[a].hand = client[a].hand /\ client'[a].sent = client[a].sent
         /\ \A b \in Agents \ {a} : client'[b] = client[b]
<1>1. PICK as \in SUBSET Nat : as = {now : t \in client[a].asked}
  BY DEF TypeOK
<1>2. client' = [client EXCEPT ![a].waiting = c, ![a].asked = as]
  BY <1>1 DEF RegisterAgent
<1>3. /\ client' \in [Agents -> Clients]
      /\ client'[a].waiting = c /\ client'[a].asked = as
      /\ client'[a].hand = client[a].hand /\ client'[a].sent = client[a].sent
      /\ \A b \in Agents \ {a} : client'[b] = client[b]
  BY <1>2, ClientAsks
<1> QED
  BY <1>1, <1>3

LEMMA AccountsTyped ==
  ASSUME TypeOK, TypeOK', AccountsTypeOK, [AccountsNext]_<<vars, accountVars>>
  PROVE  AccountsTypeOK'
<1> USE DEF accountVars, tableVars
<1>1. ASSUME NEW c \in Calls, NEW a \in Agents, RegisterAgent(c, a) PROVE AccountsTypeOK'
  <2>2. drawn' \in 0..MaxTokens /\ call' \in [Calls -> PendingCalls \cup {NoCall}]
    BY <1>1, DrawTyped DEF RegisterAgent
  <2>4. client' \in [Agents -> Clients]
    BY <1>1, Registering
  <2> QED
    BY <1>1, <2>2, <2>4 DEF RegisterAgent, Draw, AccountsTypeOK, vars
<1>2. ASSUME NEW a \in Agents, NEW ts \in Timestamps, SignMint(a, ts) PROVE AccountsTypeOK'
  <2>1. client' \in [Agents -> Clients]
    BY <1>2, Signing
  <2> QED
    BY <1>2, <2>1 DEF SignMint, AccountsTypeOK, vars
<1>3. ASSUME NEW h \in Handlers, NEW r \in Requests, Arrive(h, r) PROVE AccountsTypeOK'
  BY <1>3 DEF Arrive, ReceiveForDashboard, Receive, CheckNonce, SkipNonce, Accept, AccountsTypeOK
<1>4. ASSUME NEW c \in Calls, NEW h \in Handlers, GetDashboardToken(h, c) PROVE AccountsTypeOK'
  <2>1. handler[h] \in Requests /\ handler[h].agent \in Agents
    BY <1>4 DEF GetDashboardToken, Pass, TypeOK, Requests
  <2>2. drawn' \in 0..MaxTokens /\ call' \in [Calls -> PendingCalls \cup {NoCall}]
    BY <1>4, <2>1, DrawTyped DEF GetDashboardToken
  <2> QED
    BY <1>4, <2>2 DEF GetDashboardToken, Draw, Pass, AccountsTypeOK
<1>5. ASSUME NEW c \in Calls, Write(c) PROVE AccountsTypeOK'
  BY <1>5, Pending, StageTyped DEF Write, AccountsTypeOK, vars, At
<1>6. ASSUME NEW c \in Calls, Conflict(c) \/ Raise(c) PROVE AccountsTypeOK'
  BY <1>6, FreedTyped DEF Conflict, Raise, AccountsTypeOK, vars
<1>7. ASSUME NEW c \in Calls, Commit(c) PROVE AccountsTypeOK'
  <2>1. call[c] # NoCall /\ call[c] \in PendingCalls
    BY <1>7, Pending DEF Commit, At
  <2>2. call' \in [Calls -> PendingCalls \cup {NoCall}]
    <3>1. CASE call' = [call EXCEPT ![c].stage = "committed"]
      BY <2>1, <3>1, StageTyped
    <3>2. CASE call' = [call EXCEPT ![c] = NoCall]
      BY <3>2, FreedTyped
    <3> QED
      BY <1>7, <3>1, <3>2 DEF Commit
  <2>3. Row(c) \in Accounts /\ call[c].token \in Tokens
    BY <2>1, RowTyped DEF PendingCalls
  <2>4. registered' = registered \cup {call[c].agent}
    BY <1>7 DEF Commit, Register, vars
  <2>5. account' \in [registered' -> Accounts]
    BY <1>7, <2>3, <2>4 DEF Commit, AccountsTypeOK
  <2> QED
    BY <1>7, <2>2, <2>3, <2>5 DEF Commit, AccountsTypeOK
<1>8. ASSUME NEW c \in Calls, Tell(c) PROVE AccountsTypeOK'
  <2>1. call[c] # NoCall /\ call[c] \in PendingCalls
    BY <1>8, Pending DEF Tell, At
  <2>2. call' \in [Calls -> PendingCalls \cup {NoCall}]
    BY <1>8, <2>1, FreedTyped, StageTyped DEF Tell
  <2>3. call[c].agent \in Agents /\ call[c].token \in Tokens
    BY <2>1 DEF PendingCalls
  <2>4. client' \in [Agents -> Clients]
    BY <1>8, <2>3, ClientIsTold DEF Tell, AccountsTypeOK
  <2> QED
    BY <1>8, <2>2, <2>4 DEF Tell, AccountsTypeOK, vars
<1>9. ASSUME NEW c \in Calls, CommitFails(c) PROVE AccountsTypeOK'
  <2>1. call[c].agent \in Agents
    BY <1>9, Pending DEF CommitFails, At, PendingCalls
  <2>2. client' \in [Agents -> Clients]
    BY <1>9, <2>1, ClientIsDisturbed DEF CommitFails
  <2> QED
    BY <1>9, <2>2, FreedTyped DEF CommitFails, AccountsTypeOK, vars
<1>10. ASSUME NEW a \in Agents, GiveUp(a) PROVE AccountsTypeOK'
  <2>1. client' \in [Agents -> Clients]
    BY <1>10, ClientAsks DEF GiveUp
  <2> QED
    BY <1>10, <2>1 DEF GiveUp, AccountsTypeOK, vars
<1>11. CASE RestartBackend
  <2>1. ASSUME NEW a \in Agents PROVE client'[a] \in Clients
    <3>1. client[a] \in Clients /\ [client[a] EXCEPT !.asked = {}] \in Clients
      BY DEF AccountsTypeOK, Clients
    <3> QED
      BY <1>11, <3>1 DEF RestartBackend
  <2>2. client' \in [Agents -> Clients]
    BY <1>11, <2>1 DEF RestartBackend
  <2>3. call' \in [Calls -> PendingCalls \cup {NoCall}] /\ registered' = registered
    BY <1>11 DEF RestartBackend, BackendRestarts
  <2> QED
    BY <1>11, <2>2, <2>3 DEF RestartBackend, AccountsTypeOK
<1>12. CASE Around
  <2>1. registered' = registered
    BY <1>12 DEF Around, Tick, RedisStops, RedisStarts, Drop, LoseReply
  <2> QED
    BY <1>12, <2>1 DEF Around, AccountsTypeOK
<1>13. CASE UNCHANGED <<vars, accountVars>>
  BY <1>13 DEF vars, AccountsTypeOK
<1> QED
  BY <1>1, <1>2, <1>3, <1>4, <1>5, <1>6, <1>7, <1>8, <1>9, <1>10, <1>11, <1>12, <1>13
  DEF AccountsNext

-----------------------------------------------------------------------------
\* Calls.

\* Moving a call on changes its stage and nothing else.
LEMMA Moved ==
  ASSUME AccountsTypeOK, NEW c \in Calls, call[c] # NoCall,
         NEW st \in {"written", "committed", "told"},
         call' = [call EXCEPT ![c].stage = st]
  PROVE  /\ call'[c] # NoCall /\ call'[c].stage = st
         /\ call'[c].agent = call[c].agent /\ call'[c].token = call[c].token
         /\ call'[c].issued = call[c].issued /\ call'[c].of = call[c].of
         /\ \A d \in Calls \ {c} : call'[d] = call[d]
<1>1. call[c] \in PendingCalls
  BY DEF AccountsTypeOK
<1> QED
  BY <1>1 DEF AccountsTypeOK, PendingCalls, NoCall

\* Time does not run back and history does not shrink.
LEMMA Onwards ==
  ASSUME TypeOK, [Next]_vars
  PROVE  now <= now' /\ passed \subseteq passed' /\ early \subseteq early' /\ (intact' => intact)
BY DEF Next, Receive, ReceiveForDashboard, CheckNonce, SkipNonce, Accept, LoseReply, Pass,
  Drop, Register, Tick, RedisStops, RedisStarts, BackendRestarts, vars, redisVars,
  historyVars, TypeOK

\* Every step keeps what is said of single calls and of a row's writers.
LEMMA StepCalls ==
  ASSUME AccountsInv, TypeOK', AccountsTypeOK', [AccountsNext]_<<vars, accountVars>>
  PROVE  CallInv' /\ LockInv'
<1> USE DEF AccountsInv, IndInv, accountVars, tableVars
<1>1. now <= now' /\ passed \subseteq passed' /\ now \in Nat /\ now' \in Nat
  BY RequestStep, Onwards DEF TypeOK
<1>2. \A c \in Calls : call[c] # NoCall => call[c].issued \in Nat
  BY DEF AccountsTypeOK, PendingCalls
<1>3. ASSUME NEW c \in Calls, NEW a \in Agents, NEW of \in Calls \cup Requests,
             Draw(c, a, of), now' = now, of = c \/ (of \in passed' /\ of.agent = a)
      PROVE  CallInv' /\ LockInv'
  <2>1. call'[c] = [agent |-> a, token |-> drawn', issued |-> now,
                    found |-> a \in DOMAIN account, of |-> of, stage |-> "drawn"]
    BY <1>3 DEF Draw, AccountsTypeOK
  <2>2. \A d \in Calls \ {c} : call'[d] = call[d]
    BY <1>3 DEF Draw, AccountsTypeOK
  <2>3. CallInv'
    BY <1>1, <1>3, <2>1, <2>2 DEF Draw, CallInv, At
  <2> QED
    BY <2>1, <2>2, <2>3 DEF LockInv, At
<1>4. ASSUME NEW c \in Calls, call' = [call EXCEPT ![c] = NoCall], UNCHANGED late,
             stored \subseteq stored'
      PROVE  CallInv' /\ LockInv'
  <2>1. call'[c] = NoCall /\ \A d \in Calls \ {c} : call'[d] = call[d]
    BY <1>4 DEF AccountsTypeOK
  <2>2. CallInv'
    BY <1>1, <1>2, <1>4, <2>1 DEF CallInv, At
  <2> QED
    BY <2>1, <2>2 DEF LockInv, At, NoCall
<1>5. ASSUME NEW c \in Calls, call[c] # NoCall, NEW st \in {"written", "committed", "told"},
             call' = [call EXCEPT ![c].stage = st], UNCHANGED late, stored \subseteq stored',
             st = "committed" => call[c].token \in stored',
             st = "told" => late,
             st # "committed" =>
               \A d \in Calls \ {c} :
                 At(d, {"written", "told"}) => call[d].agent # call[c].agent
      PROVE  CallInv' /\ LockInv'
  <2>1. /\ call'[c] # NoCall /\ call'[c].stage = st
        /\ call'[c].agent = call[c].agent /\ call'[c].token = call[c].token
        /\ call'[c].issued = call[c].issued /\ call'[c].of = call[c].of
        /\ \A d \in Calls \ {c} : call'[d] = call[d]
    BY <1>5, Moved
  <2>2. CallInv'
    BY <1>1, <1>2, <1>5, <2>1 DEF CallInv, At
  <2> QED
    BY <1>5, <2>1, <2>2 DEF LockInv, At
<1>6. ASSUME UNCHANGED <<call, late, stored>> PROVE CallInv' /\ LockInv'
  BY <1>1, <1>2, <1>6 DEF CallInv, LockInv, At
<1>7. ASSUME NEW c \in Calls, NEW a \in Agents, RegisterAgent(c, a) PROVE CallInv' /\ LockInv'
  BY <1>3, <1>7 DEF RegisterAgent, vars
<1>8. ASSUME NEW c \in Calls, NEW h \in Handlers, GetDashboardToken(h, c)
      PROVE  CallInv' /\ LockInv'
  <2>1. handler[h] \in Requests /\ handler[h].agent \in Agents
    BY <1>8 DEF GetDashboardToken, Pass, TypeOK, Requests
  <2>2. handler[h] \in passed' /\ now' = now
    BY <1>8 DEF GetDashboardToken, Pass
  <2> QED
    BY <1>3, <1>8, <2>1, <2>2 DEF GetDashboardToken
<1>9. ASSUME NEW c \in Calls, Write(c) PROVE CallInv' /\ LockInv'
  <2>1. call[c] # NoCall
    BY <1>9, Pending DEF Write, At
  <2> QED
    BY <1>5, <1>9, <2>1 DEF Write
<1>10. ASSUME NEW c \in Calls, Conflict(c) \/ Raise(c) \/ CommitFails(c)
       PROVE  CallInv' /\ LockInv'
  BY <1>4, <1>10 DEF Conflict, Raise, CommitFails
<1>11. ASSUME NEW c \in Calls, Commit(c) PROVE CallInv' /\ LockInv'
  <2>1. call[c] # NoCall /\ call[c].token \in stored' /\ stored \subseteq stored'
    BY <1>11, Pending DEF Commit, At
  <2> QED
    BY <1>4, <1>5, <1>11, <2>1 DEF Commit
<1>12. ASSUME NEW c \in Calls, Tell(c) PROVE CallInv' /\ LockInv'
  <2>1. CASE call' = [call EXCEPT ![c] = NoCall]
    BY <1>4, <1>12, <2>1 DEF Tell
  <2>2. CASE /\ At(c, {"written"}) /\ late
             /\ call' = [call EXCEPT ![c].stage = "told"]
    <3>1. call[c] # NoCall
      BY <2>2, Pending DEF At
    <3>2. \A d \in Calls \ {c} : At(d, {"written", "told"}) => call[d].agent # call[c].agent
      BY <2>2 DEF LockInv, At
    <3> QED
      BY <1>5, <1>12, <2>2, <3>1, <3>2 DEF Tell
  <2> QED
    BY <1>12, <2>1, <2>2 DEF Tell
<1>13. CASE RestartBackend
  BY <1>13 DEF RestartBackend, CallInv, LockInv, At, NoCall
<1> QED
  BY <1>6, <1>7, <1>8, <1>9, <1>10, <1>11, <1>12, <1>13
  DEF AccountsNext, SignMint, GiveUp, Arrive, Around

-----------------------------------------------------------------------------
\* Clients.

\* Every step keeps the past of clients in the past, and what the backend works
\* on signed.
LEMMA StepClients ==
  ASSUME AccountsInv, AccountsTypeOK', [AccountsNext]_<<vars, accountVars>>
  PROVE  ClientInv'
<1> USE DEF AccountsInv, IndInv, accountVars, tableVars
<1>1. now <= now' /\ now \in Nat /\ now' \in Nat
  BY RequestStep, Onwards, StepTyped DEF TypeOK
<1>2. \A a \in Agents : client[a].asked \in SUBSET Nat
  BY DEF AccountsTypeOK, Clients
<1>3. ASSUME \A h \in Handlers : handler'[h] = handler[h] \/ handler'[h] = Idle,
             \A a \in Agents : client[a].sent \subseteq client'[a].sent,
             \A a \in Agents : client'[a].asked \subseteq client[a].asked \cup {now}
      PROVE  ClientInv'
  <2>1. ASSUME NEW h \in Handlers, handler'[h] # Idle PROVE Sent(handler[h])'
    <3>1. Sent(handler[h]) /\ handler'[h] = handler[h] /\ handler[h].agent \in Agents
      BY <1>3, <2>1 DEF ClientInv, TypeOK, Requests
    <3> QED
      BY <1>3, <3>1 DEF Sent
  <2>2. \A a \in Agents : \A t \in client'[a].asked : t <= now'
    BY <1>1, <1>2, <1>3 DEF ClientInv
  <2> QED
    BY <2>1, <2>2 DEF ClientInv
<1>4. ASSUME NEW c \in Calls, NEW a \in Agents, RegisterAgent(c, a) PROVE ClientInv'
  <2>1. /\ client'[a].asked = {now : t \in client[a].asked}
        /\ client'[a].sent = client[a].sent
        /\ \A b \in Agents \ {a} : client'[b] = client[b]
    BY <1>4, Registering
  <2>2. client'[a].asked \subseteq {now}
    BY <2>1
  <2> QED
    BY <1>3, <1>4, <2>1, <2>2 DEF RegisterAgent, vars
<1>5. ASSUME NEW a \in Agents, NEW ts \in Timestamps, SignMint(a, ts) PROVE ClientInv'
  <2>1. /\ client'[a].asked = {now : t \in client[a].asked}
        /\ client'[a].sent = client[a].sent \cup {ts}
        /\ \A b \in Agents \ {a} : client'[b] = client[b]
    BY <1>5, Signing
  <2>2. client'[a].asked \subseteq {now}
    BY <2>1
  <2> QED
    BY <1>3, <1>5, <2>1, <2>2 DEF SignMint, vars
<1>6. ASSUME NEW h \in Handlers, NEW r \in Requests, Arrive(h, r) PROVE ClientInv'
  <2>1. handler' = [handler EXCEPT ![h] = r] /\ now' = now /\ client' = client /\ Sent(r)
    BY <1>6 DEF Arrive, ReceiveForDashboard, Receive, CheckNonce, SkipNonce, Accept
  <2> QED
    BY <2>1 DEF ClientInv, Sent, TypeOK
<1>7. ASSUME NEW c \in Calls, NEW h \in Handlers, GetDashboardToken(h, c) PROVE ClientInv'
  BY <1>3, <1>7 DEF GetDashboardToken, Pass, TypeOK
<1>8. ASSUME NEW c \in Calls, Tell(c) PROVE ClientInv'
  <2>1. call[c].agent \in Agents /\ call[c].token \in Tokens
    BY <1>8, Pending DEF Tell, At, PendingCalls
  <2>2. \A b \in Agents : client'[b].asked = client[b].asked /\ client'[b].sent = client[b].sent
    BY <1>8, <2>1, ClientIsTold DEF Tell
  <2> QED
    BY <1>3, <1>8, <2>2 DEF Tell, vars
<1>9. ASSUME NEW c \in Calls, CommitFails(c) PROVE ClientInv'
  <2>1. call[c].agent \in Agents
    BY <1>9, Pending DEF CommitFails, At, PendingCalls
  <2>2. \A b \in Agents : client'[b].asked \subseteq client[b].asked
                          /\ client'[b].sent = client[b].sent
    BY <1>9, <2>1, ClientIsDisturbed DEF CommitFails
  <2> QED
    BY <1>3, <1>9, <2>2 DEF CommitFails, vars
<1>10. ASSUME NEW a \in Agents, GiveUp(a) PROVE ClientInv'
  <2>1. /\ client'[a].asked = {} /\ client'[a].sent = client[a].sent
        /\ \A b \in Agents \ {a} : client'[b] = client[b]
    BY <1>10, ClientAsks DEF GiveUp
  <2> QED
    BY <1>3, <1>10, <2>1 DEF GiveUp, vars
<1>11. CASE RestartBackend
  <2>1. \A h \in Handlers : handler'[h] = Idle
    BY <1>11 DEF RestartBackend, BackendRestarts
  <2>2. ASSUME NEW b \in Agents
        PROVE  client'[b].asked \subseteq client[b].asked /\ client'[b].sent = client[b].sent
    <3>1. client[b] \in Clients
      BY DEF AccountsTypeOK
    <3>2. client'[b] = client[b] \/ client'[b] = [client[b] EXCEPT !.asked = {}]
      BY <1>11 DEF RestartBackend
    <3> QED
      BY <3>1, <3>2 DEF Clients
  <2> QED
    BY <1>3, <2>1, <2>2
<1>12. ASSUME UNCHANGED client, \A h \in Handlers : handler'[h] = handler[h] \/ handler'[h] = Idle
       PROVE  ClientInv'
  BY <1>3, <1>12
<1>13. ASSUME NEW c \in Calls, Commit(c) PROVE ClientInv'
  BY <1>12, <1>13 DEF Commit, Register, vars
<1>14. CASE Around
  BY <1>12, <1>14 DEF Around, Tick, RedisStops, RedisStarts, Drop, LoseReply, TypeOK
<1> QED
  BY <1>4, <1>5, <1>6, <1>7, <1>8, <1>9, <1>10, <1>11, <1>12, <1>13, <1>14
  DEF AccountsNext, Write, Conflict, Raise, vars

\* A token is told after its commit, unless get_db is late.
LEMMA StepTold ==
  ASSUME AccountsInv, AccountsTypeOK', [AccountsNext]_<<vars, accountVars>>
  PROVE  ToldWasStored'
<1> USE DEF AccountsInv, IndInv, accountVars, tableVars
<1>1. ASSUME UNCHANGED late, stored \subseteq stored',
             \A a \in Agents : client'[a].hand = client[a].hand
      PROVE  ToldWasStored'
  BY <1>1 DEF ToldWasStored
<1>2. ASSUME NEW c \in Calls, NEW a \in Agents, RegisterAgent(c, a) PROVE ToldWasStored'
  <2>1. \A b \in Agents : client'[b].hand = client[b].hand
    BY <1>2, Registering
  <2> QED
    BY <1>1, <1>2, <2>1 DEF RegisterAgent, Draw
<1>3. ASSUME NEW a \in Agents, NEW ts \in Timestamps, SignMint(a, ts) PROVE ToldWasStored'
  <2>1. \A b \in Agents : client'[b].hand = client[b].hand
    BY <1>3, Signing
  <2> QED
    BY <1>1, <1>3, <2>1 DEF SignMint
<1>4. ASSUME NEW c \in Calls, Tell(c) PROVE ToldWasStored'
  <2>1. call[c] # NoCall /\ call[c].agent \in Agents /\ call[c].token \in Tokens
    BY <1>4, Pending DEF Tell, At, PendingCalls
  <2>2. late \/ call[c].token \in stored
    BY <1>4, <2>1 DEF Tell, CallInv
  <2>3. \A b \in Agents : client'[b].hand \in {client[b].hand, call[c].token}
    BY <1>4, <2>1, ClientIsTold DEF Tell
  <2>4. UNCHANGED <<late, stored>>
    BY <1>4 DEF Tell
  <2> QED
    BY <2>2, <2>3, <2>4 DEF ToldWasStored
<1>5. ASSUME NEW c \in Calls, CommitFails(c) PROVE ToldWasStored'
  <2>1. call[c].agent \in Agents
    BY <1>5, Pending DEF CommitFails, At, PendingCalls
  <2>2. \A b \in Agents : client'[b].hand = client[b].hand
    BY <1>5, <2>1, ClientIsDisturbed DEF CommitFails
  <2> QED
    BY <1>1, <1>5, <2>2 DEF CommitFails
<1>6. ASSUME NEW a \in Agents, GiveUp(a) PROVE ToldWasStored'
  <2>1. \A b \in Agents : client'[b].hand = client[b].hand
    BY <1>6, ClientAsks DEF GiveUp
  <2> QED
    BY <1>1, <1>6, <2>1 DEF GiveUp
<1>7. CASE RestartBackend
  <2>1. ASSUME NEW b \in Agents PROVE client'[b].hand = client[b].hand
    <3>1. client[b] \in Clients
      BY DEF AccountsTypeOK
    <3>2. client'[b] = client[b] \/ client'[b] = [client[b] EXCEPT !.asked = {}]
      BY <1>7 DEF RestartBackend
    <3> QED
      BY <3>1, <3>2 DEF Clients
  <2> QED
    BY <1>1, <1>7, <2>1 DEF RestartBackend
<1>8. ASSUME UNCHANGED <<late, client>>, stored \subseteq stored' PROVE ToldWasStored'
  BY <1>1, <1>8
<1> QED
  BY <1>2, <1>3, <1>4, <1>5, <1>6, <1>7, <1>8
  DEF AccountsNext, GetDashboardToken, Draw, Write, Conflict, Raise, Commit, Arrive, Around

-----------------------------------------------------------------------------
\* Undisturbed agents.

\* A call of an undisturbed agent that is not answered is the one it waits for.
LEMMA Waits ==
  ASSUME AccountsTypeOK, NEW a \in Agents, UnderWayInv(a),
         NEW c \in Calls, CallOf(c, a), ~At(c, {"told"})
  PROVE  call[c].of = client[a].waiting /\ client[a].waiting # Idle
<1>1. call[c].of = client[a].waiting
  BY DEF UnderWayInv
<1>2. call[c].of \in Calls \cup Requests
  BY DEF CallOf, AccountsTypeOK, PendingCalls
<1> QED
  BY <1>1, <1>2, Apart

\* Copies that were let through stay so.
LEMMA StillNoOther ==
  ASSUME NEW b \in Agents, passed \subseteq passed', early \subseteq early', NoOtherCopy(b)'
  PROVE  NoOtherCopy(b)
BY DEF NoOtherCopy

\* What a step does not touch of an agent stays true of it.
LEMMA Untouched ==
  ASSUME AccountsTypeOK, NEW b \in Agents, AgentInv(b), client'[b] = client[b],
         \A c \in Calls : CallOf(c, b) \/ CallOf(c, b)' => call'[c] = call[c],
         b \in DOMAIN account <=> b \in DOMAIN account',
         b \in DOMAIN account => account'[b] = account[b],
         passed \subseteq passed'
  PROVE  AgentInv(b)'
<1> USE DEF AgentInv
<1>1. \A c \in Calls : CallOf(c, b) <=> CallOf(c, b)'
  BY DEF CallOf
<1>2. \A c \in Calls : CallOf(c, b) => call'[c] = call[c]
  OBVIOUS
<1>3. SignedInv(b)'
  BY DEF SignedInv, Signed
<1>4. UnderWayInv(b)'
  BY <1>1, <1>2 DEF UnderWayInv, At, Row
<1>5. ToldInv(b)'
  BY <1>1, <1>2 DEF ToldInv, At
<1>6. HandInv(b)'
  BY <1>1, <1>2 DEF HandInv, At
<1> QED
  BY <1>3, <1>4, <1>5, <1>6

\* An agent that waits for no call, asks: the new call is its only one but for
\* those that were told.
LEMMA Asked ==
  ASSUME AccountsTypeOK, AccountsTypeOK', NEW a \in Agents, UnderWayInv(a), ToldInv(a),
         client[a].waiting = Idle, client'[a].waiting # Idle,
         client'[a].hand = client[a].hand, UNCHANGED call
  PROVE  UnderWayInv(a)' /\ ToldInv(a)' /\ HandInv(a)'
<1>1. \A c \in Calls : CallOf(c, a) => At(c, {"told"})
  BY Waits
<1> QED
  BY <1>1 DEF UnderWayInv, ToldInv, HandInv, At, CallOf

LEMMA Drawn ==
  ASSUME AccountsTypeOK, NEW a \in Agents, NEW c \in Calls,
         NEW of \in Calls \cup Requests, Draw(c, a, of),
         ToldInv(a), \A d \in Calls : CallOf(d, a) => At(d, {"told"}),
         client'[a].waiting = of, client'[a].hand = client[a].hand,
         \A t \in client'[a].asked : t <= now
  PROVE  UnderWayInv(a)' /\ ToldInv(a)' /\ HandInv(a)'
<1>1. call'[c] = [agent |-> a, token |-> drawn', issued |-> now,
                  found |-> a \in DOMAIN account, of |-> of, stage |-> "drawn"]
  BY DEF Draw, AccountsTypeOK
<1>2. \A d \in Calls \ {c} : call'[d] = call[d]
  BY DEF Draw, AccountsTypeOK
<1>3. of # Idle
  BY Apart
<1>4. UnderWayInv(a)'
  BY <1>1, <1>2 DEF UnderWayInv, At, CallOf
<1>5. ToldInv(a)'
  BY <1>1, <1>2, <1>3 DEF ToldInv, At, CallOf
<1> QED
  BY <1>3, <1>4, <1>5 DEF HandInv

LEMMA RegisterUndisturbed ==
  ASSUME AccountsInv, NEW c \in Calls, NEW a \in Agents, RegisterAgent(c, a)
  PROVE  UndisturbedInv'
<1> USE DEF AccountsInv, IndInv
<1> SUFFICES ASSUME NEW b \in Agents, Undisturbed(b)' PROVE AgentInv(b)'
  BY DEF UndisturbedInv
<1>1. /\ client'[a].waiting = c
      /\ client'[a].asked = {now : t \in client[a].asked}
      /\ client'[a].hand = client[a].hand /\ client'[a].sent = client[a].sent
      /\ \A d \in Agents \ {a} : client'[d] = client[d]
  BY Registering
<1>2. /\ client[a].waiting = Idle /\ Draw(c, a, c)
      /\ UNCHANGED <<account, passed, early, intact, now>>
  BY DEF RegisterAgent, Draw, tableVars, vars, redisVars, historyVars
<1>3. AgentInv(b)
  <2>1. Undisturbed(b)
    BY <1>1, <1>2 DEF Undisturbed, NoOtherCopy
  <2> QED
    BY <2>1 DEF UndisturbedInv
<1>4. CASE b # a
  <2>1. \A d \in Calls : CallOf(d, b) \/ CallOf(d, b)' => call'[d] = call[d]
    BY <1>2, <1>4 DEF Draw, CallOf, AccountsTypeOK
  <2> QED
    BY <1>1, <1>2, <1>3, <1>4, <2>1, Untouched
<1>5. CASE b = a
  <2>1. \A d \in Calls : CallOf(d, a) => At(d, {"told"})
    BY <1>2, <1>3, <1>5, Waits DEF AgentInv
  <2>2. \A t \in client'[a].asked : t <= now
    BY <1>1 DEF TypeOK
  <2>3. UnderWayInv(a)' /\ ToldInv(a)' /\ HandInv(a)'
    BY <1>1, <1>2, <1>3, <1>5, <2>1, <2>2, Drawn DEF AgentInv
  <2>4. SignedInv(a)'
    <3>1. ASSUME NEW ts \in client[a].sent PROVE Signed(a, ts) \in passed
      <4>1. Signed(a, ts) \in passed \cup {Idle}
        BY <1>2, <1>3, <1>5 DEF AgentInv, SignedInv
      <4>2. ts \in Timestamps
        BY DEF AccountsTypeOK, Clients
      <4> QED
        BY <4>1, <4>2, SignedIsRequest, Apart
    <3> QED
      BY <1>1, <1>2, <3>1 DEF SignedInv, Signed
  <2> QED
    BY <1>5, <2>3, <2>4 DEF AgentInv
<1> QED
  BY <1>4, <1>5

LEMMA SignUndisturbed ==
  ASSUME AccountsInv, AccountsTypeOK', NEW a \in Agents, NEW ts \in Timestamps, SignMint(a, ts)
  PROVE  UndisturbedInv'
<1> USE DEF AccountsInv, IndInv
<1> SUFFICES ASSUME NEW b \in Agents, Undisturbed(b)' PROVE AgentInv(b)'
  BY DEF UndisturbedInv
<1>1. /\ client'[a].waiting = Signed(a, ts)
      /\ client'[a].asked = {now : t \in client[a].asked}
      /\ client'[a].hand = client[a].hand /\ client'[a].sent = client[a].sent \cup {ts}
      /\ \A d \in Agents \ {a} : client'[d] = client[d]
  BY Signing
<1>2. client[a].waiting = Idle /\ UNCHANGED <<account, call, passed, early, intact>>
  BY DEF SignMint, tableVars, vars, redisVars, historyVars
<1>3. AgentInv(b)
  <2>1. Undisturbed(b)
    BY <1>1, <1>2 DEF Undisturbed, NoOtherCopy
  <2> QED
    BY <2>1 DEF UndisturbedInv
<1>4. CASE b # a
  BY <1>1, <1>2, <1>3, <1>4, Untouched
<1>5. CASE b = a
  <2>1. Signed(a, ts) # Idle
    BY SignedIsRequest, Apart
  <2>2. UnderWayInv(a)' /\ ToldInv(a)' /\ HandInv(a)'
    BY <1>1, <1>2, <1>3, <1>5, <2>1, Asked DEF AgentInv
  <2>3. SignedInv(a)'
    <3>1. ASSUME NEW u \in client[a].sent PROVE Signed(a, u) \in passed
      <4>1. Signed(a, u) \in passed \cup {Idle}
        BY <1>2, <1>3, <1>5 DEF AgentInv, SignedInv
      <4>2. u \in Timestamps
        BY DEF AccountsTypeOK, Clients
      <4> QED
        BY <4>1, <4>2, SignedIsRequest, Apart
    <3> QED
      BY <1>1, <1>2, <3>1 DEF SignedInv, Signed
  <2> QED
    BY <1>5, <2>2, <2>3 DEF AgentInv
<1> QED
  BY <1>4, <1>5

LEMMA MintUndisturbed ==
  ASSUME AccountsInv, NEW c \in Calls, NEW h \in Handlers, GetDashboardToken(h, c)
  PROVE  UndisturbedInv'
<1> USE DEF AccountsInv, IndInv
<1> SUFFICES ASSUME NEW b \in Agents, Undisturbed(b)' PROVE AgentInv(b)'
  BY DEF UndisturbedInv
<1>1. PICK r \in Requests, a \in Agents :
        r = handler[h] /\ r # Idle /\ r.genuine = TRUE /\ a = r.agent
  BY DEF GetDashboardToken, Pass, TypeOK, Requests
<1>2. Draw(c, a, r) /\ UNCHANGED <<account, client, early, intact, now>>
  BY <1>1 DEF GetDashboardToken, Draw, Pass, tableVars, redisVars
<1>3. passed \subseteq passed' /\ r \in passed'
  BY <1>1 DEF GetDashboardToken, Pass
<1>4. AgentInv(b) /\ intact /\ NoOtherCopy(b)'
  BY <1>2, <1>3, StillNoOther DEF Undisturbed, NoOtherCopy, UndisturbedInv
<1>5. CASE b # a
  <2>1. \A d \in Calls : CallOf(d, b) \/ CallOf(d, b)' => call'[d] = call[d]
    BY <1>2, <1>5 DEF Draw, CallOf, AccountsTypeOK
  <2> QED
    BY <1>2, <1>3, <1>4, <1>5, <2>1, Untouched
<1>6. CASE b = a
  <2>1. r.spelling = Usual /\ r \notin passed
    <3>1. r.spelling = Usual /\ r \notin early
      BY <1>1, <1>2, <1>3, <1>4, <1>6 DEF NoOtherCopy
    <3> QED
      BY <1>1, <1>4, <3>1 DEF OnceInv
  <2>2. r.ts \in client[a].sent
    BY <1>1 DEF ClientInv, Sent
  <2>3. Signed(a, r.ts) = r
    BY <1>1, <2>1 DEF Signed, Requests
  <2>4. client[a].waiting = r
    BY <1>4, <1>6, <2>1, <2>2, <2>3 DEF AgentInv, SignedInv
  <2>5. ASSUME NEW d \in Calls, CallOf(d, a), ~At(d, {"told"}) PROVE FALSE
    <3>1. call[d].of = r
      BY <1>1, <1>4, <1>6, <2>4, <2>5, Waits DEF AgentInv
    <3>2. call[d].of = d \/ call[d].of \in passed
      BY <2>5 DEF CallInv, CallOf
    <3> QED
      BY <1>1, <2>1, <3>1, <3>2, Apart
  <2>6. \A t \in client[a].asked : t <= now
    BY <1>1 DEF ClientInv
  <2>7. UnderWayInv(a)' /\ ToldInv(a)' /\ HandInv(a)'
    BY <1>1, <1>2, <1>4, <1>6, <2>4, <2>5, <2>6, Drawn DEF AgentInv
  <2>8. SignedInv(a)'
    BY <1>2, <1>3, <1>4, <1>6 DEF AgentInv, SignedInv, Signed
  <2> QED
    BY <1>6, <2>7, <2>8 DEF AgentInv
<1> QED
  BY <1>5, <1>6

\* An agent whose call is not told has it as its only one, or all others told.
LEMMA Alone ==
  ASSUME NEW a \in Agents, UnderWayInv(a), NEW c \in Calls, CallOf(c, a),
         At(c, {"written", "committed"})
  PROVE  \A d \in Calls \ {c} : ~CallOf(d, a)
BY DEF UnderWayInv, At

LEMMA WriteUndisturbed ==
  ASSUME AccountsInv, NEW c \in Calls, Write(c)
  PROVE  UndisturbedInv'
<1> USE DEF AccountsInv, IndInv
<1> SUFFICES ASSUME NEW b \in Agents, Undisturbed(b)' PROVE AgentInv(b)'
  BY DEF UndisturbedInv
<1>1. /\ call[c] # NoCall /\ At(c, {"drawn"})
      /\ call' = [call EXCEPT ![c].stage = "written"]
      /\ \A d \in Calls \ {c} : At(d, {"written", "told"}) => call[d].agent # call[c].agent
  BY Pending DEF Write, At
<1>2. /\ call'[c] # NoCall /\ call'[c].stage = "written"
      /\ call'[c].agent = call[c].agent /\ call'[c].token = call[c].token
      /\ call'[c].issued = call[c].issued /\ call'[c].of = call[c].of
      /\ \A d \in Calls \ {c} : call'[d] = call[d]
  BY <1>1, Moved
<1>3. UNCHANGED <<account, client, passed, early, intact>>
  BY DEF Write, tableVars, vars, redisVars, historyVars
<1>4. AgentInv(b)
  BY <1>3 DEF Undisturbed, NoOtherCopy, UndisturbedInv
<1>5. CASE b # call[c].agent
  <2>1. \A d \in Calls : CallOf(d, b) \/ CallOf(d, b)' => call'[d] = call[d]
    BY <1>2, <1>5 DEF CallOf
  <2> QED
    BY <1>3, <1>4, <2>1, Untouched
<1>6. CASE b = call[c].agent
  <2>1. CallOf(c, b) /\ ~At(c, {"told"})
    BY <1>1, <1>6 DEF CallOf, At
  <2>2. \A d \in Calls \ {c} : ~CallOf(d, b)
    BY <1>1, <1>4, <1>6, <2>1 DEF AgentInv, UnderWayInv, At, CallOf
  <2>3. \A d \in Calls : CallOf(d, b)' => d = c
    BY <1>2, <2>2 DEF CallOf
  <2>4. client[b].waiting # Idle
    BY <1>4, <2>1, Waits DEF AgentInv
  <2>5. UnderWayInv(b)'
    BY <1>2, <1>3, <1>4, <2>1, <2>3 DEF AgentInv, UnderWayInv, At
  <2>6. ToldInv(b)'
    BY <1>2, <2>3 DEF ToldInv, At
  <2>7. HandInv(b)'
    BY <1>3, <2>4 DEF HandInv
  <2>8. SignedInv(b)'
    BY <1>3, <1>4 DEF AgentInv, SignedInv, Signed
  <2> QED
    BY <2>5, <2>6, <2>7, <2>8 DEF AgentInv
<1> QED
  BY <1>5, <1>6

LEMMA DropUndisturbed ==
  ASSUME AccountsInv, NEW c \in Calls, Conflict(c) \/ Raise(c)
  PROVE  UndisturbedInv'
<1> USE DEF AccountsInv, IndInv
<1> SUFFICES ASSUME NEW b \in Agents, Undisturbed(b)' PROVE AgentInv(b)'
  BY DEF UndisturbedInv
<1>1. /\ call[c] # NoCall /\ At(c, {"drawn", "written"})
      /\ call' = [call EXCEPT ![c] = NoCall]
  BY Pending DEF Conflict, Raise, At
<1>2. call'[c] = NoCall /\ \A d \in Calls \ {c} : call'[d] = call[d]
  BY <1>1 DEF AccountsTypeOK
<1>3. UNCHANGED <<account, client, passed, early, intact>>
  BY DEF Conflict, Raise, tableVars, vars, redisVars, historyVars
<1>4. AgentInv(b)
  BY <1>3 DEF Undisturbed, NoOtherCopy, UndisturbedInv
<1>5. CASE b # call[c].agent
  <2>1. \A d \in Calls : CallOf(d, b) \/ CallOf(d, b)' => call'[d] = call[d]
    BY <1>2, <1>5 DEF CallOf
  <2> QED
    BY <1>3, <1>4, <2>1, Untouched
<1>6. CASE b = call[c].agent
  <2>1. CallOf(c, b) /\ ~At(c, {"told"})
    BY <1>1, <1>6 DEF CallOf, At
  <2>2. client[b].waiting # Idle
    BY <1>4, <2>1, Waits DEF AgentInv
  <2>3. \A d \in Calls : CallOf(d, b)' => d # c /\ CallOf(d, b) /\ call'[d] = call[d]
    BY <1>2 DEF CallOf
  <2>4. UnderWayInv(b)'
    BY <1>3, <1>4, <2>3 DEF AgentInv, UnderWayInv, At, Row
  <2>5. ToldInv(b)'
    BY <1>3, <1>4, <2>3 DEF AgentInv, ToldInv, At
  <2>6. HandInv(b)'
    BY <1>3, <2>2 DEF HandInv
  <2>7. SignedInv(b)'
    BY <1>3, <1>4 DEF AgentInv, SignedInv, Signed
  <2> QED
    BY <2>4, <2>5, <2>6, <2>7 DEF AgentInv
<1> QED
  BY <1>5, <1>6

LEMMA CommitUndisturbed ==
  ASSUME AccountsInv, NEW c \in Calls, Commit(c)
  PROVE  UndisturbedInv'
<1> USE DEF AccountsInv, IndInv
<1> SUFFICES ASSUME NEW b \in Agents, Undisturbed(b)' PROVE AgentInv(b)'
  BY DEF UndisturbedInv
<1>1. PICK a \in Agents : a = call[c].agent /\ CallOf(c, a)
  BY Pending DEF Commit, At, CallOf, PendingCalls
<1>2. account' = [d \in DOMAIN account \cup {a} |-> IF d = a THEN Row(c) ELSE account[d]]
  BY <1>1 DEF Commit
<1>3. UNCHANGED <<client, passed, early, intact>>
  BY DEF Commit, Register, vars, redisVars, historyVars
<1>4. AgentInv(b)
  BY <1>3 DEF Undisturbed, NoOtherCopy, UndisturbedInv
<1>5. SignedInv(b)'
  BY <1>3, <1>4 DEF AgentInv, SignedInv, Signed
<1>6. CASE /\ At(c, {"written"})
           /\ call' = [call EXCEPT ![c].stage = "committed"]
  <2>1. /\ call'[c] # NoCall /\ call'[c].stage = "committed"
        /\ call'[c].agent = call[c].agent /\ call'[c].token = call[c].token
        /\ call'[c].issued = call[c].issued /\ call'[c].of = call[c].of
        /\ \A d \in Calls \ {c} : call'[d] = call[d]
    BY <1>1, <1>6, Moved DEF CallOf
  <2>2. CASE b # a
    <3>1. \A d \in Calls : CallOf(d, b) \/ CallOf(d, b)' => call'[d] = call[d]
      BY <1>1, <2>1, <2>2 DEF CallOf
    <3> QED
      BY <1>2, <1>3, <1>4, <2>2, <3>1, Untouched
  <2>3. CASE b = a
    <3>1. \A d \in Calls : CallOf(d, b)' => d = c
      BY <1>1, <1>4, <1>6, <2>1, <2>3, Alone DEF AgentInv, CallOf, At
    <3>2. client[b].waiting # Idle
      BY <1>1, <1>4, <1>6, <2>3, Waits DEF AgentInv, At
    <3>3. Row(c)' = Row(c) /\ account'[a] = Row(c) /\ a \in DOMAIN account'
      BY <1>2, <2>1 DEF Row
    <3>4. UnderWayInv(b)'
      BY <1>1, <1>3, <1>4, <1>6, <2>1, <2>3, <3>1, <3>3 DEF AgentInv, UnderWayInv, At
    <3>5. ToldInv(b)'
      BY <2>1, <3>1 DEF ToldInv, At
    <3>6. HandInv(b)'
      BY <1>3, <3>2 DEF HandInv
    <3> QED
      BY <1>5, <3>4, <3>5, <3>6 DEF AgentInv
  <2> QED
    BY <2>2, <2>3
<1>7. CASE At(c, {"told"}) /\ call' = [call EXCEPT ![c] = NoCall]
  <2>1. call'[c] = NoCall /\ \A d \in Calls \ {c} : call'[d] = call[d]
    BY <1>7 DEF AccountsTypeOK
  <2>2. CASE b # a
    <3>1. \A d \in Calls : CallOf(d, b) \/ CallOf(d, b)' => call'[d] = call[d]
      BY <1>1, <2>1, <2>2 DEF CallOf
    <3> QED
      BY <1>2, <1>3, <1>4, <2>2, <3>1, Untouched
  <2>3. CASE b = a
    <3>1. \A d \in Calls : CallOf(d, b)' => d # c /\ CallOf(d, b) /\ call'[d] = call[d]
      BY <2>1 DEF CallOf
    <3>2. ASSUME NEW d \in Calls, CallOf(d, b)' PROVE At(d, {"drawn"}) /\ At(d, {"drawn"})'
      <4>1. ~At(d, {"told"})
        BY <1>1, <1>7, <2>3, <3>1, <3>2 DEF LockInv, At, CallOf
      <4> QED
        BY <1>1, <1>4, <2>3, <3>1, <3>2, <4>1 DEF AgentInv, UnderWayInv, At
    <3>3. UnderWayInv(b)'
      BY <1>3, <1>4, <3>1, <3>2 DEF AgentInv, UnderWayInv, At
    <3>4. ToldInv(b)'
      BY <3>2 DEF ToldInv, At
    <3>5. account'[a] = Row(c) /\ a \in DOMAIN account'
      BY <1>2
    <3>6. HandInv(b)'
      BY <1>1, <1>3, <1>4, <1>7, <2>3, <3>5 DEF AgentInv, ToldInv, HandInv, Row
    <3> QED
      BY <1>5, <3>3, <3>4, <3>6 DEF AgentInv
  <2> QED
    BY <2>2, <2>3
<1> QED
  BY <1>6, <1>7 DEF Commit

LEMMA TellUndisturbed ==
  ASSUME AccountsInv, NEW c \in Calls, Tell(c)
  PROVE  UndisturbedInv'
<1> USE DEF AccountsInv, IndInv
<1> SUFFICES ASSUME NEW b \in Agents, Undisturbed(b)' PROVE AgentInv(b)'
  BY DEF UndisturbedInv
<1>1. PICK a \in Agents : a = call[c].agent /\ CallOf(c, a)
  BY Pending DEF Tell, At, CallOf, PendingCalls
<1>2. client' = IF client[a].waiting = call[c].of
                  THEN [client EXCEPT ![a].waiting = Idle, ![a].hand = call[c].token]
                  ELSE client
  BY <1>1 DEF Tell
<1>3. UNCHANGED <<account, passed, early, intact>>
  BY DEF Tell, tableVars, vars, redisVars, historyVars
<1>4. call[c].token \in Tokens
  BY <1>1 DEF CallOf, AccountsTypeOK, PendingCalls
<1>5. \A d \in Agents : client'[d].asked = client[d].asked
  BY <1>2, <1>4, ClientIsTold
<1>6. AgentInv(b)
  BY <1>3, <1>5 DEF Undisturbed, NoOtherCopy, UndisturbedInv
<1>7. ~At(c, {"told"}) /\ At(c, {"written", "committed"})
  BY DEF Tell, At
<1>8. \/ call' = [call EXCEPT ![c] = NoCall] /\ At(c, {"committed"})
      \/ call' = [call EXCEPT ![c].stage = "told"] /\ At(c, {"written"}) /\ ~ForMint(c)
  BY DEF Tell
<1>9. \A d \in Calls \ {c} : call'[d] = call[d]
  BY <1>8 DEF AccountsTypeOK
<1>10. call'[c] # NoCall =>
        /\ At(c, {"written"}) /\ call'[c].stage = "told"
        /\ call'[c].agent = call[c].agent /\ call'[c].token = call[c].token
        /\ call'[c].issued = call[c].issued /\ call'[c].of = call[c].of
  BY <1>1, <1>8, Moved DEF AccountsTypeOK, CallOf
<1>11. CASE b # a
  <2>1. \A d \in Calls : CallOf(d, b) \/ CallOf(d, b)' => call'[d] = call[d]
    BY <1>1, <1>9, <1>10, <1>11 DEF CallOf
  <2>2. client'[b] = client[b]
    BY <1>2, <1>4, <1>11, ClientIsTold
  <2> QED
    BY <1>3, <1>6, <2>1, <2>2, Untouched
<1>12. CASE b = a
  <2>1. client[a].waiting = call[c].of
    BY <1>1, <1>6, <1>7, <1>12, Waits DEF AgentInv
  <2>2. /\ client'[a].waiting = Idle /\ client'[a].hand = call[c].token
        /\ client'[a].asked = client[a].asked /\ client'[a].sent = client[a].sent
    BY <1>2, <1>4, <2>1, ClientIsTold
  <2>3. \A d \in Calls : CallOf(d, a)' => d = c
    BY <1>1, <1>6, <1>7, <1>9, <1>12, Alone DEF AgentInv, CallOf
  <2>4. \A t \in client[a].asked : t <= call[c].issued
    BY <1>1, <1>6, <1>7, <1>12 DEF AgentInv, UnderWayInv
  <2>5. SignedInv(a)'
    <3>1. ASSUME NEW ts \in client[a].sent PROVE Signed(a, ts) \in passed
      <4>1. Signed(a, ts) \in passed \cup {call[c].of}
        BY <1>6, <1>12, <2>1 DEF AgentInv, SignedInv
      <4>2. call[c].of = c \/ call[c].of \in passed
        BY <1>1 DEF CallInv, CallOf
      <4>3. ts \in Timestamps
        BY DEF AccountsTypeOK, Clients
      <4> QED
        BY <4>1, <4>2, <4>3, SignedIsRequest, Apart
    <3> QED
      BY <1>3, <2>2, <3>1 DEF SignedInv, Signed
  <2>6. UnderWayInv(a)'
    BY <1>10, <2>3 DEF UnderWayInv, At, CallOf
  <2>7. ToldInv(a)'
    BY <1>10, <2>2, <2>3, <2>4 DEF ToldInv, CallOf
  <2>8. HandInv(a)'
    <3>1. CASE At(c, {"written"})
      <4>1. call' = [call EXCEPT ![c].stage = "told"]
        BY <1>8, <3>1 DEF At
      <4>2. CallOf(c, a)' /\ At(c, {"told"})'
        BY <1>1, <4>1, Moved DEF CallOf, At
      <4> QED
        BY <4>2 DEF HandInv
    <3>2. CASE At(c, {"committed"})
      <4>1. a \in DOMAIN account /\ account[a] = Row(c)
        BY <1>1, <1>6, <1>7, <1>12, <3>2 DEF AgentInv, UnderWayInv
      <4> QED
        BY <1>3, <2>2, <2>4, <4>1 DEF HandInv, Row
    <3> QED
      BY <1>7, <3>1, <3>2 DEF At
  <2> QED
    BY <1>12, <2>5, <2>6, <2>7, <2>8 DEF AgentInv
<1> QED
  BY <1>11, <1>12

LEMMA FailUndisturbed ==
  ASSUME AccountsInv, NEW c \in Calls, CommitFails(c)
  PROVE  UndisturbedInv'
<1> USE DEF AccountsInv, IndInv
<1> SUFFICES ASSUME NEW b \in Agents, Undisturbed(b)' PROVE AgentInv(b)'
  BY DEF UndisturbedInv
<1>1. PICK a \in Agents : a = call[c].agent /\ CallOf(c, a)
  BY Pending DEF CommitFails, At, CallOf, PendingCalls
<1>2. client'[a].asked = {} /\ \A d \in Agents \ {a} : client'[d] = client[d]
  BY <1>1, ClientIsDisturbed DEF CommitFails
<1>3. UNCHANGED <<account, passed, early, intact>>
  BY DEF CommitFails, tableVars, vars, redisVars, historyVars
<1>4. b # a
  BY <1>2 DEF Undisturbed
<1>5. AgentInv(b)
  BY <1>2, <1>3, <1>4 DEF Undisturbed, NoOtherCopy, UndisturbedInv
<1>6. \A d \in Calls : CallOf(d, b) \/ CallOf(d, b)' => call'[d] = call[d]
  BY <1>1, <1>4 DEF CommitFails, CallOf, AccountsTypeOK
<1> QED
  BY <1>2, <1>3, <1>4, <1>5, <1>6, Untouched

LEMMA GiveUpUndisturbed ==
  ASSUME AccountsInv, NEW a \in Agents, GiveUp(a)
  PROVE  UndisturbedInv'
<1> USE DEF AccountsInv, IndInv
<1> SUFFICES ASSUME NEW b \in Agents, Undisturbed(b)' PROVE AgentInv(b)'
  BY DEF UndisturbedInv
<1>1. client'[a].asked = {} /\ \A d \in Agents \ {a} : client'[d] = client[d]
  BY ClientAsks DEF GiveUp
<1>2. UNCHANGED <<account, call, passed, early, intact>>
  BY DEF GiveUp, tableVars, vars, redisVars, historyVars
<1>3. b # a
  BY <1>1 DEF Undisturbed
<1>4. AgentInv(b)
  BY <1>1, <1>2, <1>3 DEF Undisturbed, NoOtherCopy, UndisturbedInv
<1> QED
  BY <1>1, <1>2, <1>3, <1>4, Untouched

LEMMA RestartUndisturbed ==
  ASSUME AccountsInv, RestartBackend
  PROVE  UndisturbedInv'
<1> USE DEF AccountsInv, IndInv
<1> SUFFICES ASSUME NEW b \in Agents, Undisturbed(b)' PROVE AgentInv(b)'
  BY DEF UndisturbedInv
<1>1. \A d \in Calls : call'[d] = NoCall
  BY DEF RestartBackend
<1>2. UNCHANGED <<account, passed, early>> /\ (intact' => intact)
  BY DEF RestartBackend, BackendRestarts, tableVars, historyVars
<1>3. client'[b] = IF \E d \in Calls : At(d, {"told"}) /\ call[d].agent = b
                     THEN [client[b] EXCEPT !.asked = {}] ELSE client[b]
  BY DEF RestartBackend
<1>4. client'[b] = client[b] /\ \A d \in Calls : CallOf(d, b) => ~At(d, {"told"})
  BY <1>3 DEF Undisturbed, AccountsTypeOK, Clients, CallOf
<1>5. AgentInv(b)
  BY <1>2, <1>4 DEF Undisturbed, NoOtherCopy, UndisturbedInv
<1>6. SignedInv(b)'
  BY <1>2, <1>4, <1>5 DEF AgentInv, SignedInv, Signed
<1>7. UnderWayInv(b)' /\ ToldInv(b)'
  BY <1>1 DEF UnderWayInv, ToldInv, CallOf
<1>8. HandInv(b)'
  BY <1>2, <1>4, <1>5 DEF AgentInv, HandInv
<1> QED
  BY <1>6, <1>7, <1>8 DEF AgentInv

\* Every step leaves the undisturbed agents what they were promised.
LEMMA StepUndisturbed ==
  ASSUME AccountsInv, AccountsTypeOK', [AccountsNext]_<<vars, accountVars>>
  PROVE  UndisturbedInv'
<1> USE DEF AccountsInv, IndInv
<1>1. ASSUME UNCHANGED <<account, call, client, passed>> PROVE UndisturbedInv'
  <2>1. (intact' => intact) /\ early \subseteq early'
    BY RequestStep, Onwards
  <2> SUFFICES ASSUME NEW b \in Agents, Undisturbed(b)' PROVE AgentInv(b)'
    BY DEF UndisturbedInv
  <2>2. AgentInv(b)
    BY <1>1, <2>1 DEF Undisturbed, NoOtherCopy, UndisturbedInv
  <2> QED
    BY <1>1, <2>2, Untouched
<1>2. ASSUME NEW h \in Handlers, NEW r \in Requests, Arrive(h, r) PROVE UndisturbedInv'
  BY <1>1, <1>2
  DEF Arrive, ReceiveForDashboard, Receive, CheckNonce, SkipNonce, Accept, accountVars,
    tableVars, historyVars
<1>3. CASE Around
  BY <1>1, <1>3 DEF Around, Tick, RedisStops, RedisStarts, Drop, LoseReply, accountVars,
    tableVars, historyVars
<1>4. CASE UNCHANGED <<vars, accountVars>>
  BY <1>1, <1>4 DEF accountVars, tableVars, vars, historyVars
<1> QED
  BY <1>2, <1>3, <1>4, RegisterUndisturbed, SignUndisturbed, MintUndisturbed,
     WriteUndisturbed, DropUndisturbed, CommitUndisturbed, TellUndisturbed,
     FailUndisturbed, GiveUpUndisturbed, RestartUndisturbed
  DEF AccountsNext

-----------------------------------------------------------------------------
\* The invariant holds of every reachable state.
THEOREM AccountsInvariance == AccountsSpec => []AccountsInv
<1>1. AccountsInit => AccountsInv
  <2> SUFFICES ASSUME AccountsInit PROVE AccountsInv
    OBVIOUS
  <2>1. IndInv
    BY DEF AccountsInit, Init, IndInv, TypeOK, OnceInv
  <2>2. AccountsTypeOK
    BY MaxTokensAssumption DEF AccountsInit, Init, AccountsTypeOK, Clients, Accounts
  <2>3. CallInv /\ LockInv /\ UndisturbedInv
    BY DEF AccountsInit, CallInv, LockInv, UndisturbedInv, AgentInv, SignedInv,
      UnderWayInv, ToldInv, HandInv, CallOf, At, NoCall
  <2>4. ClientInv /\ ToldWasStored
    BY DEF AccountsInit, Init, ClientInv, ToldWasStored
  <2> QED
    BY <2>1, <2>2, <2>3, <2>4 DEF AccountsInv
<1>2. AccountsInv /\ [AccountsNext]_<<vars, accountVars>> => AccountsInv'
  <2> SUFFICES ASSUME AccountsInv, [AccountsNext]_<<vars, accountVars>> PROVE AccountsInv'
    OBVIOUS
  <2>1. IndInv' /\ TypeOK'
    BY RequestStep, StepTyped, StepOnce DEF AccountsInv, IndInv
  <2>2. AccountsTypeOK'
    BY <2>1, AccountsTyped DEF AccountsInv, IndInv
  <2> QED
    BY <2>1, <2>2, StepCalls, StepClients, StepTold, StepUndisturbed DEF AccountsInv
<1> QED
  BY <1>1, <1>2, PTL DEF AccountsSpec

\* Where get_db commits before the reply, no client is told a token that was
\* not stored, whatever restarts, fails or runs at the same time.
THEOREM ToldTokensStored == AccountsSpec => []ToldWasStored
<1>1. AccountsInv => ToldWasStored
  BY DEF AccountsInv
<1> QED
  BY <1>1, AccountsInvariance, PTL

\* The token in the hands of an agent whose calls were answered opens its
\* dashboard for as long as it was told, with get_db late or not, unless a copy
\* of a request of its was let through in another spelling, or a request that
\* was too early for the time to live.
THEOREM TokensWork == AccountsSpec => []TokenWorks
<1>1. AccountsInv => TokenWorks
  <2> SUFFICES ASSUME AccountsInv, NEW a \in Agents, intact,
                      NEW t \in client[a].asked, now <= t + Life,
                      client[a].waiting = Idle, client[a].hand # NoToken,
                      \A c \in Calls : At(c, {"told"}) => call[c].agent # a,
                      NoOtherCopy(a)
               PROVE  Accepts(a, client[a].hand)
    BY DEF TokenWorks
  <2>1. HandInv(a)
    BY DEF AccountsInv, UndisturbedInv, Undisturbed, AgentInv
  <2>2. a \in DOMAIN account /\ account[a].token = client[a].hand /\ t <= account[a].issued
    BY <2>1 DEF HandInv, CallOf
  <2>3. now \in Nat /\ t \in Nat /\ account[a].issued \in Nat
    BY <2>2 DEF AccountsInv, IndInv, TypeOK, AccountsTypeOK, Clients, Accounts
  <2> QED
    BY <2>2, <2>3, LifeAssumption DEF Accepts
<1> QED
  BY <1>1, AccountsInvariance, PTL
=============================================================================
