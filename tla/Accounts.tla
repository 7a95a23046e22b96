------------------------------ MODULE Accounts ------------------------------
(***************************************************************************)
(* Agents and their dashboard tokens: registration (backend/identity/      *)
(* router.py), minting (backend/dashboard/router.py) behind the signed     *)
(* requests of RequestAuth, and the check of a token (backend/interviews/  *)
(* auth.py).  An agent has one token at a time, of which the table keeps   *)
(* a hash; each call that succeeds draws a new one.                        *)
(*                                                                         *)
(* A call reads the agent's row, draws a token, writes the row (UPDATE or  *)
(* INSERT, which waits for others that have written it) and commits.       *)
(* Minting commits and then replies.  Registration leaves the commit to    *)
(* get_db, which FastAPI runs before the reply up to version 0.117 and     *)
(* after it from 0.118 on; requirements.txt allows both (late).            *)
(*                                                                         *)
(* A client makes one call at a time.  It may give a call up, which goes   *)
(* on without it, and what it has signed may arrive more than once.        *)
(***************************************************************************)
EXTENDS RequestAuth

CONSTANTS
  Usual,        \* the spelling that clients use
  Calls,        \* calls for tokens the backend can be at work on at once
  Life,         \* how long a token is good, 86400 seconds
  MaxTokens     \* bound on the tokens that are drawn

ASSUME LifeAssumption == Life \in Nat
ASSUME UsualAssumption == Usual \in Spellings
ASSUME CallsAssumption == Calls \cap (Requests \cup {Idle}) = {}
ASSUME MaxTokensAssumption == MaxTokens \in Nat

VARIABLES
  late,      \* is get_db's commit run after the reply?
  account,   \* the rows of agents: the token and its time of issue
  call,
  drawn,     \* number of tokens drawn
  stored,    \* history: tokens that have been committed
  client     \* per agent: what it waits for, the token in its
             \* hands.  asked: when its last call was sent, as a set that is
             \* empty once a call was not answered with a token

tableVars == <<account, stored>>
accountVars == <<late, tableVars, call, drawn, client>>

NoToken == 0
NoCall == [stage |-> "none"]

Tokens == 1..MaxTokens
Accounts == [token: Tokens \cup {NoToken}, issued: Nat]

\* of: the signed request it answers, or the call itself for a registration.
PendingCalls ==
  [agent: Agents, token: Tokens, issued: Nat, found: BOOLEAN,
   of: Calls \cup Requests, stage: {"drawn", "written", "committed", "told"}]

Clients ==
  [waiting: Calls \cup Requests \cup {Idle}, asked: SUBSET Nat,
   hand: Tokens \cup {NoToken}, sent: SUBSET Timestamps]

AccountsTypeOK ==
  /\ late \in BOOLEAN
  /\ account \in [registered -> Accounts]
  /\ call \in [Calls -> PendingCalls \cup {NoCall}]
  /\ drawn \in 0..MaxTokens
  /\ stored \subseteq Tokens
  /\ client \in [Agents -> Clients]

-----------------------------------------------------------------------------
Signed(a, ts) == [agent |-> a, ts |-> ts, genuine |-> TRUE, spelling |-> Usual]
ForMint(c) == call[c].of \in Requests
At(c, stages) == call[c].stage \in stages

\* Fault: the date of the first issue is kept.
RowOfSameDate(c) ==
  [token |-> call[c].token,
   issued |-> IF call[c].found THEN account[call[c].agent].issued ELSE call[c].issued]

Row(c) == [token |-> call[c].token, issued |-> call[c].issued]

\* validate_dashboard_token
Accepts(a, t) ==
  /\ a \in DOMAIN account
  /\ account[a].token # NoToken
  /\ now <= account[a].issued + Life
  /\ t = account[a].token

\* Agents that registered before there were tokens have none.
AccountsInit ==
  /\ Init
  /\ late \in BOOLEAN
  /\ account = [a \in registered |-> [token |-> NoToken, issued |-> 0]]
  /\ call = [c \in Calls |-> NoCall]
  /\ drawn = 0
  /\ stored = {}
  /\ client = [a \in Agents |-> [waiting |-> Idle, asked |-> {0}, hand |-> NoToken,
                                 sent |-> {}]]

(* Calls. *)

\* A registration looks for the agent's row; a mint that was let through has
\* found it.
Draw(c, a, of) ==
  /\ call[c] = NoCall
  /\ drawn < MaxTokens
  /\ drawn' = drawn + 1
  /\ call' = [call EXCEPT ![c] =
       [agent |-> a, token |-> drawn', issued |-> now,
        found |-> a \in DOMAIN account, of |-> of, stage |-> "drawn"]]
  /\ UNCHANGED <<late, tableVars>>

\* POST /v1/register.  Names for display, which are stored along, are left out.
RegisterAgent(c, a) ==
  /\ client[a].waiting = Idle
  /\ Draw(c, a, c)
  /\ client' = [client EXCEPT ![a].waiting = c, ![a].asked = {now : t \in @}]
  /\ UNCHANGED vars

\* POST /v1/dashboard-token is signed and sent, once per timestamp.
SignMint(a, ts) ==
  /\ client[a].waiting = Idle
  /\ ts \notin client[a].sent
  /\ client' = [client EXCEPT ![a].waiting = Signed(a, ts), ![a].asked = {now : t \in @},
                              ![a].sent = @ \cup {ts}]
  /\ UNCHANGED <<vars, late, tableVars, call, drawn>>

Sent(r) == r.genuine /\ r.ts \in client[r.agent].sent

\* It arrives, or a copy of it, which may be spelled otherwise.  Requests that
\* the agent has not signed, which RequestAuth has too, are left out.
Arrive(h, r) ==
  /\ Sent(r)
  /\ ReceiveForDashboard(h, r)
  /\ UNCHANGED accountVars

\* The request is let through and the token is drawn.
GetDashboardToken(h, c) ==
  /\ Pass(h)
  /\ Draw(c, handler[h].agent, handler[h])
  /\ UNCHANGED client

\* UPDATE, or INSERT if no row was found.  Either waits while another call has
\* written the row and not committed.
Write(c) ==
  /\ At(c, {"drawn"})
  /\ call[c].found \/ call[c].agent \notin DOMAIN account
  /\ ~\E d \in Calls \ {c} : At(d, {"written", "told"}) /\ call[d].agent = call[c].agent
  /\ call' = [call EXCEPT ![c].stage = "written"]
  /\ UNCHANGED <<vars, late, tableVars, drawn, client>>

\* Fault: the INSERT does nothing on conflict and the call goes on.
IgnoreConflict(c) ==
  /\ At(c, {"drawn"})
  /\ ~call[c].found /\ call[c].agent \in DOMAIN account
  /\ call' = [call EXCEPT ![c].stage = "committed"]
  /\ UNCHANGED <<vars, late, tableVars, drawn, client>>

\* Another registration of the agent was committed first.
Conflict(c) ==
  /\ At(c, {"drawn"})
  /\ ~call[c].found /\ call[c].agent \in DOMAIN account
  /\ call' = [call EXCEPT ![c] = NoCall]
  /\ UNCHANGED <<vars, late, tableVars, drawn, client>>

\* The database raises, and the transaction is rolled back.
Raise(c) ==
  /\ At(c, {"drawn", "written"})
  /\ call' = [call EXCEPT ![c] = NoCall]
  /\ UNCHANGED <<vars, late, tableVars, drawn, client>>

Commit(c) ==
  /\ \/ /\ At(c, {"written"})
        /\ ForMint(c) \/ ~late
        /\ call' = [call EXCEPT ![c].stage = "committed"]
     \/ /\ At(c, {"told"})
        /\ call' = [call EXCEPT ![c] = NoCall]
  /\ LET a == call[c].agent
     IN /\ account' = [b \in DOMAIN account \cup {a} |-> IF b = a THEN Row(c) ELSE account[b]]
        /\ \/ Register(a)
           \/ a \in registered /\ UNCHANGED vars
  /\ stored' = stored \cup {call[c].token}
  /\ UNCHANGED <<late, drawn, client>>

\* The reply, which reaches the client if it still waits for it.
Tell(c) ==
  /\ \/ /\ At(c, {"committed"})
        /\ call' = [call EXCEPT ![c] = NoCall]
     \/ /\ At(c, {"written"})
        /\ ~ForMint(c) /\ late
        /\ call' = [call EXCEPT ![c].stage = "told"]
  /\ LET a == call[c].agent
     IN client' = IF client[a].waiting = call[c].of
                    THEN [client EXCEPT ![a].waiting = Idle, ![a].hand = call[c].token]
                    ELSE client
  /\ UNCHANGED <<vars, late, tableVars, drawn>>

\* The commit after the reply fails.
CommitFails(c) ==
  /\ At(c, {"told"})
  /\ call' = [call EXCEPT ![c] = NoCall]
  /\ client' = [client EXCEPT ![call[c].agent].asked = {}]
  /\ UNCHANGED <<vars, late, tableVars, drawn>>

(* Around them. *)

\* The client gets an error, or waits no longer.
GiveUp(a) ==
  /\ client[a].waiting # Idle
  /\ client' = [client EXCEPT ![a].waiting = Idle, ![a].asked = {}]
  /\ UNCHANGED <<vars, late, tableVars, call, drawn>>

\* Transactions under way are rolled back.
RestartBackend ==
  /\ BackendRestarts
  /\ call' = [c \in Calls |-> NoCall]
  /\ client' = [a \in Agents |->
       IF \E c \in Calls : At(c, {"told"}) /\ call[c].agent = a
         THEN [client[a] EXCEPT !.asked = {}] ELSE client[a]]
  /\ UNCHANGED <<late, tableVars, drawn>>

Around ==
  /\ \/ Tick \/ RedisStops \/ RedisStarts
     \/ \E h \in Handlers : Drop(h)
     \/ \E r \in Requests : Sent(r) /\ LoseReply(r)
  /\ UNCHANGED accountVars

AccountsNext ==
  \/ \E c \in Calls :
       \/ \E a \in Agents : RegisterAgent(c, a)
       \/ \E h \in Handlers : GetDashboardToken(h, c)
       \/ Write(c) \/ Conflict(c) \/ Raise(c)
       \/ Commit(c) \/ Tell(c) \/ CommitFails(c)
  \/ \E a \in Agents : GiveUp(a) \/ \E ts \in Timestamps : SignMint(a, ts)
  \/ \E h \in Handlers, r \in Requests : Arrive(h, r)
  \/ RestartBackend
  \/ Around

AccountsSpec == AccountsInit /\ [][AccountsNext]_<<vars, accountVars>>

-----------------------------------------------------------------------------
(* Safety. *)

\* Where the commit comes before the reply, a token in an agent's hands has
\* been the stored one, also when two first registrations were under way and
\* whatever restarted or failed.
ToldWasStored ==
  \A a \in Agents : ~late /\ client[a].hand # NoToken => client[a].hand \in stored

\* No signed request of the agent was let through in another spelling than its
\* own or with a nonce that could expire too early.
NoOtherCopy(a) ==
  \A r \in passed : r.agent = a => r.spelling = Usual /\ r \notin early

\* The token in an agent's hands opens its dashboard for as long as it was
\* told, counted from the call for it, if all its calls were answered, and no
\* nonce was lost: a call that is sent again as it was does not replace it, nor
\* does a commit that comes after its reply undo the one of a later call.
\* Until such a commit has come, the token need not work, and a copy in another
\* spelling does replace it.
TokenWorks ==
  \A a \in Agents :
    /\ intact /\ NoOtherCopy(a)
    /\ \E t \in client[a].asked : now <= t + Life
    /\ client[a].waiting = Idle
    /\ client[a].hand # NoToken
    /\ \A c \in Calls : At(c, {"told"}) => call[c].agent # a
    => Accepts(a, client[a].hand)

-----------------------------------------------------------------------------
(* Why. *)

CallOf(c, a) == call[c] # NoCall /\ call[c].agent = a

\* A call answers its own registration or a request that was let through, and
\* only a registration is told before it is committed, where get_db is late.
CallInv ==
  \A c \in Calls : call[c] # NoCall =>
    /\ call[c].issued <= now
    /\ \/ call[c].of = c
       \/ call[c].of \in passed /\ call[c].of.agent = call[c].agent
    /\ At(c, {"committed"}) => call[c].token \in stored
    /\ At(c, {"told"}) => late

\* The row of an agent has one writer.
LockInv ==
  \A c, d \in Calls :
    /\ At(c, {"written", "told"}) /\ At(d, {"written", "told"})
    /\ call[c].agent = call[d].agent
    => c = d

ClientInv ==
  /\ \A h \in Handlers : handler[h] # Idle => Sent(handler[h])
  /\ \A a \in Agents : \A t \in client[a].asked : t <= now

\* All that an undisturbed agent has signed was let through, but for what it
\* waits for.
SignedInv(a) ==
  \A ts \in client[a].sent : Signed(a, ts) \in passed \cup {client[a].waiting}

\* Its calls under way are the one it waits for and one that was told and
\* that the other cannot overtake; the table has what was committed last.
UnderWayInv(a) ==
  \A c \in Calls : CallOf(c, a) /\ ~At(c, {"told"}) =>
    /\ call[c].of = client[a].waiting
    /\ \A t \in client[a].asked : t <= call[c].issued
    /\ \A d \in Calls \ {c} : CallOf(d, a) => At(d, {"told"}) /\ At(c, {"drawn"})
    /\ At(c, {"committed"}) => a \in DOMAIN account /\ account[a] = Row(c)

ToldInv(a) ==
  \A c \in Calls : CallOf(c, a) /\ At(c, {"told"}) =>
    /\ call[c].token = client[a].hand
    /\ client[a].waiting = Idle => \A t \in client[a].asked : t <= call[c].issued

HandInv(a) ==
  /\ client[a].waiting = Idle
  /\ client[a].hand # NoToken
  /\ \A c \in Calls : CallOf(c, a) => ~At(c, {"told"})
  => /\ a \in DOMAIN account
     /\ account[a].token = client[a].hand
     /\ \A t \in client[a].asked : t <= account[a].issued

Undisturbed(a) == intact /\ NoOtherCopy(a) /\ client[a].asked # {}
AgentInv(a) == SignedInv(a) /\ UnderWayInv(a) /\ ToldInv(a) /\ HandInv(a)

UndisturbedInv == \A a \in Agents : Undisturbed(a) => AgentInv(a)

\* All of this is inductive.
AccountsInv ==
  /\ IndInv /\ AccountsTypeOK
  /\ CallInv /\ LockInv /\ ClientInv
  /\ ToldWasStored
  /\ UndisturbedInv
=============================================================================
