----------------------------- MODULE Interviews -----------------------------
(***************************************************************************)
(* The table `interviews` of the AgentCast backend and the handlers that   *)
(* write its `status` column (backend/interviews/router.py, the dashboard  *)
(* request of backend/portal/router.py and `agentcast-db clear-stuck`).    *)
(*                                                                         *)
(* Every handler runs in a database session of its own (get_db).  Under    *)
(* READ COMMITTED, with no SELECT ... FOR UPDATE anywhere, a handler is    *)
(* two steps: it reads rows and decides, and later commits an INSERT or an *)
(* UPDATE ... WHERE interview_id = ... that looks at nothing it had read.  *)
(* Handlers of other sessions run between the two.                         *)
(***************************************************************************)
EXTENDS Naturals, FiniteSets

CONSTANTS
  Agents,       \* registered agents
  Interviews,   \* the uuid4 identifiers an INSERT may draw
  Sessions,     \* database sessions that serve requests at the same time
  MaxRequests   \* bound on the number of INSERTs begun

ASSUME SessionsAssumption == IsFiniteSet(Sessions)
ASSUME MaxRequestsAssumption == MaxRequests \in Nat

VARIABLES
  row,          \* the committed rows, by identifier
  session,      \* what each session has read and is about to commit
  clock,        \* PostgreSQL's now(): one tick for every INSERT begun
  claimants     \* history: the sessions whose claim of a row committed

vars == <<row, session, clock, claimants>>

Live == {"QUEUED", "IN_PROGRESS"}
Done == {"COMPLETED", "FAILED"}

\* completed: completed_at IS NOT NULL
Row == [agent: Agents, status: Live \cup Done, created: Nat, completed: BOOLEAN]

Idle == [op |-> "idle"]

\* changed: the ORM object's status was really changed, so that the UPDATE
\* the session flushes names the column.
Transaction ==
  {Idle} \cup [op: {"insert"}, agent: Agents, created: Nat]
         \cup [op: {"claim"}, id: Interviews]
         \cup [op: {"close"}, ids: SUBSET Interviews, to: Done, changed: BOOLEAN]

TypeOK ==
  /\ DOMAIN row \subseteq Interviews
  /\ row \in [DOMAIN row -> Row]
  /\ session \in [Sessions -> Transaction]
  /\ clock \in Nat
  /\ claimants \in [Interviews -> SUBSET Sessions]

-----------------------------------------------------------------------------
(* What the handlers select. *)

Active(a) == {i \in DOMAIN row : row[i].agent = a /\ row[i].status \in Live}

Queued == {i \in DOMAIN row : row[i].status = "QUEUED"}

\* Faulty selections, for the mutants: newest first; failed ones again; and
\* the oldest active interview, which waits while that one is in progress.
NewestQueued == {i \in Queued : \A j \in Queued : row[i].created >= row[j].created}

QueuedOrFailed == {i \in DOMAIN row : row[i].status \in {"QUEUED", "FAILED"}}

OldestActiveIfQueued ==
  {i \in Queued : \A j \in DOMAIN row :
                    row[j].status \in Live => row[i].created <= row[j].created}

OldestQueued == {i \in Queued : \A j \in Queued : row[i].created <= row[j].created}

-----------------------------------------------------------------------------
Init ==
  /\ row = <<>>
  /\ session = [s \in Sessions |-> Idle]
  /\ clock = 0
  /\ claimants = [i \in Interviews |-> {}]

\* The statements that read: the session is now inside its handler.
Begin(s, tx) ==
  /\ session[s] = Idle
  /\ session' = [session EXCEPT ![s] = tx]
  /\ UNCHANGED <<row, claimants>>

(* INSERTs.  created_at is the server's now(), the start of the transaction, *)
(* not its commit.                                                           *)

\* Fault: the INSERT without the check for an active interview.
BeginInsertUnchecked(s, a) ==
  /\ clock < MaxRequests
  /\ Begin(s, [op |-> "insert", agent |-> a, created |-> clock])
  /\ clock' = clock + 1

BeginInsert(s, a) ==
  /\ Active(a) = {}
  /\ BeginInsertUnchecked(s, a)

\* POST /v1/interview/create, the administrator's.
CreateInterview(s, a) == BeginInsert(s, a)

\* POST /v1/interview/request, the agent's own.
RequestInterview(s, a) == BeginInsert(s, a)

\* POST /v1/dashboard/request-interview, the agent's owner's.
DashboardRequestInterview(s, a) == BeginInsert(s, a)

NewRow(tx) ==
  [agent |-> tx.agent, status |-> "QUEUED", created |-> tx.created, completed |-> FALSE]

CommitInsert(s) ==
  /\ session[s].op = "insert"
  /\ \E i \in Interviews \ DOMAIN row :
       row' = [j \in DOMAIN row \cup {i} |->
                 IF j = i THEN NewRow(session[s]) ELSE row[j]]
  /\ session' = [session EXCEPT ![s] = Idle]
  /\ UNCHANGED <<clock, claimants>>

(* GET /v1/interview/claim *)

ClaimInterview(s) ==
  \E i \in OldestQueued :
     Begin(s, [op |-> "claim", id |-> i]) /\ UNCHANGED clock

CommitClaim(s) ==
  /\ session[s].op = "claim"
  /\ LET i == session[s].id IN
       /\ row' = [row EXCEPT ![i].status = "IN_PROGRESS"]
       /\ claimants' = [claimants EXCEPT ![i] = @ \cup {s}]
  /\ session' = [session EXCEPT ![s] = Idle]
  /\ UNCHANGED clock

(* Handlers that end interviews. *)

BeginClose(s, ids, st, differs) ==
  /\ Begin(s, [op |-> "close", ids |-> ids, to |-> st, changed |-> differs])
  /\ UNCHANGED clock

\* POST /v1/interview/cancel_stale
CancelStale(s, a) ==
  /\ Active(a) # {}
  /\ BeginClose(s, Active(a), "FAILED", TRUE)

\* PATCH /v1/interview/{id}/status: any row, whatever its status is.
UpdateStatus(s, i, st) ==
  /\ i \in DOMAIN row
  /\ BeginClose(s, {i}, st, row[i].status # st)

\* DELETE /v1/interview/{id}/abandon, by the agent that owns the row.
AbandonInterview(s, i) ==
  /\ i \in DOMAIN row
  /\ row[i].status \in Live
  /\ BeginClose(s, {i}, "FAILED", TRUE)

Closed(r, tx) ==
  [r EXCEPT !.status = IF tx.changed THEN tx.to ELSE @, !.completed = TRUE]

\* Fault: the handlers that end interviews forget completed_at.
CommitCloseUndated(s) ==
  /\ session[s].op = "close"
  /\ row' = [i \in DOMAIN row |->
               IF i \in session[s].ids
               THEN [row[i] EXCEPT !.status = session[s].to] ELSE row[i]]
  /\ session' = [session EXCEPT ![s] = Idle]
  /\ UNCHANGED <<clock, claimants>>

CommitClose(s) ==
  /\ session[s].op = "close"
  /\ row' = [i \in DOMAIN row |->
               IF i \in session[s].ids THEN Closed(row[i], session[s]) ELSE row[i]]
  /\ session' = [session EXCEPT ![s] = Idle]
  /\ UNCHANGED <<clock, claimants>>

\* agentcast-db clear-stuck: one UPDATE statement of psql, with `cutoff`
\* standing for ten minutes ago.
ClearStuck(s, cutoff) ==
  /\ session[s] = Idle
  /\ row' = [i \in DOMAIN row |->
               IF \/ row[i].status = "IN_PROGRESS"
                  \/ row[i].status = "QUEUED" /\ row[i].created < cutoff
               THEN [row[i] EXCEPT !.status = "FAILED", !.completed = TRUE]
               ELSE row[i]]
  /\ UNCHANGED <<session, clock, claimants>>

\* Fault: a claim that fails puts the interview it had read back in the queue.
RollbackRequeues(s) ==
  /\ session[s] # Idle
  /\ session' = [session EXCEPT ![s] = Idle]
  /\ row' = IF session[s].op = "claim"
            THEN [row EXCEPT ![session[s].id].status = "QUEUED"] ELSE row
  /\ UNCHANGED <<clock, claimants>>

\* get_db rolls back when anything between the read and the commit raises.
Rollback(s) ==
  /\ session[s] # Idle
  /\ session' = [session EXCEPT ![s] = Idle]
  /\ UNCHANGED <<row, clock, claimants>>

Commit(s) == CommitInsert(s) \/ CommitClaim(s) \/ CommitClose(s)

Next ==
  \E s \in Sessions :
    \/ \E a \in Agents : \/ CreateInterview(s, a)
                         \/ RequestInterview(s, a)
                         \/ DashboardRequestInterview(s, a)
                         \/ CancelStale(s, a)
    \/ \E i \in Interviews : \/ \E st \in Done : UpdateStatus(s, i, st)
                             \/ AbandonInterview(s, i)
    \/ \E cutoff \in 0..clock : ClearStuck(s, cutoff)
    \/ ClaimInterview(s)
    \/ Commit(s)
    \/ Rollback(s)

Spec == Init /\ [][Next]_vars

\* The host polls /claim every five seconds for ever, the pool hands out
\* sessions in turn, and a transaction does not fail for ever.
Fairness ==
  /\ SF_vars(\E s \in Sessions : ClaimInterview(s))
  /\ SF_vars(\E s \in Sessions : CommitClaim(s))
  /\ \A s \in Sessions : WF_vars(Commit(s) \/ Rollback(s))

FairSpec == Spec /\ Fairness

-----------------------------------------------------------------------------
(* Safety. *)

\* A row that says COMPLETED or FAILED has its completed_at, the column the
\* feed and the portal sort by and print: no interleaving of the blind
\* UPDATEs leaves a finished interview without it.
FinishedIsDated ==
  \A i \in DOMAIN row : row[i].status \in Done => row[i].completed

\* The rows and the sessions that make up the active interviews of `a`, now
\* or once the pending transactions have committed.
PendingClaims == {session[s].id : s \in {t \in Sessions : session[t].op = "claim"}}

Contenders(a) ==
  {<<"row", i>> : i \in {j \in DOMAIN row :
                           row[j].agent = a /\ (j \in Active(a) \/ j \in PendingClaims)}}
  \cup
  {<<"session", s>> : s \in {t \in Sessions :
                               session[t].op = "insert" /\ session[t].agent = a}}

\* The check before the INSERT in create, request and the dashboard request is
\* not atomic, so an agent can get several active interviews: one for each
\* session that passed the check together, or that brings a closed row back to
\* life with a late claim, and never more than there are sessions.
ActiveBound == \A a \in Agents : Cardinality(Active(a)) <= Cardinality(Sessions)

\* Why: an agent with no active interview has at most one contender for each
\* session, and with an active one no new contender appears.
ContendersBound ==
  \A a \in Agents : /\ IsFiniteSet(Contenders(a))
                    /\ Cardinality(Contenders(a)) <= Cardinality(Sessions)

\* A row is QUEUED once, so a client that claims one interview at a time is
\* never handed the same interview twice, whatever the others do: when
\* its claim is about to commit, it has not claimed that row before.
NeverHandedTwice ==
  \A s \in Sessions :
     session[s].op = "claim" => s \notin claimants[session[s].id]

\* What each session knows when it commits.
ReadsInv ==
  \A s \in Sessions :
    /\ session[s].op = "claim" => session[s].id \in DOMAIN row
    /\ session[s].op = "close" => session[s].ids \subseteq DOMAIN row

\* Rows that are still QUEUED, and identifiers not drawn, were never claimed.
UnclaimedInv ==
  \A i \in Interviews :
     (i \in DOMAIN row => row[i].status = "QUEUED") => claimants[i] = {}

\* All of it together is inductive.
IndInv ==
  /\ TypeOK
  /\ FinishedIsDated
  /\ ContendersBound
  /\ NeverHandedTwice
  /\ ReadsInv
  /\ UnclaimedInv

-----------------------------------------------------------------------------
(* What a step may never do. *)

\* Interviews never go back to the queue and rows keep their agent and their
\* age: the host, which takes the oldest QUEUED row, meets each row once.
QueuedOnce ==
  [][\A i \in DOMAIN row :
       /\ i \in DOMAIN row'
       /\ row'[i].agent = row[i].agent /\ row'[i].created = row[i].created
       /\ row'[i].status = "QUEUED" => row[i].status = "QUEUED"]_vars

-----------------------------------------------------------------------------
(* Liveness. *)

\* Interviews do not wait in the queue for ever while the host polls: oldest
\* first, each is claimed or closed.
QueueDrains ==
  \A i \in Interviews : (i \in Queued) ~> (i \notin Queued)

-----------------------------------------------------------------------------
(* With one session the two halves of a handler are never separated, and the *)
(* table does what AtomicInterviews promises.                                *)

RowView == [i \in DOMAIN row |-> [agent |-> row[i].agent, status |-> row[i].status]]

AgeOrder ==
  {p \in (DOMAIN row) \X (DOMAIN row) : row[p[1]].created < row[p[2]].created}

Atomic == INSTANCE AtomicInterviews WITH interview <- RowView, older <- AgeOrder

ImplementsAtomic == Atomic!Spec

\* Why: what a handler has read is still true when it commits, and rows are
\* created later than those that are there.
StillTrue(tx) ==
  /\ tx.op = "insert" =>
       /\ Active(tx.agent) = {}
       /\ \A i \in DOMAIN row : row[i].created < tx.created
       /\ tx.created < clock
  /\ tx.op = "claim" => tx.id \in OldestQueued
  /\ tx.op = "close" =>
       \/ tx.changed /\ tx.to = "FAILED" /\ \E a \in Agents : tx.ids = Active(a)
       \/ \E i \in DOMAIN row : tx.ids = {i} /\ (tx.changed \/ row[i].status = tx.to)

SerialInv ==
  /\ \A i \in DOMAIN row : row[i].created < clock
  /\ \A s \in Sessions : StillTrue(session[s])

-----------------------------------------------------------------------------
(* What the repository says and concurrent sessions break. *)

\* "Idempotent: returns existing interview if agent already has one QUEUED or
\* IN_PROGRESS" (the docstring of request_interview, skill.md, the guide).
OneActivePerAgent == \A a \in Agents : Cardinality(Active(a)) <= 1
=============================================================================
