-------------------------- MODULE InterviewsProofs --------------------------
(***************************************************************************)
(* Proofs about Interviews, for every set of agents, identifiers and       *)
(* sessions: the inductive invariant IndInv and what follows from it.      *)
(***************************************************************************)
EXTENDS Interviews, FiniteSetTheorems, TLAPS

-----------------------------------------------------------------------------
\* A step of session s, by what it does: the case split of every proof below.
Step(s) ==
  \/ \E a \in Agents : BeginInsert(s, a)
  \/ ClaimInterview(s)
  \/ \E ids \in SUBSET DOMAIN row, st \in Done, d \in BOOLEAN : BeginClose(s, ids, st, d)
  \/ CommitInsert(s)
  \/ CommitClaim(s)
  \/ CommitClose(s)
  \/ \E n \in 0..clock : ClearStuck(s, n)
  \/ Rollback(s)

\* Every handler of the backend takes one of those steps.
LEMMA NextIsStep == Next => \E s \in Sessions : Step(s)
<1> SUFFICES ASSUME Next PROVE \E s \in Sessions : Step(s)
  OBVIOUS
<1>1. PICK s \in Sessions :
         \/ \E a \in Agents : BeginInsert(s, a) \/ CancelStale(s, a)
         \/ \E i \in Interviews : \/ \E st \in Done : UpdateStatus(s, i, st)
                                  \/ AbandonInterview(s, i)
         \/ \E cutoff \in 0..clock : ClearStuck(s, cutoff)
         \/ ClaimInterview(s)
         \/ Commit(s)
         \/ Rollback(s)
  BY Zenon DEF Next, CreateInterview, RequestInterview, DashboardRequestInterview
<1>2. ASSUME NEW a \in Agents, CancelStale(s, a) PROVE Step(s)
  <2>1. Active(a) \in SUBSET DOMAIN row /\ "FAILED" \in Done /\ TRUE \in BOOLEAN
    BY DEF Active, Done
  <2>2. BeginClose(s, Active(a), "FAILED", TRUE)
    BY <1>2 DEF CancelStale
  <2> QED
    BY <2>1, <2>2, Zenon DEF Step
<1>3. ASSUME NEW i \in Interviews, NEW st \in Done, UpdateStatus(s, i, st) PROVE Step(s)
  <2>1. {i} \in SUBSET DOMAIN row /\ (row[i].status # st) \in BOOLEAN
    BY <1>3 DEF UpdateStatus
  <2>2. BeginClose(s, {i}, st, row[i].status # st)
    BY <1>3 DEF UpdateStatus
  <2> QED
    BY <2>1, <2>2, Zenon DEF Step
<1>4. ASSUME NEW i \in Interviews, AbandonInterview(s, i) PROVE Step(s)
  <2>1. {i} \in SUBSET DOMAIN row /\ "FAILED" \in Done /\ TRUE \in BOOLEAN
    BY <1>4 DEF AbandonInterview, Done
  <2>2. BeginClose(s, {i}, "FAILED", TRUE)
    BY <1>4 DEF AbandonInterview
  <2> QED
    BY <2>1, <2>2, Zenon DEF Step
<1> QED
  BY <1>1, <1>2, <1>3, <1>4, Zenon DEF Commit, Step

-----------------------------------------------------------------------------
\* Init establishes the type invariant and what the sessions know.
LEMMA InitReads == Init => TypeOK /\ FinishedIsDated /\ NeverHandedTwice /\ ReadsInv /\ UnclaimedInv
BY DEF Init, TypeOK, FinishedIsDated, NeverHandedTwice, ReadsInv, UnclaimedInv, Idle, Transaction

\* Rows keep their type and sessions hold transactions.
LEMMA StepType ==
  ASSUME TypeOK, ReadsInv, NEW s \in Sessions, Step(s)
  PROVE  TypeOK'
<1>1. CASE \E a \in Agents : BeginInsert(s, a)
  BY <1>1 DEF TypeOK, BeginInsert, BeginInsertUnchecked, Begin, Transaction
<1>2. CASE ClaimInterview(s)
  BY <1>2 DEF TypeOK, ClaimInterview, OldestQueued, Queued, Begin, Transaction
<1>3. CASE \E ids \in SUBSET DOMAIN row, st \in Done, d \in BOOLEAN : BeginClose(s, ids, st, d)
  BY <1>3 DEF TypeOK, BeginClose, Begin, Transaction
<1>4. CASE CommitInsert(s)
  BY <1>4 DEF TypeOK, CommitInsert, NewRow, Row, Live, Transaction, Idle
<1>5. CASE CommitClaim(s)
  BY <1>5 DEF TypeOK, ReadsInv, CommitClaim, Row, Live, Transaction, Idle
<1>6. CASE CommitClose(s)
  <2>1. session[s] \in [op: {"close"}, ids: SUBSET Interviews, to: Done, changed: BOOLEAN]
    BY <1>6 DEF TypeOK, CommitClose, Transaction, Idle
  <2>2. \A r \in Row : Closed(r, session[s]) \in Row
    BY <2>1 DEF Closed, Row
  <2>3. DOMAIN row' = DOMAIN row /\ \A i \in DOMAIN row : row'[i] \in Row
    BY <1>6, <2>2 DEF TypeOK, CommitClose
  <2>4. row' \in [DOMAIN row' -> Row]
    BY <1>6, <2>3 DEF CommitClose
  <2> QED
    BY <1>6, <2>3, <2>4 DEF TypeOK, CommitClose, Transaction
<1>7. CASE \E n \in 0..clock : ClearStuck(s, n)
  <2>1. \A r \in Row : [r EXCEPT !.status = "FAILED", !.completed = TRUE] \in Row
    BY DEF Row, Done
  <2>2. DOMAIN row' = DOMAIN row /\ \A i \in DOMAIN row : row'[i] \in Row
    BY <1>7, <2>1 DEF TypeOK, ClearStuck
  <2>3. row' \in [DOMAIN row' -> Row]
    BY <1>7, <2>2 DEF ClearStuck
  <2> QED
    BY <1>7, <2>2, <2>3 DEF TypeOK, ClearStuck
<1>8. CASE Rollback(s)
  BY <1>8 DEF TypeOK, Rollback, Transaction
<1> QED
  BY <1>1, <1>2, <1>3, <1>4, <1>5, <1>6, <1>7, <1>8 DEF Step

\* No UPDATE leaves a finished interview without its date.
LEMMA StepDated ==
  ASSUME TypeOK, FinishedIsDated, NEW s \in Sessions, Step(s)
  PROVE  FinishedIsDated'
<1>1. CASE \E a \in Agents : BeginInsert(s, a)
  BY <1>1 DEF FinishedIsDated, BeginInsert, BeginInsertUnchecked, Begin
<1>2. CASE ClaimInterview(s)
  BY <1>2 DEF FinishedIsDated, ClaimInterview, Begin
<1>3. CASE \E ids \in SUBSET DOMAIN row, st \in Done, d \in BOOLEAN : BeginClose(s, ids, st, d)
  BY <1>3 DEF FinishedIsDated, BeginClose, Begin
<1>4. CASE CommitInsert(s)
  BY <1>4 DEF FinishedIsDated, CommitInsert, NewRow, Done
<1>5. CASE CommitClaim(s)
  BY <1>5 DEF TypeOK, Row, FinishedIsDated, CommitClaim, Done
<1>6. CASE CommitClose(s)
  BY <1>6 DEF TypeOK, Row, FinishedIsDated, CommitClose, Closed
<1>7. CASE \E n \in 0..clock : ClearStuck(s, n)
  BY <1>7 DEF TypeOK, Row, FinishedIsDated, ClearStuck
<1>8. CASE Rollback(s)
  BY <1>8 DEF FinishedIsDated, Rollback
<1> QED
  BY <1>1, <1>2, <1>3, <1>4, <1>5, <1>6, <1>7, <1>8 DEF Step

\* Rows are never deleted, so what a session read is still there.
LEMMA StepReads ==
  ASSUME TypeOK, ReadsInv, NEW s \in Sessions, Step(s)
  PROVE  ReadsInv'
<1>1. CASE \E a \in Agents : BeginInsert(s, a)
  BY <1>1 DEF TypeOK, ReadsInv, BeginInsert, BeginInsertUnchecked, Begin
<1>2. CASE ClaimInterview(s)
  BY <1>2 DEF TypeOK, ReadsInv, ClaimInterview, OldestQueued, Queued, Begin
<1>3. CASE \E ids \in SUBSET DOMAIN row, st \in Done, d \in BOOLEAN : BeginClose(s, ids, st, d)
  BY <1>3 DEF TypeOK, ReadsInv, BeginClose, Begin
<1>4. CASE CommitInsert(s)
  BY <1>4 DEF TypeOK, ReadsInv, CommitInsert, Idle
<1>5. CASE CommitClaim(s)
  BY <1>5 DEF TypeOK, ReadsInv, CommitClaim, Idle
<1>6. CASE CommitClose(s)
  BY <1>6 DEF TypeOK, ReadsInv, CommitClose, Idle
<1>7. CASE \E n \in 0..clock : ClearStuck(s, n)
  BY <1>7 DEF TypeOK, ReadsInv, ClearStuck
<1>8. CASE Rollback(s)
  BY <1>8 DEF TypeOK, ReadsInv, Rollback, Idle
<1> QED
  BY <1>1, <1>2, <1>3, <1>4, <1>5, <1>6, <1>7, <1>8 DEF Step

\* The UPDATEs that end interviews keep the rows, and leave no row in Live that
\* was not there, with the status it has.
LEMMA CloseStatus ==
  ASSUME TypeOK, NEW s \in Sessions,
         CommitClose(s) \/ \E n \in 0..clock : ClearStuck(s, n)
  PROVE  /\ DOMAIN row' = DOMAIN row
         /\ \A i \in DOMAIN row :
              /\ row'[i].agent = row[i].agent /\ row'[i].created = row[i].created
              /\ row'[i].status \in Live => row'[i].status = row[i].status
<1>1. CASE CommitClose(s)
  <2>1. session[s].to \in Done
    BY <1>1 DEF TypeOK, CommitClose, Transaction, Idle
  <2> QED
    BY <1>1, <2>1 DEF TypeOK, Row, Live, Done, CommitClose, Closed
<1>2. ASSUME NEW n \in 0..clock, ClearStuck(s, n)
      PROVE  /\ DOMAIN row' = DOMAIN row
             /\ \A i \in DOMAIN row :
                  /\ row'[i].agent = row[i].agent /\ row'[i].created = row[i].created
                  /\ row'[i].status \in Live => row'[i].status = row[i].status
  <2>1. \A r \in Row : LET q == [r EXCEPT !.status = "FAILED", !.completed = TRUE]
                       IN  q.agent = r.agent /\ q.created = r.created /\ q.status = "FAILED"
    BY DEF Row
  <2> QED
    BY <1>2, <2>1 DEF TypeOK, Live, ClearStuck
<1> QED
  BY <1>1, <1>2

\* A row that is QUEUED was QUEUED before, or is new: it was never claimed.
LEMMA StepUnclaimed ==
  ASSUME TypeOK, ReadsInv, UnclaimedInv, NEW s \in Sessions, Step(s)
  PROVE  UnclaimedInv'
<1>1. CASE \E a \in Agents : BeginInsert(s, a)
  BY <1>1 DEF UnclaimedInv, BeginInsert, BeginInsertUnchecked, Begin
<1>2. CASE ClaimInterview(s)
  BY <1>2 DEF UnclaimedInv, ClaimInterview, Begin
<1>3. CASE \E ids \in SUBSET DOMAIN row, st \in Done, d \in BOOLEAN : BeginClose(s, ids, st, d)
  BY <1>3 DEF UnclaimedInv, BeginClose, Begin
<1>4. CASE CommitInsert(s)
  BY <1>4 DEF UnclaimedInv, CommitInsert
<1>5. CASE CommitClaim(s)
  BY <1>5 DEF TypeOK, Row, ReadsInv, UnclaimedInv, CommitClaim
<1>6. CASE CommitClose(s)
  BY <1>6, CloseStatus DEF UnclaimedInv, CommitClose, Live
<1>7. CASE \E n \in 0..clock : ClearStuck(s, n)
  BY <1>7, CloseStatus DEF UnclaimedInv, ClearStuck, Live
<1>8. CASE Rollback(s)
  BY <1>8 DEF UnclaimedInv, Rollback
<1> QED
  BY <1>1, <1>2, <1>3, <1>4, <1>5, <1>6, <1>7, <1>8 DEF Step

\* The claim that begins reads a QUEUED row, one that nobody has claimed.
LEMMA StepHanded ==
  ASSUME TypeOK, UnclaimedInv, NeverHandedTwice, NEW s \in Sessions, Step(s)
  PROVE  NeverHandedTwice'
<1>1. CASE \E a \in Agents : BeginInsert(s, a)
  BY <1>1 DEF TypeOK, NeverHandedTwice, BeginInsert, BeginInsertUnchecked, Begin
<1>2. CASE ClaimInterview(s)
  BY <1>2 DEF TypeOK, UnclaimedInv, NeverHandedTwice, ClaimInterview, OldestQueued, Queued, Begin
<1>3. CASE \E ids \in SUBSET DOMAIN row, st \in Done, d \in BOOLEAN : BeginClose(s, ids, st, d)
  BY <1>3 DEF TypeOK, NeverHandedTwice, BeginClose, Begin
<1>4. CASE CommitInsert(s)
  BY <1>4 DEF TypeOK, NeverHandedTwice, CommitInsert, Idle
<1>5. CASE CommitClaim(s)
  <2>1. session[s].id \in Interviews
    BY <1>5 DEF TypeOK, CommitClaim, Transaction, Idle
  <2>2. ASSUME NEW t \in Sessions, session'[t].op = "claim"
        PROVE  t \notin claimants'[session'[t].id]
    <3>1. t # s /\ session'[t] = session[t]
      BY <1>5, <2>2 DEF TypeOK, CommitClaim, Idle
    <3>2. t \notin claimants[session[t].id]
      BY <2>2, <3>1 DEF NeverHandedTwice
    <3> QED
      BY <1>5, <2>1, <3>1, <3>2 DEF TypeOK, CommitClaim
  <2> QED
    BY <2>2 DEF NeverHandedTwice
<1>6. CASE CommitClose(s)
  BY <1>6 DEF TypeOK, NeverHandedTwice, CommitClose, Idle
<1>7. CASE \E n \in 0..clock : ClearStuck(s, n)
  BY <1>7 DEF NeverHandedTwice, ClearStuck
<1>8. CASE Rollback(s)
  BY <1>8 DEF TypeOK, NeverHandedTwice, Rollback, Idle
<1> QED
  BY <1>1, <1>2, <1>3, <1>4, <1>5, <1>6, <1>7, <1>8 DEF Step
-----------------------------------------------------------------------------
(* The contenders for an agent's active interview. *)

\* A set whose elements can be told from the sessions they belong to is no
\* larger than the set of sessions.
LEMMA SessionsBound ==
  ASSUME NEW T, NEW f \in [Sessions -> T], NEW C,
         \A c \in C : \E s \in Sessions : f[s] = c
  PROVE  IsFiniteSet(C) /\ Cardinality(C) <= Cardinality(Sessions)
<1> DEFINE G == {f[s] : s \in Sessions}
<1>1. f \in Surjection(Sessions, G)
  BY DEF Surjection
<1>2. /\ IsFiniteSet(G) /\ Cardinality(G) <= Cardinality(Sessions)
  BY <1>1, SessionsAssumption, FS_Surjection
<1>3. C \in SUBSET G
  OBVIOUS
<1>4. IsFiniteSet(C) /\ Cardinality(C) <= Cardinality(G)
  BY <1>2, <1>3, FS_Subset
<1>5. Cardinality(C) \in Nat /\ Cardinality(G) \in Nat /\ Cardinality(Sessions) \in Nat
  BY <1>2, <1>4, SessionsAssumption, FS_CardinalityType
<1> QED
  BY <1>2, <1>4, <1>5

\* What it is to be a contender, row by row and session by session.
RowContends(a, i) ==
  /\ i \in DOMAIN row
  /\ row[i].agent = a
  /\ \/ row[i].status \in Live
     \/ \E t \in Sessions : session[t].op = "claim" /\ session[t].id = i

SessionContends(a, t) ==
  t \in Sessions /\ session[t].op = "insert" /\ session[t].agent = a

\* The contenders of an agent are those rows and those sessions, now and next.
LEMMA ContendersDef ==
  ASSUME NEW a
  PROVE  /\ \A c : c \in Contenders(a) <=>
               \/ \E i : c = <<"row", i>> /\ RowContends(a, i)
               \/ \E t : c = <<"session", t>> /\ SessionContends(a, t)
         /\ \A c : c \in Contenders(a)' <=>
               \/ \E i : c = <<"row", i>> /\ RowContends(a, i)'
               \/ \E t : c = <<"session", t>> /\ SessionContends(a, t)'
BY DEF Contenders, Active, PendingClaims, RowContends, SessionContends

\* The commit of an INSERT replaces a session by a row among the contenders of
\* its agent, and every other step but the beginning of one adds none.
LEMMA StepContends ==
  ASSUME TypeOK, ReadsInv, NEW s \in Sessions, Step(s), NEW a \in Agents
  PROVE  \/ /\ \A i : RowContends(a, i)' => RowContends(a, i)
            /\ \A t : SessionContends(a, t)' => SessionContends(a, t)
         \/ BeginInsert(s, a)
         \/ \E i \in Interviews :
              /\ SessionContends(a, s) /\ ~SessionContends(a, s)'
              /\ \A j : RowContends(a, j)' => RowContends(a, j) \/ j = i
              /\ \A t : SessionContends(a, t)' => SessionContends(a, t)
<1> USE DEF RowContends, SessionContends
<1>1. ASSUME NEW b \in Agents, BeginInsert(s, b), b # a
      PROVE  /\ \A i : RowContends(a, i)' => RowContends(a, i)
             /\ \A t : SessionContends(a, t)' => SessionContends(a, t)
  BY <1>1 DEF TypeOK, BeginInsert, BeginInsertUnchecked, Begin, Idle
<1>2. CASE ClaimInterview(s)
  BY <1>2 DEF TypeOK, ClaimInterview, OldestQueued, Queued, Live, Begin, Idle
<1>3. CASE \E ids \in SUBSET DOMAIN row, st \in Done, d \in BOOLEAN : BeginClose(s, ids, st, d)
  BY <1>3 DEF TypeOK, BeginClose, Begin, Idle
<1>4. CASE CommitInsert(s)
  <2>1. PICK i \in Interviews \ DOMAIN row :
          row' = [j \in DOMAIN row \cup {i} |-> IF j = i THEN NewRow(session[s]) ELSE row[j]]
    BY <1>4 DEF CommitInsert
  <2>2. session[s].op = "insert" /\ session' = [session EXCEPT ![s] = Idle]
    BY <1>4 DEF CommitInsert
  <2>3. \A t : SessionContends(a, t)' => SessionContends(a, t) /\ t # s
    BY <2>2 DEF TypeOK, Idle
  <2>4. \A j : j # i /\ RowContends(a, j)' => RowContends(a, j)
    BY <2>1, <2>2 DEF TypeOK, Idle
  <2>5. RowContends(a, i)' => SessionContends(a, s)
    BY <2>1, <2>2 DEF TypeOK, NewRow
  <2> QED
    BY <2>3, <2>4, <2>5
<1>5. CASE CommitClaim(s)
  BY <1>5 DEF TypeOK, Row, ReadsInv, CommitClaim, Idle
<1>6. CASE CommitClose(s)
  <2>1. session' = [session EXCEPT ![s] = Idle]
    BY <1>6 DEF CommitClose
  <2> QED
    BY <1>6, <2>1, CloseStatus DEF TypeOK, Idle
<1>7. CASE \E n \in 0..clock : ClearStuck(s, n)
  <2>1. UNCHANGED session
    BY <1>7 DEF ClearStuck
  <2> QED
    BY <1>7, <2>1, CloseStatus
<1>8. CASE Rollback(s)
  BY <1>8 DEF TypeOK, Rollback, Idle
<1> QED
  BY <1>1, <1>2, <1>3, <1>4, <1>5, <1>6, <1>7, <1>8 DEF Step

\* An agent that has no active interview has at most one contender for each
\* session: no session is both inserting and claiming, or claims two rows.
LEMMA NoActiveBound ==
  ASSUME NEW a, NEW s \in Sessions, TypeOK', Active(a) = {}, BeginInsert(s, a)
  PROVE  IsFiniteSet(Contenders(a)') /\ Cardinality(Contenders(a)') <= Cardinality(Sessions)
<1> DEFINE Unit(t) == IF session'[t].op = "claim" THEN <<"row", session'[t].id>>
                                                  ELSE <<"session", t>>
           T == {Unit(t) : t \in Sessions}
           f == [t \in Sessions |-> Unit(t)]
<1>1. f \in [Sessions -> T]
  OBVIOUS
<1>2. ASSUME NEW c \in Contenders(a)' PROVE \E t \in Sessions : f[t] = c
  <2>1. CASE \E i : c = <<"row", i>> /\ RowContends(a, i)'
    <3>1. PICK i : c = <<"row", i>> /\ RowContends(a, i)'
      BY <2>1
    <3>2. i \in DOMAIN row /\ row[i].agent = a /\ row' = row
      BY <3>1 DEF RowContends, BeginInsert, BeginInsertUnchecked, Begin
    <3>3. row'[i].status \notin Live
      BY <3>2 DEF Active
    <3>4. PICK t \in Sessions : session'[t].op = "claim" /\ session'[t].id = i
      BY <3>1, <3>3 DEF RowContends
    <3> QED
      BY <3>1, <3>4
  <2>2. CASE \E t : c = <<"session", t>> /\ SessionContends(a, t)'
    BY <2>2 DEF SessionContends
  <2> QED
    BY <1>2, <2>1, <2>2, ContendersDef
<1> HIDE DEF f, T
<1> QED
  BY <1>1, <1>2, SessionsBound

\* Hence the bound on contenders, the heart of the matter, is preserved.
LEMMA StepContenders ==
  ASSUME TypeOK, TypeOK', ReadsInv, ContendersBound, NEW s \in Sessions, Step(s)
  PROVE  ContendersBound'
<1> SUFFICES ASSUME NEW a \in Agents
             PROVE  /\ IsFiniteSet(Contenders(a)')
                    /\ Cardinality(Contenders(a)') <= Cardinality(Sessions)
  BY DEF ContendersBound
<1>1. /\ IsFiniteSet(Contenders(a)) /\ Cardinality(Contenders(a)) \in Nat
      /\ Cardinality(Contenders(a)) <= Cardinality(Sessions)
      /\ Cardinality(Sessions) \in Nat
  BY SessionsAssumption, FS_CardinalityType DEF ContendersBound
<1>2. CASE BeginInsert(s, a)
  BY <1>2, NoActiveBound DEF BeginInsert
<1>3. CASE /\ \A i : RowContends(a, i)' => RowContends(a, i)
           /\ \A t : SessionContends(a, t)' => SessionContends(a, t)
  <2>1. Contenders(a)' \in SUBSET Contenders(a)
    BY <1>3, ContendersDef
  <2>2. IsFiniteSet(Contenders(a)') /\ Cardinality(Contenders(a)') <= Cardinality(Contenders(a))
    BY <1>1, <2>1, FS_Subset
  <2> QED
    BY <1>1, <2>2, FS_CardinalityType
<1>4. ASSUME NEW i \in Interviews,
             SessionContends(a, s), ~SessionContends(a, s)',
             \A j : RowContends(a, j)' => RowContends(a, j) \/ j = i,
             \A t : SessionContends(a, t)' => SessionContends(a, t)
      PROVE  /\ IsFiniteSet(Contenders(a)')
             /\ Cardinality(Contenders(a)') <= Cardinality(Sessions)
  <2> DEFINE Rest == Contenders(a) \ {<<"session", s>>}
             Most == Rest \cup {<<"row", i>>}
  <2>1. <<"session", s>> \in Contenders(a)
    BY <1>4, ContendersDef
  <2>2. IsFiniteSet(Rest) /\ Cardinality(Rest) = Cardinality(Contenders(a)) - 1
    BY <1>1, <2>1, FS_RemoveElement
  <2>4. Contenders(a)' \in SUBSET Most
    BY <1>4, ContendersDef
  <2> HIDE DEF Rest
  <2>6. /\ IsFiniteSet(Most)
        /\ Cardinality(Most) = Cardinality(Rest) \/ Cardinality(Most) = Cardinality(Rest) + 1
    BY <2>2, FS_AddElement
  <2>3. IsFiniteSet(Most) /\ Cardinality(Most) <= Cardinality(Contenders(a))
    BY <1>1, <2>2, <2>6
  <2>5. IsFiniteSet(Contenders(a)') /\ Cardinality(Contenders(a)') <= Cardinality(Most)
    BY <2>3, <2>4, FS_Subset
  <2> QED
    BY <1>1, <2>3, <2>5, FS_CardinalityType
<1> QED
  BY <1>2, <1>3, <1>4, StepContends

-----------------------------------------------------------------------------
(* The inductive invariant. *)

\* It holds of the empty table with all sessions idle ...
LEMMA InitInv == Init => IndInv
<1> SUFFICES ASSUME Init PROVE IndInv
  OBVIOUS
<1>1. TypeOK /\ FinishedIsDated /\ NeverHandedTwice /\ ReadsInv /\ UnclaimedInv
  BY InitReads
<1>2. ASSUME NEW a \in Agents PROVE Contenders(a) = {}
  BY ContendersDef DEF Init, RowContends, SessionContends, Idle
<1>3. ContendersBound
  <2>1. Cardinality(Sessions) \in Nat
    BY SessionsAssumption, FS_CardinalityType
  <2>2. ASSUME NEW a \in Agents
        PROVE  IsFiniteSet(Contenders(a)) /\ Cardinality(Contenders(a)) = 0
    BY <1>2, FS_EmptySet
  <2> QED
    BY <2>1, <2>2 DEF ContendersBound
<1> QED
  BY <1>1, <1>3 DEF IndInv

\* ... every step of every session preserves it ...
LEMMA NextInv == IndInv /\ [Next]_vars => IndInv'
<1> SUFFICES ASSUME IndInv, [Next]_vars PROVE IndInv'
  OBVIOUS
<1>1. CASE Next
  <2>1. PICK s \in Sessions : Step(s)
    BY <1>1, NextIsStep
  <2>2. TypeOK'
    BY <2>1, StepType DEF IndInv
  <2> QED
    BY <2>1, <2>2, StepDated, StepReads, StepUnclaimed, StepHanded, StepContenders DEF IndInv
<1>2. CASE UNCHANGED vars
  <2>1. \A a : Contenders(a)' = Contenders(a)
    BY <1>2 DEF vars, Contenders, Active, PendingClaims
  <2>2. ContendersBound'
    BY <2>1 DEF IndInv, ContendersBound
  <2>3. TypeOK' /\ FinishedIsDated' /\ NeverHandedTwice' /\ ReadsInv' /\ UnclaimedInv'
    BY <1>2 DEF vars, IndInv, TypeOK, FinishedIsDated, NeverHandedTwice, ReadsInv, UnclaimedInv
  <2> QED
    BY <2>2, <2>3 DEF IndInv
<1> QED
  BY <1>1, <1>2

\* ... so it holds in every reachable state of the table and its sessions.
THEOREM Invariance == Spec => []IndInv
BY InitInv, NextInv, PTL DEF Spec

-----------------------------------------------------------------------------
(* What follows. *)

\* Rows, sessions and the history have their types in every reachable state.
THEOREM TypeCorrect == Spec => []TypeOK
<1>1. IndInv => TypeOK
  BY DEF IndInv
<1> QED
  BY <1>1, Invariance, PTL

\* Whatever the sessions interleave, a COMPLETED or FAILED row is dated.
THEOREM Dated == Spec => []FinishedIsDated
<1>1. IndInv => FinishedIsDated
  BY DEF IndInv
<1> QED
  BY <1>1, Invariance, PTL

\* No session ever commits the claim of a row it has claimed before: a host
\* that claims one interview at a time runs each interview once.
THEOREM HandedOnce == Spec => []NeverHandedTwice
<1>1. IndInv => NeverHandedTwice
  BY DEF IndInv
<1> QED
  BY <1>1, Invariance, PTL

\* Active interviews are contenders, so they are no more than the sessions.
LEMMA InvActiveBound == IndInv => ActiveBound
<1> SUFFICES ASSUME IndInv, NEW a \in Agents
             PROVE  Cardinality(Active(a)) <= Cardinality(Sessions)
  BY DEF ActiveBound
<1> DEFINE f == [i \in Active(a) |-> <<"row", i>>]
<1>1. f \in Injection(Active(a), Contenders(a))
  <2>1. f \in [Active(a) -> Contenders(a)]
    BY ContendersDef DEF Active, RowContends
  <2>2. \A i, j \in Active(a) : f[i] = f[j] => i = j
    OBVIOUS
  <2> QED
    BY <2>1, <2>2 DEF Injection, IsInjective
<1>2. IsFiniteSet(Contenders(a)) /\ Cardinality(Contenders(a)) <= Cardinality(Sessions)
  BY DEF IndInv, ContendersBound
<1> HIDE DEF f
<1>3. IsFiniteSet(Active(a)) /\ Cardinality(Active(a)) <= Cardinality(Contenders(a))
  BY <1>1, <1>2, FS_Injection
<1> QED
  BY <1>2, <1>3, SessionsAssumption, FS_CardinalityType

\* An agent never has more active interviews than there are sessions at work
\* at the same time, however requests, claims and cancellations race.
THEOREM ActiveBounded == Spec => []ActiveBound
BY InvActiveBound, Invariance, PTL

\* What the documentation says of requests is true of a backend that serves
\* one request at a time: an agent has at most one active interview.
THEOREM SerialOneActive ==
  ASSUME Cardinality(Sessions) = 1
  PROVE  Spec => []OneActivePerAgent
<1>1. IndInv => OneActivePerAgent
  BY InvActiveBound DEF ActiveBound, OneActivePerAgent
<1> QED
  BY <1>1, Invariance, PTL

\* No step puts an interview back in the queue, or changes its agent or age.
THEOREM NeverRequeued == Spec => QueuedOnce
<1> DEFINE Keeps == \A i \in DOMAIN row :
                      /\ i \in DOMAIN row'
                      /\ row'[i].agent = row[i].agent /\ row'[i].created = row[i].created
                      /\ row'[i].status = "QUEUED" => row[i].status = "QUEUED"
<1>1. ASSUME IndInv, Next PROVE Keeps
  <2>1. TypeOK
    BY <1>1 DEF IndInv
  <2>2. PICK s \in Sessions : Step(s)
    BY <1>1, NextIsStep
  <2>3. CASE CommitClose(s) \/ \E n \in 0..clock : ClearStuck(s, n)
    BY <2>1, <2>3, CloseStatus DEF Live
  <2>4. CASE CommitInsert(s)
    BY <2>4 DEF CommitInsert
  <2>5. CASE CommitClaim(s)
    BY <2>1, <2>5 DEF TypeOK, Row, CommitClaim
  <2>6. CASE UNCHANGED row
    BY <2>6
  <2> QED
    BY <2>2, <2>3, <2>4, <2>5, <2>6
    DEF Step, BeginInsert, BeginInsertUnchecked, ClaimInterview, BeginClose, Begin, Rollback
<1>2. IndInv /\ [Next]_vars => [Keeps]_vars
  BY <1>1
<1> QED
  BY <1>2, Invariance, PTL DEF Spec, QueuedOnce

-----------------------------------------------------------------------------
(* One session: the table is that of AtomicInterviews. *)

\* A handler that begins, or is done, leaves the only session knowing what is
\* true.
LEMMA SerialCase ==
  ASSUME TypeOK, NEW s \in Sessions, \A t \in Sessions : t = s,
         NEW tx, session' = [session EXCEPT ![s] = tx],
         StillTrue(tx)', \A i \in DOMAIN row' : row'[i].created < clock'
  PROVE  SerialInv'
<1>1. \A t \in Sessions : session'[t] = tx
  BY DEF TypeOK
<1> QED
  BY <1>1 DEF SerialInv

\* When a handler begins, what it has read is true.
LEMMA SerialBegins ==
  ASSUME TypeOK, SerialInv, NEW s \in Sessions, \A t \in Sessions : t = s,
         \/ \E a \in Agents : BeginInsert(s, a) \/ CancelStale(s, a)
         \/ \E i \in Interviews : \/ \E st \in Done : UpdateStatus(s, i, st)
                                  \/ AbandonInterview(s, i)
         \/ ClaimInterview(s)
  PROVE  SerialInv'
<1>1. \A i \in DOMAIN row : row[i].created < clock
  BY DEF SerialInv
<1>2. row' = row => \A a : Active(a)' = Active(a) /\ OldestQueued' = OldestQueued
  BY DEF Active, OldestQueued, Queued
<1>3. ASSUME NEW a \in Agents, BeginInsert(s, a) PROVE SerialInv'
  <2>1. PICK tx : tx = [op |-> "insert", agent |-> a, created |-> clock]
    OBVIOUS
  <2>2. /\ session' = [session EXCEPT ![s] = tx] /\ row' = row
        /\ clock' = clock + 1 /\ Active(a) = {}
    BY <1>3, <2>1 DEF BeginInsert, BeginInsertUnchecked, Begin
  <2>3. clock \in Nat /\ \A i \in DOMAIN row : row[i] \in Row /\ row[i].created \in Nat
    BY DEF TypeOK, Row
  <2>4. \A i \in DOMAIN row' : row'[i].created < clock'
    BY <1>1, <2>2, <2>3
  <2>5. StillTrue(tx)'
    BY <1>1, <1>2, <2>1, <2>2, <2>3 DEF StillTrue
  <2> QED
    BY <2>2, <2>4, <2>5, SerialCase
<1>4. ASSUME NEW tx, StillTrue(tx), tx.op # "insert", Begin(s, tx), UNCHANGED clock
      PROVE  SerialInv'
  <2>1. session' = [session EXCEPT ![s] = tx] /\ row' = row
    BY <1>4 DEF Begin
  <2>2. StillTrue(tx)'
    BY <1>2, <1>4, <2>1 DEF StillTrue
  <2>3. \A i \in DOMAIN row' : row'[i].created < clock'
    BY <1>1, <1>4, <2>1
  <2> QED
    BY <2>1, <2>2, <2>3, SerialCase
<1>5. ASSUME NEW a \in Agents, CancelStale(s, a) PROVE SerialInv'
  <2>1. PICK tx : tx = [op |-> "close", ids |-> Active(a), to |-> "FAILED", changed |-> TRUE]
    OBVIOUS
  <2>2. StillTrue(tx) /\ tx.op # "insert"
    BY <2>1 DEF StillTrue
  <2>3. Begin(s, tx) /\ UNCHANGED clock
    BY <1>5, <2>1 DEF CancelStale, BeginClose
  <2> QED
    BY <1>4, <2>2, <2>3
<1>6. ASSUME NEW i \in DOMAIN row, NEW st, NEW differs, differs \/ row[i].status = st,
             BeginClose(s, {i}, st, differs)
      PROVE  SerialInv'
  <2>1. PICK tx : tx = [op |-> "close", ids |-> {i}, to |-> st, changed |-> differs]
    OBVIOUS
  <2>2. StillTrue(tx) /\ tx.op # "insert"
    BY <1>6, <2>1 DEF StillTrue
  <2>3. Begin(s, tx) /\ UNCHANGED clock
    BY <1>6, <2>1 DEF BeginClose
  <2> QED
    BY <1>4, <2>2, <2>3
<1>7. ASSUME NEW i \in Interviews, NEW st \in Done, UpdateStatus(s, i, st) PROVE SerialInv'
  <2>1. PICK differs \in BOOLEAN : differs = (row[i].status # st)
    OBVIOUS
  <2> QED
    BY <1>6, <1>7, <2>1 DEF UpdateStatus
<1>8. ASSUME NEW i \in Interviews, AbandonInterview(s, i) PROVE SerialInv'
  BY <1>6, <1>8 DEF AbandonInterview
<1>9. CASE ClaimInterview(s)
  <2>1. PICK i \in OldestQueued : Begin(s, [op |-> "claim", id |-> i]) /\ UNCHANGED clock
    BY <1>9 DEF ClaimInterview
  <2>2. PICK tx : tx = [op |-> "claim", id |-> i]
    OBVIOUS
  <2>3. StillTrue(tx) /\ tx.op # "insert"
    BY <2>2 DEF StillTrue
  <2> QED
    BY <1>4, <2>1, <2>2, <2>3
<1> QED
  BY <1>3, <1>5, <1>7, <1>8, <1>9

\* When it ends, there is nothing it knows.
LEMMA SerialEnds ==
  ASSUME TypeOK, SerialInv, ReadsInv, NEW s \in Sessions, \A t \in Sessions : t = s,
         Commit(s) \/ Rollback(s) \/ \E cutoff \in 0..clock : ClearStuck(s, cutoff)
  PROVE  SerialInv'
<1>1. \A i \in DOMAIN row : row[i].created < clock
  BY DEF SerialInv
<1>2. StillTrue(Idle)'
  BY DEF StillTrue, Idle
<1>3. session' = [session EXCEPT ![s] = Idle] /\ UNCHANGED clock
  BY DEF Commit, CommitInsert, CommitClaim, CommitClose, Rollback, ClearStuck, TypeOK
<1>4. \A i \in DOMAIN row' : row'[i].created < clock'
  <2>1. CASE CommitInsert(s)
    <3>1. session[s].created < clock
      BY <2>1 DEF SerialInv, StillTrue, CommitInsert
    <3> QED
      BY <1>1, <1>3, <2>1, <3>1 DEF CommitInsert, NewRow
  <2>2. CASE CommitClaim(s)
    BY <1>1, <1>3, <2>2 DEF CommitClaim, ReadsInv, TypeOK, Row
  <2>3. CASE CommitClose(s) \/ \E cutoff \in 0..clock : ClearStuck(s, cutoff)
    BY <1>1, <1>3, <2>3, CloseStatus
  <2>4. CASE Rollback(s)
    BY <1>1, <1>3, <2>4 DEF Rollback
  <2> QED
    BY <2>1, <2>2, <2>3, <2>4 DEF Commit
<1> QED
  BY <1>2, <1>3, <1>4, SerialCase

\* What the only session has read is true until it commits.
THEOREM SerialInvariance ==
  ASSUME \A s, t \in Sessions : s = t
  PROVE  Spec => []SerialInv
<1>1. Init => SerialInv
  BY DEF Init, SerialInv, StillTrue, Idle
<1>2. IndInv /\ SerialInv /\ [Next]_vars => SerialInv'
  <2> SUFFICES ASSUME IndInv, SerialInv, [Next]_vars PROVE SerialInv'
    OBVIOUS
  <2>1. CASE UNCHANGED vars
    BY <2>1 DEF vars, SerialInv, StillTrue, Active, OldestQueued, Queued
  <2>2. CASE Next
    <3>1. PICK s \in Sessions :
            \/ \/ \E a \in Agents : BeginInsert(s, a) \/ CancelStale(s, a)
               \/ \E i \in Interviews : \/ \E st \in Done : UpdateStatus(s, i, st)
                                        \/ AbandonInterview(s, i)
               \/ ClaimInterview(s)
            \/ Commit(s) \/ Rollback(s) \/ \E cutoff \in 0..clock : ClearStuck(s, cutoff)
      BY <2>2, Zenon DEF Next, CreateInterview, RequestInterview, DashboardRequestInterview
    <3>2. TypeOK /\ ReadsInv /\ \A t \in Sessions : t = s
      BY DEF IndInv
    <3> QED
      BY <3>1, <3>2, SerialBegins, SerialEnds
  <2> QED
    BY <2>1, <2>2
<1> QED
  BY <1>1, <1>2, Invariance, PTL DEF Spec


\* A step that leaves every status as it is is none of AtomicInterviews.
LEMMA SameView ==
  ASSUME row' = row
  PROVE  UNCHANGED Atomic!vars
BY DEF Atomic!vars, RowView, AgeOrder

\* The rows get a new status each, seen through the mapping.
LEMMA SetView ==
  ASSUME NEW ids, NEW st, DOMAIN row' = DOMAIN row,
         \A i \in DOMAIN row :
           /\ row'[i].agent = row[i].agent /\ row'[i].created = row[i].created
           /\ row'[i].status = IF i \in ids THEN st ELSE row[i].status
  PROVE  Atomic!Set(ids, st)
<1>1. RowView' = [i \in DOMAIN row |->
                   [agent |-> row[i].agent,
                    status |-> IF i \in ids THEN st ELSE row[i].status]]
  BY DEF RowView
<1>2. DOMAIN RowView = DOMAIN row
  BY DEF RowView
<1>3. \A i \in DOMAIN row :
        [agent |-> row[i].agent, status |-> IF i \in ids THEN st ELSE row[i].status]
          = IF i \in ids THEN [RowView[i] EXCEPT !.status = st] ELSE RowView[i]
  BY DEF RowView
<1>4. RowView' = [i \in DOMAIN RowView |->
                   IF i \in ids THEN [RowView[i] EXCEPT !.status = st] ELSE RowView[i]]
  BY <1>1, <1>2, <1>3
<1>5. AgeOrder' = AgeOrder
  BY DEF AgeOrder
<1> QED
  BY <1>4, <1>5 DEF Atomic!Set, Atomic!Existing

\* What AtomicInterviews speaks of, seen through the mapping.
LEMMA Views ==
  /\ Atomic!Existing = DOMAIN row
  /\ \A i \in DOMAIN row : RowView[i].agent = row[i].agent /\ RowView[i].status = row[i].status
  /\ \A a : Atomic!Active(a) = Active(a)
  /\ Atomic!Queued = Queued
  /\ Atomic!Done = Done
<1>1. Atomic!Existing = DOMAIN row
  BY DEF Atomic!Existing, RowView
<1>2. \A i \in DOMAIN row : RowView[i].agent = row[i].agent /\ RowView[i].status = row[i].status
  BY DEF RowView
<1>3. \A a : Atomic!Active(a) = Active(a)
  BY <1>1, <1>2 DEF Atomic!Active, Active, Atomic!Live, Live
<1>4. Atomic!Queued = Queued
  BY <1>1, <1>2 DEF Atomic!Queued, Queued
<1> QED
  BY <1>1, <1>2, <1>3, <1>4 DEF Atomic!Done, Done

\* The commit of an INSERT is a request of an agent without an active one.
LEMMA InsertIsRequest ==
  ASSUME TypeOK, SerialInv, NEW s \in Sessions, CommitInsert(s)
  PROVE  \E i \in Interviews, a \in Agents : Atomic!Request(i, a)
<1>1. PICK a, n : /\ a = session[s].agent /\ n = session[s].created
                  /\ NewRow(session[s]).agent = a /\ NewRow(session[s]).created = n
                  /\ NewRow(session[s]).status = "QUEUED"
  BY DEF NewRow
<1>2. a \in Agents /\ n \in Nat
  BY <1>1 DEF TypeOK, CommitInsert, Transaction, Idle
<1>3. PICK i \in Interviews \ DOMAIN row :
        row' = [j \in DOMAIN row \cup {i} |-> IF j = i THEN NewRow(session[s]) ELSE row[j]]
  BY DEF CommitInsert
<1>4. Active(a) = {} /\ \A j \in DOMAIN row : row[j].created < n
  BY <1>1 DEF SerialInv, StillTrue, CommitInsert
<1>5. DOMAIN row' = DOMAIN row \cup {i} /\ row'[i] = NewRow(session[s])
      /\ \A j \in DOMAIN row : row'[j] = row[j]
  BY <1>3
<1>6. RowView' = [j \in DOMAIN row \cup {i} |->
                   IF j = i THEN [agent |-> a, status |-> "QUEUED"] ELSE RowView[j]]
  BY <1>1, <1>5 DEF RowView
<1>7. AgeOrder' = AgeOrder \cup (DOMAIN row) \X {i}
  <2>1. \A j \in DOMAIN row : row[j].created \in Nat
    BY DEF TypeOK, Row
  <2>2. row'[i].created = n
    BY <1>1, <1>5
  <2>3. ASSUME NEW j \in DOMAIN row', NEW k \in DOMAIN row'
        PROVE  row'[j].created < row'[k].created <=>
                 \/ j \in DOMAIN row /\ k \in DOMAIN row /\ row[j].created < row[k].created
                 \/ j \in DOMAIN row /\ k = i
    <3>1. CASE j \in DOMAIN row /\ k \in DOMAIN row
      BY <1>5, <3>1
    <3>2. CASE j \in DOMAIN row /\ k = i
      BY <1>4, <1>5, <2>2, <3>2
    <3>3. CASE j = i /\ k \in DOMAIN row
      <4>1. ~(n < row[k].created)
        BY <1>2, <1>4, <2>1, <3>3
      <4> QED
        BY <1>5, <2>2, <3>3, <4>1
    <3>4. CASE j = i /\ k = i
      <4>1. ~(n < n)
        BY <1>2
      <4> QED
        BY <2>2, <3>4, <4>1
    <3> QED
      BY <1>5, <3>1, <3>2, <3>3, <3>4
  <2>4. ASSUME NEW p
        PROVE  p \in AgeOrder' <=> p \in AgeOrder \cup (DOMAIN row) \X {i}
    <3>1. CASE \E j \in DOMAIN row', k \in DOMAIN row' : p = <<j, k>>
      <4>1. PICK j \in DOMAIN row', k \in DOMAIN row' : p = <<j, k>>
        BY <3>1
      <4>2. p \in AgeOrder' <=> row'[j].created < row'[k].created
        BY <4>1 DEF AgeOrder
      <4>3. p \in AgeOrder <=> /\ j \in DOMAIN row /\ k \in DOMAIN row
                               /\ row[j].created < row[k].created
        BY <4>1 DEF AgeOrder
      <4> QED
        BY <2>3, <4>1, <4>2, <4>3
    <3>2. CASE ~ \E j \in DOMAIN row', k \in DOMAIN row' : p = <<j, k>>
      <4>1. p \notin AgeOrder' /\ p \notin AgeOrder /\ p \notin (DOMAIN row) \X {i}
        BY <1>5, <3>2 DEF AgeOrder
      <4> QED
        BY <4>1
    <3> QED
      BY <3>1, <3>2
  <2> QED
    BY <2>4
<1>8. Atomic!Request(i, a)
  BY <1>3, <1>4, <1>6, <1>7, Views DEF Atomic!Request
<1> QED
  BY <1>2, <1>8

\* The commit of a claim takes the oldest in the queue.
LEMMA ClaimIsClaim ==
  ASSUME TypeOK, SerialInv, NEW s \in Sessions, CommitClaim(s)
  PROVE  \E i \in Atomic!Existing : Atomic!Claim(i)
<1>1. PICK i : i = session[s].id
  OBVIOUS
<1>2. i \in Queued /\ \A j \in Queued : row[i].created <= row[j].created
  BY <1>1 DEF SerialInv, StillTrue, OldestQueued, CommitClaim
<1>3. \A j \in DOMAIN row : row[j] \in Row /\ row[j].created \in Nat
  BY DEF TypeOK, Row
<1>4. i \in DOMAIN row /\ Queued \subseteq DOMAIN row
  BY <1>2 DEF Queued
<1>5. \A j \in Queued : <<j, i>> \notin AgeOrder
  <2>1. \A j \in Queued : ~(row[j].created < row[i].created)
    BY <1>2, <1>3, <1>4
  <2> QED
    BY <2>1 DEF AgeOrder
<1>6. row' = [row EXCEPT ![i].status = "IN_PROGRESS"]
  BY <1>1 DEF CommitClaim
<1>7. DOMAIN row' = DOMAIN row
      /\ \A j \in DOMAIN row :
           /\ row'[j].agent = row[j].agent /\ row'[j].created = row[j].created
           /\ row'[j].status = IF j \in {i} THEN "IN_PROGRESS" ELSE row[j].status
  BY <1>3, <1>4, <1>6 DEF Row
<1>8. Atomic!Set({i}, "IN_PROGRESS")
  BY <1>7, SetView
<1> QED
  BY <1>2, <1>4, <1>5, <1>8, Views DEF Atomic!Claim

\* The commit of an UPDATE that ends interviews ends those, or the one, that
\* the handler was called for.
LEMMA CloseIsFinish ==
  ASSUME TypeOK, SerialInv, NEW s \in Sessions, CommitClose(s)
  PROVE  \/ \E i \in Atomic!Existing, st \in Atomic!Done : Atomic!Finish(i, st)
         \/ \E a \in Agents : Atomic!CancelStale(a)
<1>1. PICK ids \in SUBSET Interviews, st \in Done, differs \in BOOLEAN :
        ids = session[s].ids /\ st = session[s].to /\ differs = session[s].changed
  BY DEF TypeOK, CommitClose, Transaction, Idle
<1>2. \/ differs /\ st = "FAILED" /\ \E a \in Agents : ids = Active(a)
      \/ \E i \in DOMAIN row : ids = {i} /\ (differs \/ row[i].status = st)
  BY <1>1 DEF SerialInv, StillTrue, CommitClose
<1>3. DOMAIN row' = DOMAIN row
      /\ \A j \in DOMAIN row :
           row'[j] = IF j \in ids THEN Closed(row[j], session[s]) ELSE row[j]
  BY <1>1 DEF CommitClose
<1>4. \A j \in DOMAIN row :
        LET r == Closed(row[j], session[s]) IN
          /\ r.agent = row[j].agent /\ r.created = row[j].created
          /\ r.status = IF differs THEN st ELSE row[j].status
  <2>1. \A j \in DOMAIN row : row[j] \in Row
    BY DEF TypeOK
  <2> QED
    BY <1>1, <2>1 DEF Closed, Row
<1>5. \A j \in DOMAIN row :
        /\ row'[j].agent = row[j].agent /\ row'[j].created = row[j].created
        /\ row'[j].status = IF j \in ids THEN st ELSE row[j].status
  BY <1>2, <1>3, <1>4
<1>6. Atomic!Set(ids, st)
  BY <1>3, <1>5, SetView
<1> QED
  BY <1>2, <1>6, Views DEF Atomic!Finish, Atomic!CancelStale

\* The operator's script is one statement already.
LEMMA ClearIsClear ==
  ASSUME TypeOK, NEW s \in Sessions, NEW cutoff \in 0..clock, ClearStuck(s, cutoff)
  PROVE  \E expired \in SUBSET Atomic!Queued : Atomic!ClearStuck(expired)
<1>1. PICK expired \in SUBSET Queued : expired = {i \in Queued : row[i].created < cutoff}
  OBVIOUS
<1>2. \A j \in DOMAIN row : row[j] \in Row /\ row[j].created \in Nat
  BY DEF TypeOK, Row
<1>3. cutoff \in Nat
  BY DEF TypeOK
<1>4. \A j \in expired, i \in Queued : <<i, j>> \in AgeOrder => i \in expired
  <2>1. ASSUME NEW j \in expired, NEW i \in Queued, <<i, j>> \in AgeOrder PROVE i \in expired
    <3>1. i \in DOMAIN row /\ j \in DOMAIN row /\ row[i].created < row[j].created
      BY <2>1 DEF AgeOrder
    <3>2. row[j].created < cutoff
      BY <1>1
    <3>3. row[i].created < cutoff
      BY <1>2, <1>3, <3>1, <3>2
    <3> QED
      BY <1>1, <3>3
  <2> QED
    BY <2>1
<1>5. PICK ids : ids = expired \cup {i \in DOMAIN row : row[i].status = "IN_PROGRESS"}
  OBVIOUS
<1>6. DOMAIN row' = DOMAIN row
      /\ \A j \in DOMAIN row :
           /\ row'[j].agent = row[j].agent /\ row'[j].created = row[j].created
           /\ row'[j].status = IF j \in ids THEN "FAILED" ELSE row[j].status
  <2>1. \A j \in DOMAIN row :
          j \in ids <=>
            \/ row[j].status = "IN_PROGRESS"
            \/ row[j].status = "QUEUED" /\ row[j].created < cutoff
    BY <1>1, <1>5 DEF Queued
  <2>2. \A j \in DOMAIN row :
          LET r == [row[j] EXCEPT !.status = "FAILED", !.completed = TRUE] IN
            r.agent = row[j].agent /\ r.created = row[j].created /\ r.status = "FAILED"
    BY <1>2 DEF Row
  <2>3. DOMAIN row' = DOMAIN row
        /\ \A j \in DOMAIN row :
             row'[j] = IF j \in ids
                       THEN [row[j] EXCEPT !.status = "FAILED", !.completed = TRUE] ELSE row[j]
    BY <2>1 DEF ClearStuck
  <2> QED
    BY <2>2, <2>3
<1>7. Atomic!Set(ids, "FAILED")
  BY <1>6, SetView
<1>8. ids = expired \cup {i \in Atomic!Existing : RowView[i].status = "IN_PROGRESS"}
  BY <1>5, Views
<1> QED
  BY <1>4, <1>7, <1>8, Views DEF Atomic!ClearStuck

\* A backend that serves one request at a time does what AtomicInterviews
\* promises: the halves of its handlers are one operation.
THEOREM SerialIsAtomic ==
  ASSUME Cardinality(Sessions) = 1
  PROVE  Spec => ImplementsAtomic
<1>1. \A s, t \in Sessions : s = t
  BY SessionsAssumption, FS_Singleton
<1>2. Spec => []SerialInv
  BY <1>1, SerialInvariance
<1>3. Init => Atomic!Init
  BY DEF Init, Atomic!Init, RowView, AgeOrder
<1>4. IndInv /\ SerialInv /\ [Next]_vars => [Atomic!Next]_(Atomic!vars)
  <2> SUFFICES ASSUME IndInv, SerialInv, [Next]_vars
               PROVE  Atomic!Next \/ UNCHANGED Atomic!vars
    OBVIOUS
  <2>1. TypeOK
    BY DEF IndInv
  <2>2. CASE UNCHANGED vars
    BY <2>2, SameView DEF vars
  <2>3. CASE Next
    <3>1. PICK s \in Sessions : Step(s)
      BY <2>3, NextIsStep
    <3>2. CASE CommitInsert(s)
      BY <2>1, <3>2, InsertIsRequest DEF Atomic!Next
    <3>3. CASE CommitClaim(s)
      BY <2>1, <3>3, ClaimIsClaim DEF Atomic!Next
    <3>4. CASE CommitClose(s)
      BY <2>1, <3>4, CloseIsFinish DEF Atomic!Next
    <3>5. CASE \E n \in 0..clock : ClearStuck(s, n)
      BY <2>1, <3>5, ClearIsClear DEF Atomic!Next
    <3>6. CASE row' = row
      BY <3>6, SameView
    <3> QED
      BY <3>1, <3>2, <3>3, <3>4, <3>5, <3>6
      DEF Step, BeginInsert, BeginInsertUnchecked, ClaimInterview, BeginClose, Begin, Rollback
  <2> QED
    BY <2>2, <2>3
<1> QED
  BY <1>2, <1>3, <1>4, Invariance, PTL DEF Spec, ImplementsAtomic, Atomic!Spec

=============================================================================
