-------------------------- MODULE AtomicInterviews --------------------------
(***************************************************************************)
(* What the interview handlers of the backend promise a client that sees   *)
(* each of them as one indivisible operation: an agent has at most one     *)
(* active interview, the host takes interviews oldest first, each of them  *)
(* once, and a finished interview never becomes active again.              *)
(***************************************************************************)
CONSTANTS Agents, Interviews

VARIABLES
  interview,    \* agent and status of every interview there is
  older         \* the pairs <<i, j>> such that i was created before j

vars == <<interview, older>>

Live == {"QUEUED", "IN_PROGRESS"}
Done == {"COMPLETED", "FAILED"}

Existing == DOMAIN interview

Active(a) == {i \in Existing : interview[i].agent = a /\ interview[i].status \in Live}

Queued == {i \in Existing : interview[i].status = "QUEUED"}

-----------------------------------------------------------------------------
Init == interview = <<>> /\ older = {}

\* A request, by the agent, its owner or an administrator, of an agent that
\* has no active interview.  Any other is answered with the active one.
Request(i, a) ==
  /\ Active(a) = {}
  /\ i \notin Existing
  /\ interview' = [j \in Existing \cup {i} |->
                     IF j = i THEN [agent |-> a, status |-> "QUEUED"] ELSE interview[j]]
  /\ older' = older \cup (Existing \X {i})

Set(ids, st) ==
  /\ interview' = [i \in Existing |->
                     IF i \in ids THEN [interview[i] EXCEPT !.status = st] ELSE interview[i]]
  /\ UNCHANGED older

Claim(i) ==
  /\ i \in Queued
  /\ \A j \in Queued : <<j, i>> \notin older
  /\ Set({i}, "IN_PROGRESS")

\* The administrator may set any status of Done at any time.
Finish(i, st) == i \in Existing /\ Set({i}, st)

CancelStale(a) == Set(Active(a), "FAILED")

\* The operator's script fails what is in progress and what has been queued
\* for too long: if a queued interview has, so have the older ones.
ClearStuck(expired) ==
  /\ \A j \in expired, i \in Queued : <<i, j>> \in older => i \in expired
  /\ Set(expired \cup {i \in Existing : interview[i].status = "IN_PROGRESS"}, "FAILED")

Next ==
  \/ \E i \in Interviews, a \in Agents : Request(i, a)
  \/ \E i \in Existing : Claim(i)
  \/ \E i \in Existing, st \in Done : Finish(i, st)
  \/ \E a \in Agents : CancelStale(a)
  \/ \E expired \in SUBSET Queued : ClearStuck(expired)

Spec == Init /\ [][Next]_vars
=============================================================================
