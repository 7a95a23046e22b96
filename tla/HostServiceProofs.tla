------------------------- MODULE HostServiceProofs --------------------------
(***************************************************************************)
(* Proofs about HostService, for any number of agents, interviews and      *)
(* faults.                                                                 *)
(***************************************************************************)
EXTENDS HostService, TLAPS

TableTyped ==
  /\ DOMAIN interview \subseteq Interviews
  /\ interview \in [DOMAIN interview -> [agent: Agents, status: Statuses]]
  /\ older \subseteq Interviews \X Interviews
  /\ takenBack \subseteq Interviews

\* What a step does to the statuses: nothing, or one interview gets a new one.
SameStatus == takenBack' = takenBack /\ \A j \in Interviews : StatusOf(j)' = StatusOf(j)

Becomes(i, st) ==
  /\ StatusOf(i)' = st
  /\ \A j \in Interviews \ {i} : StatusOf(j)' = StatusOf(j)
  /\ \A j \in Interviews :
       j \in takenBack' <=>
         j \in takenBack \/ (j = i /\ StatusOf(i) = "COMPLETED" /\ st # "COMPLETED")

-----------------------------------------------------------------------------
\* The operations of the table, seen from StatusOf.

LEMMA StatusTyped ==
  ASSUME TableTyped
  PROVE  \A i \in Interviews : StatusOf(i) \in Statuses \cup {"none"}
BY DEF TableTyped, StatusOf, Store!Existing

LEMMA Unchanged ==
  ASSUME TableTyped, UNCHANGED storeVars
  PROVE  SameStatus /\ TableTyped'
BY DEF TableTyped, storeVars, SameStatus, StatusOf, Store!Existing

LEMMA Changed ==
  ASSUME TableTyped, NEW i \in Interviews, NEW st \in Statuses,
         SetStatus(i, st)
  PROVE  Becomes(i, st) /\ StatusOf(i) # "none" /\ TableTyped'
<1> USE DEF TableTyped, SetStatus
<1>1. \A j \in DOMAIN interview :
        /\ interview[j] \in [agent: Agents, status: Statuses]
        /\ [interview[j] EXCEPT !.status = st] \in [agent: Agents, status: Statuses]
        /\ [interview[j] EXCEPT !.status = st].status = st
  OBVIOUS
<1>2. DOMAIN interview' = DOMAIN interview
  BY DEF Store!Set, Store!Existing
<1>3. \A j \in DOMAIN interview :
        interview'[j] = IF j = i THEN [interview[j] EXCEPT !.status = st] ELSE interview[j]
  BY DEF Store!Set, Store!Existing
<1>4. TableTyped'
  <2>1. \A j \in DOMAIN interview : interview'[j] \in [agent: Agents, status: Statuses]
    BY <1>1, <1>3
  <2>2. interview' = [j \in DOMAIN interview' |-> interview'[j]]
    BY DEF Store!Set, Store!Existing
  <2> QED
    BY <2>1, <2>2, <1>2 DEF Store!Set
<1>5. Becomes(i, st)
  <2>1. /\ StatusOf(i)' = st
        /\ \A j \in Interviews \ {i} : StatusOf(j)' = StatusOf(j)
    BY <1>1, <1>2, <1>3 DEF StatusOf, Store!Existing
  <2> QED
    BY <2>1 DEF Becomes
<1>6. StatusOf(i) # "none"
  BY DEF StatusOf, Store!Existing, Statuses, Store!Live, Store!Done
<1> QED
  BY <1>4, <1>5, <1>6

LEMMA Requested ==
  ASSUME TableTyped, NEW i \in Interviews, NEW a \in Agents, Store!Request(i, a),
         UNCHANGED takenBack
  PROVE  Becomes(i, "QUEUED") /\ StatusOf(i) = "none" /\ TableTyped'
<1> USE DEF TableTyped
<1>1. /\ i \notin DOMAIN interview
      /\ DOMAIN interview' = DOMAIN interview \cup {i}
      /\ interview'[i] = [agent |-> a, status |-> "QUEUED"]
      /\ \A j \in DOMAIN interview : interview'[j] = interview[j]
  BY DEF Store!Request, Store!Existing
<1>2. TableTyped'
  <2>1. [agent |-> a, status |-> "QUEUED"] \in [agent: Agents, status: Statuses]
    BY DEF Statuses, Store!Live
  <2>2. \A j \in DOMAIN interview' : interview'[j] \in [agent: Agents, status: Statuses]
    BY <1>1, <2>1
  <2>3. interview' = [j \in DOMAIN interview' |-> interview'[j]]
    BY DEF Store!Request, Store!Existing
  <2> QED
    BY <1>1, <2>2, <2>3 DEF Store!Request, Store!Existing
<1> QED
  BY <1>1, <1>2 DEF Becomes, StatusOf, Store!Existing

LEMMA NextIsQueued ==
  ASSUME NEW i \in Interviews, NextInQueue(i)
  PROVE  StatusOf(i) = "QUEUED"
BY DEF NextInQueue, Store!Queued, StatusOf

-----------------------------------------------------------------------------
\* The invariant holds at the start, and no step breaks it.

LEMMA InitInd == Init => IndInv
<1> SUFFICES ASSUME Init PROVE IndInv
  OBVIOUS
<1>1. \A i \in Interviews : StatusOf(i) = "none"
  BY DEF Init, Store!Init, StatusOf, Store!Existing
<1>2. TypeOK
  BY FaultsAssumption DEF Init, Store!Init, TypeOK, Stages
<1> QED
  BY <1>1, <1>2 DEF Init, IndInv, CompletedHasEpisode, ArchivedIsCompleted, OrphansAreFaulted,
     OneClaim, ClaimedInv, EpisodeInv, LateInv, CompletedInv, ArchiveInv, Archived, Stitched

\* The steps of the clients and of the polling loop.

LEMMA RequestStep ==
  ASSUME IndInv, NEW i \in Interviews, NEW a \in Agents, RequestInterview(i, a)
  PROVE  IndInv'
<1> USE DEF IndInv, RequestInterview, outcomeVars, faultVars, loopVars
<1>1. Becomes(i, "QUEUED") /\ StatusOf(i) = "none" /\ TableTyped'
  BY Requested DEF TypeOK, TableTyped, loopVars
<1>2. TypeOK'
  BY <1>1 DEF TypeOK, TableTyped
<1> QED
  BY <1>1, <1>2 DEF Becomes, CompletedHasEpisode, ArchivedIsCompleted, OrphansAreFaulted,
     OneClaim, ClaimedInv, EpisodeInv, LateInv, CompletedInv, ArchiveInv, Archived, Stitched

LEMMA FindStep ==
  ASSUME IndInv, NEW i \in Interviews, FindLive(i)
  PROVE  IndInv'
<1> USE DEF IndInv, FindLive, outcomeVars, faultVars, loopVars
<1>1. SameStatus /\ TableTyped'
  BY Unchanged DEF TypeOK, TableTyped
<1>2. TypeOK'
  BY <1>1 DEF TypeOK, TableTyped, Found
<1> QED
  BY <1>1, <1>2
    DEF SameStatus, CompletedHasEpisode, ArchivedIsCompleted, OrphansAreFaulted, OneClaim,
     ClaimedInv, EpisodeInv, LateInv, CompletedInv, ArchiveInv, Archived, Stitched

LEMMA EndStep ==
  ASSUME IndInv, NEW i \in Interviews, End(i) \/ ClearStuck(i)
  PROVE  IndInv'
<1> USE DEF IndInv, End, ClearStuck, outcomeVars, faultVars, loopVars
<1>1. Becomes(i, "FAILED") /\ StatusOf(i) # "none" /\ TableTyped'
  BY Changed DEF TypeOK, TableTyped, Statuses, Store!Done
<1>2. TypeOK'
  BY <1>1 DEF TypeOK, TableTyped
<1>3. CompletedHasEpisode' /\ OrphansAreFaulted' /\ OneClaim' /\ EpisodeInv' /\ LateInv'
  BY <1>1 DEF Becomes, CompletedHasEpisode, OrphansAreFaulted, OneClaim, EpisodeInv, LateInv
<1>4. ClaimedInv'
  BY <1>1 DEF Becomes, ClaimedInv
<1>5. CompletedInv'
  BY <1>1 DEF Becomes, CompletedInv
<1>6. ArchiveInv' /\ ArchivedIsCompleted'
  BY <1>1 DEF Becomes, ArchiveInv, Archived, ArchivedIsCompleted
<1> QED
  BY <1>2, <1>3, <1>4, <1>5, <1>6

LEMMA ClaimStep ==
  ASSUME IndInv, NEW i \in Interviews, Claim(i)
  PROVE  IndInv'
<1> USE DEF IndInv, Claim, outcomeVars, faultVars
<1>1. SameStatus /\ TableTyped' /\ StatusOf(i) = "QUEUED"
  BY Unchanged, NextIsQueued DEF TypeOK, TableTyped
<1>2. TypeOK'
  BY <1>1 DEF TypeOK, TableTyped
<1> QED
  BY <1>1, <1>2
    DEF SameStatus, CompletedHasEpisode, ArchivedIsCompleted, OrphansAreFaulted, OneClaim,
     ClaimedInv, EpisodeInv, LateInv, CompletedInv, ArchiveInv, Archived, Stitched

LEMMA CommitClaimStep ==
  ASSUME IndInv, NEW i \in Interviews, CommitClaim(i)
  PROVE  IndInv'
<1> USE DEF IndInv, CommitClaim, outcomeVars, faultVars
<1>1. Becomes(i, "IN_PROGRESS") /\ StatusOf(i) # "none" /\ TableTyped'
  BY Changed DEF TypeOK, TableTyped, Statuses, Store!Live
<1>2. TypeOK'
  BY <1>1 DEF TypeOK, TableTyped
<1>3. task[i] = "none"
  BY DEF ClaimedInv
<1>4. claimReply = {} /\ \A j \in claiming : j = i
  BY DEF OneClaim
<1>5. CompletedHasEpisode' /\ OrphansAreFaulted' /\ OneClaim' /\ EpisodeInv' /\ LateInv'
  BY <1>1, <1>4 DEF Becomes, CompletedHasEpisode, OrphansAreFaulted, OneClaim, EpisodeInv, LateInv
<1>6. ClaimedInv'
  BY <1>1, <1>3, <1>4 DEF Becomes, ClaimedInv
<1>7. CompletedInv'
  BY <1>1, <1>3 DEF Becomes, CompletedInv
<1>8. ArchiveInv' /\ ArchivedIsCompleted'
  BY <1>1, <1>3 DEF Becomes, ArchiveInv, Archived, ArchivedIsCompleted
<1> QED
  BY <1>2, <1>5, <1>6, <1>7, <1>8

LEMMA StartStep ==
  ASSUME IndInv, NEW i \in Interviews, StartTask(i)
  PROVE  IndInv'
<1> USE DEF IndInv, StartTask, outcomeVars, faultVars
<1>1. SameStatus /\ TableTyped'
  BY Unchanged DEF TypeOK, TableTyped
<1>2. TypeOK'
  BY <1>1 DEF TypeOK, TableTyped, Stages, Running
<1>3. task[i] = "none" /\ \A j \in claimReply : j = i
  BY DEF ClaimedInv, OneClaim
<1>4. task'[i] = "talking" /\ \A j \in Interviews \ {i} : task'[j] = task[j]
  BY DEF TypeOK
<1>5. ~Archived(i) /\ <<i, "COMPLETED">> \notin late /\ <<i, "FAILED">> \notin late
      /\ StatusOf(i) # "COMPLETED" /\ i \notin takenBack
  BY <1>3 DEF Archived, ArchiveInv, LateInv, CompletedInv
<1>6. CompletedHasEpisode' /\ OrphansAreFaulted' /\ EpisodeInv'
  BY <1>1, <1>3, <1>4
    DEF SameStatus, CompletedHasEpisode, OrphansAreFaulted, EpisodeInv, Stitched, Running
<1>7. OneClaim' /\ ClaimedInv'
  BY <1>1, <1>3, <1>4 DEF SameStatus, OneClaim, ClaimedInv
<1>8. LateInv'
  BY <1>4, <1>5 DEF LateInv
<1>9. CompletedInv'
  BY <1>1, <1>4, <1>5 DEF SameStatus, CompletedInv
<1>10. ArchiveInv' /\ ArchivedIsCompleted'
  BY <1>1, <1>4, <1>5 DEF SameStatus, ArchivedIsCompleted, ArchiveInv, Archived
<1> QED
  BY <1>2, <1>6, <1>7, <1>8, <1>9, <1>10

\* The steps of a task.

LEMMA TalkStep ==
  ASSUME IndInv, NEW i \in Interviews, Talk(i)
  PROVE  IndInv'
<1> USE DEF IndInv, Talk, Goto, outcomeVars, faultVars, loopVars
<1>1. SameStatus /\ TableTyped'
  BY Unchanged DEF TypeOK, TableTyped
<1>2. TypeOK'
  BY <1>1 DEF TypeOK, TableTyped, Stages, Running
<1>3. /\ task[i] = "talking" /\ task'[i] = "stitching"
      /\ \A j \in Interviews \ {i} : task'[j] = task[j]
  BY DEF TypeOK
<1>4. ~Archived(i) /\ <<i, "COMPLETED">> \notin late /\ <<i, "FAILED">> \notin late
      /\ StatusOf(i) # "COMPLETED" /\ i \notin takenBack
  BY <1>3 DEF Archived, ArchiveInv, LateInv, CompletedInv
<1>5. CompletedHasEpisode' /\ OrphansAreFaulted' /\ EpisodeInv'
  BY <1>1, <1>3
    DEF SameStatus, CompletedHasEpisode, OrphansAreFaulted, EpisodeInv, Stitched, Running
<1>6. OneClaim' /\ ClaimedInv'
  BY <1>1, <1>3 DEF SameStatus, OneClaim, ClaimedInv
<1>7. LateInv'
  BY <1>3, <1>4 DEF LateInv
<1>8. CompletedInv'
  BY <1>1, <1>3, <1>4 DEF SameStatus, CompletedInv
<1>9. ArchiveInv' /\ ArchivedIsCompleted'
  BY <1>1, <1>3, <1>4 DEF SameStatus, ArchivedIsCompleted, ArchiveInv, Archived
<1> QED
  BY <1>2, <1>5, <1>6, <1>7, <1>8, <1>9

LEMMA TalkFailsStep ==
  ASSUME IndInv, NEW i \in Interviews, TalkFails(i)
  PROVE  IndInv'
<1> USE DEF IndInv, TalkFails, Goto, outcomeVars, faultVars, loopVars
<1>1. SameStatus /\ TableTyped'
  BY Unchanged DEF TypeOK, TableTyped
<1>2. TypeOK'
  BY <1>1 DEF TypeOK, TableTyped, Stages, Running
<1>3. /\ task[i] = "talking" /\ task'[i] = "failing"
      /\ \A j \in Interviews \ {i} : task'[j] = task[j]
  BY DEF TypeOK
<1>4. ~Archived(i) /\ <<i, "COMPLETED">> \notin late /\ <<i, "FAILED">> \notin late
      /\ StatusOf(i) # "COMPLETED" /\ i \notin takenBack
  BY <1>3 DEF Archived, ArchiveInv, LateInv, CompletedInv
<1>5. CompletedHasEpisode' /\ OrphansAreFaulted' /\ EpisodeInv'
  BY <1>1, <1>3
    DEF SameStatus, CompletedHasEpisode, OrphansAreFaulted, EpisodeInv, Stitched, Running
<1>6. OneClaim' /\ ClaimedInv'
  BY <1>1, <1>3 DEF SameStatus, OneClaim, ClaimedInv
<1>7. LateInv'
  BY <1>3, <1>4 DEF LateInv
<1>8. CompletedInv'
  BY <1>1, <1>3, <1>4 DEF SameStatus, CompletedInv
<1>9. ArchiveInv' /\ ArchivedIsCompleted'
  BY <1>1, <1>3, <1>4 DEF SameStatus, ArchivedIsCompleted, ArchiveInv, Archived
<1> QED
  BY <1>2, <1>5, <1>6, <1>7, <1>8, <1>9

LEMMA StitchStep ==
  ASSUME IndInv, NEW i \in Interviews, Stitch(i)
  PROVE  IndInv'
<1> USE DEF IndInv, Stitch, Goto, outcomeVars, faultVars, loopVars
<1>1. SameStatus /\ TableTyped'
  BY Unchanged DEF TypeOK, TableTyped
<1>2. TypeOK'
  BY <1>1 DEF TypeOK, TableTyped, Stages, Running
<1>3. CompletedHasEpisode' /\ OrphansAreFaulted'
  BY <1>1
    DEF TypeOK, SameStatus, CompletedHasEpisode, OrphansAreFaulted,
        EpisodeInv, CompletedInv, ClaimedInv, Stitched, Running
<1>4. OneClaim' /\ ClaimedInv' /\ EpisodeInv'
  BY <1>1 DEF TypeOK, SameStatus, OneClaim, ClaimedInv, EpisodeInv, Stitched
<1>5. LateInv'
  BY <1>1 DEF TypeOK, LateInv
<1>6. CompletedInv'
  BY <1>1 DEF TypeOK, SameStatus, CompletedInv, ArchiveInv, Archived
<1>7. /\ task[i] = "stitching" /\ task'[i] = "completing"
      /\ \A j \in Interviews \ {i} : task'[j] = task[j]
  BY DEF TypeOK
<1>8. ~Archived(i)
  BY <1>7 DEF Archived, ArchiveInv
<1>9. ArchiveInv' /\ ArchivedIsCompleted'
  BY <1>1, <1>7, <1>8 DEF SameStatus, ArchivedIsCompleted, ArchiveInv, Archived
<1> QED
  BY <1>2, <1>3, <1>4, <1>5, <1>6, <1>9

LEMMA SetCompletedStep ==
  ASSUME IndInv, NEW i \in Interviews, SetCompleted(i)
  PROVE  IndInv'
<1> USE DEF IndInv, SetCompleted, Goto, outcomeVars, faultVars, loopVars
<1>1. Becomes(i, "COMPLETED") /\ TableTyped'
  BY Changed DEF TypeOK, TableTyped, Statuses, Store!Done
<1>2. TypeOK'
  BY <1>1 DEF TypeOK, TableTyped, Stages, Running
<1>3. CompletedHasEpisode' /\ OrphansAreFaulted'
  BY <1>1
    DEF TypeOK, Becomes, CompletedHasEpisode, OrphansAreFaulted,
        EpisodeInv, CompletedInv, ClaimedInv, Stitched, Running
<1>4. OneClaim' /\ ClaimedInv' /\ EpisodeInv'
  BY <1>1 DEF TypeOK, Becomes, OneClaim, ClaimedInv, EpisodeInv, Stitched
<1>5. LateInv'
  BY <1>1 DEF TypeOK, LateInv
<1>6. CompletedInv'
  BY <1>1 DEF TypeOK, Becomes, CompletedInv, ArchiveInv, Archived
<1>7. /\ task[i] = "completing" /\ task'[i] = "acknowledging"
      /\ \A j \in Interviews \ {i} : task'[j] = task[j]
  BY DEF TypeOK
<1>8. ~Archived(i)
  BY <1>7 DEF Archived, ArchiveInv
<1>9. ArchiveInv' /\ ArchivedIsCompleted'
  BY <1>1, <1>7, <1>8 DEF Becomes, ArchivedIsCompleted, ArchiveInv, Archived
<1> QED
  BY <1>2, <1>3, <1>4, <1>5, <1>6, <1>9

LEMMA AcknowledgedStep ==
  ASSUME IndInv, NEW i \in Interviews, Acknowledged(i)
  PROVE  IndInv'
<1> USE DEF IndInv, Acknowledged, Goto, outcomeVars, faultVars, loopVars
<1>1. SameStatus /\ TableTyped'
  BY Unchanged DEF TypeOK, TableTyped
<1>2. TypeOK'
  BY <1>1 DEF TypeOK, TableTyped, Stages, Running
<1>3. CompletedHasEpisode' /\ OrphansAreFaulted'
  BY <1>1
    DEF TypeOK, SameStatus, CompletedHasEpisode, OrphansAreFaulted,
        EpisodeInv, CompletedInv, ClaimedInv, Stitched, Running
<1>4. OneClaim' /\ ClaimedInv' /\ EpisodeInv'
  BY <1>1 DEF TypeOK, SameStatus, OneClaim, ClaimedInv, EpisodeInv, Stitched
<1>5. LateInv'
  BY <1>1 DEF TypeOK, LateInv
<1>6. CompletedInv'
  BY <1>1 DEF TypeOK, SameStatus, CompletedInv, ArchiveInv, Archived
<1>7. ArchivedIsCompleted'
  BY <1>1 DEF SameStatus, ArchivedIsCompleted
<1>8. /\ StatusOf(i) = "COMPLETED" <=> i \notin takenBack
      /\ <<i, "FAILED">> \notin late /\ <<i, "COMPLETED">> \notin late
  BY DEF CompletedInv, LateInv
<1>9. task'[i] = "reading" /\ \A j \in Interviews \ {i} : task'[j] = task[j]
  BY DEF TypeOK
<1>10. ArchiveInv'
  BY <1>1, <1>8, <1>9 DEF SameStatus, ArchiveInv, Archived
<1> QED
  BY <1>2, <1>3, <1>4, <1>5, <1>6, <1>7, <1>10

LEMMA SetFailedStep ==
  ASSUME IndInv, NEW i \in Interviews, SetFailed(i)
  PROVE  IndInv'
<1> USE DEF IndInv, SetFailed, Goto, outcomeVars, faultVars, loopVars
<1>1. Becomes(i, "FAILED") /\ TableTyped'
  BY Changed DEF TypeOK, TableTyped, Statuses, Store!Done
<1>2. TypeOK'
  BY <1>1 DEF TypeOK, TableTyped, Stages, Running
<1>3. CompletedHasEpisode' /\ OrphansAreFaulted'
  BY <1>1
    DEF TypeOK, Becomes, CompletedHasEpisode, OrphansAreFaulted,
        EpisodeInv, CompletedInv, ClaimedInv, Stitched, Running
<1>4. OneClaim' /\ ClaimedInv' /\ EpisodeInv'
  BY <1>1 DEF TypeOK, Becomes, OneClaim, ClaimedInv, EpisodeInv, Stitched
<1>5. LateInv'
  BY <1>1 DEF TypeOK, LateInv
<1>6. CompletedInv'
  BY <1>1 DEF TypeOK, Becomes, CompletedInv, ArchiveInv, Archived
<1>7. ~Archived(i) /\ transcript[i] = "none"
  BY DEF Archived, ArchiveInv
<1>8. ArchivedIsCompleted'
  BY <1>1, <1>7 DEF Becomes, ArchivedIsCompleted
<1>9. task'[i] = "over" /\ \A j \in Interviews \ {i} : task'[j] = task[j]
  BY DEF TypeOK
<1>10. ArchiveInv'
  BY <1>1, <1>7, <1>9 DEF Becomes, ArchiveInv, Archived
<1> QED
  BY <1>2, <1>3, <1>4, <1>5, <1>6, <1>8, <1>10

LEMMA ReadForTranscriptStep ==
  ASSUME IndInv, NEW i \in Interviews, ReadForTranscript(i)
  PROVE  IndInv'
<1> USE DEF IndInv, ReadForTranscript, Goto, outcomeVars, faultVars, loopVars
<1>1. SameStatus /\ TableTyped'
  BY Unchanged DEF TypeOK, TableTyped
<1>2. TypeOK'
  BY <1>1, StatusTyped DEF TypeOK, TableTyped, Stages, Running
<1>3. CompletedHasEpisode' /\ OrphansAreFaulted'
  BY <1>1
    DEF TypeOK, SameStatus, CompletedHasEpisode, OrphansAreFaulted,
        EpisodeInv, CompletedInv, ClaimedInv, Stitched, Running
<1>4. OneClaim' /\ ClaimedInv' /\ EpisodeInv'
  BY <1>1 DEF TypeOK, SameStatus, OneClaim, ClaimedInv, EpisodeInv, Stitched
<1>5. LateInv'
  BY <1>1 DEF TypeOK, LateInv
<1>6. CompletedInv'
  BY <1>1 DEF TypeOK, SameStatus, CompletedInv, ArchiveInv, Archived
<1>7. ArchivedIsCompleted'
  BY <1>1 DEF SameStatus, ArchivedIsCompleted
<1>8. /\ task[i] = "reading" /\ task'[i] = "archiving"
      /\ \A j \in Interviews \ {i} : task'[j] = task[j]
  BY DEF TypeOK
<1>9. snapshot'[i] = StatusOf(i) /\ \A j \in Interviews \ {i} : snapshot'[j] = snapshot[j]
  BY DEF TypeOK
<1>10. Archived(i) /\ \A j \in Interviews : Archived(j)' => Archived(j)
  BY <1>8 DEF Archived
<1>11. ArchiveInv'
  BY <1>1, <1>8, <1>9, <1>10 DEF SameStatus, ArchiveInv
<1> QED
  BY <1>2, <1>3, <1>4, <1>5, <1>6, <1>7, <1>11

LEMMA StoreTranscriptStep ==
  ASSUME IndInv, NEW i \in Interviews, StoreTranscript(i)
  PROVE  IndInv'
<1> USE DEF IndInv, StoreTranscript, Goto, outcomeVars, faultVars, loopVars
<1>1. SameStatus /\ TableTyped'
  BY Unchanged DEF TypeOK, TableTyped
<1>2. TypeOK'
  BY <1>1, StatusTyped DEF TypeOK, TableTyped, Stages, Running
<1>3. CompletedHasEpisode' /\ OrphansAreFaulted'
  BY <1>1
    DEF TypeOK, SameStatus, CompletedHasEpisode, OrphansAreFaulted,
        EpisodeInv, CompletedInv, ClaimedInv, Stitched, Running
<1>4. OneClaim' /\ ClaimedInv' /\ EpisodeInv'
  BY <1>1 DEF TypeOK, SameStatus, OneClaim, ClaimedInv, EpisodeInv, Stitched
<1>5. LateInv'
  BY <1>1 DEF TypeOK, LateInv
<1>6. CompletedInv'
  BY <1>1 DEF TypeOK, SameStatus, CompletedInv, ArchiveInv, Archived
<1>7. /\ Archived(i) /\ (StatusOf(i) = "COMPLETED" <=> i \notin takenBack)
      /\ snapshot[i] = "COMPLETED" \/ i \in takenBack
  BY DEF Archived, ArchiveInv
<1>8. transcript'[i] = snapshot[i] /\ \A j \in Interviews \ {i} : transcript'[j] = transcript[j]
  BY DEF TypeOK
<1>9. ArchivedIsCompleted'
  BY <1>1, <1>7, <1>8 DEF SameStatus, ArchivedIsCompleted
<1>10. task'[i] = "titling" /\ \A j \in Interviews \ {i} : task'[j] = task[j]
  BY DEF TypeOK
<1>11. \A j \in Interviews : Archived(j)' => Archived(j)
  BY <1>7, <1>8, <1>10 DEF TypeOK, Archived
<1>12. \A j \in Interviews \ {i} : snapshot'[j] = snapshot[j]
  BY DEF TypeOK
<1>13. ArchiveInv'
  BY <1>1, <1>10, <1>11, <1>12 DEF SameStatus, ArchiveInv
<1> QED
  BY <1>2, <1>3, <1>4, <1>5, <1>6, <1>9, <1>13

LEMMA SaveTitleStep ==
  ASSUME IndInv, NEW i \in Interviews, SaveTitle(i)
  PROVE  IndInv'
<1> USE DEF IndInv, SaveTitle, Goto, outcomeVars, faultVars, loopVars
<1>1. SameStatus /\ TableTyped'
  BY Unchanged DEF TypeOK, TableTyped
<1>2. TypeOK'
  BY <1>1 DEF TypeOK, TableTyped, Stages, Running
<1>3. CompletedHasEpisode' /\ OrphansAreFaulted'
  BY <1>1
    DEF TypeOK, SameStatus, CompletedHasEpisode, OrphansAreFaulted, CompletedInv, Running
<1>4. OneClaim' /\ ClaimedInv' /\ EpisodeInv'
  BY <1>1 DEF TypeOK, SameStatus, OneClaim, ClaimedInv, EpisodeInv, Stitched
<1>5. LateInv'
  BY <1>1 DEF TypeOK, LateInv
<1>6. CompletedInv'
  BY <1>1 DEF TypeOK, SameStatus, CompletedInv, ArchiveInv, Archived
<1>7. ArchivedIsCompleted'
  BY <1>1 DEF SameStatus, ArchivedIsCompleted
<1>8. /\ task[i] = "titling" /\ task'[i] = "over"
      /\ \A j \in Interviews \ {i} : task'[j] = task[j]
  BY DEF TypeOK
<1>9. \A j \in Interviews : Archived(j)' => Archived(j)
  BY <1>8 DEF Archived
<1>10. ArchiveInv'
  BY <1>1, <1>8, <1>9 DEF SameStatus, ArchiveInv
<1> QED
  BY <1>2, <1>3, <1>4, <1>5, <1>6, <1>7, <1>10

\* The faults.

Calls == {"IN_PROGRESS", "COMPLETED", "FAILED", "transcript", "title"}

\* The task of i waits for the reply to this call.
Making(i, c) ==
  \/ task[i] = "completing" /\ c = "COMPLETED"
  \/ task[i] = "failing" /\ c = "FAILED"
  \/ task[i] \in {"reading", "archiving"} /\ c = "transcript"
  \/ task[i] = "titling" /\ c = "title"

\* The calls that the tasks are making.
LEMMA CallsMade ==
  ASSUME NEW ids \in SUBSET Interviews
  PROVE  /\ CallsOf(ids) \subseteq Interviews \X Calls
         /\ \A j \in Interviews, c \in Calls : <<j, c>> \in CallsOf(ids) <=> j \in ids /\ Making(j, c)
<1>1. \A i \in Interviews :
        task[i] \in DOMAIN CallOf =>
          CallOf[task[i]] \in Calls /\ (\A c \in Calls : CallOf[task[i]] = c <=> Making(i, c))
  BY DEF CallOf, Calls, Making
<1>2. \A i \in Interviews, c \in Calls : Making(i, c) => task[i] \in DOMAIN CallOf
  BY DEF CallOf, Making
<1> QED
  BY <1>1, <1>2 DEF CallsOf

\* A fault leaves behind the calls it names, and nothing else.
LEMMA Faulted ==
  ASSUME TypeOK, NEW ids \in SUBSET Interviews, NEW calls \in SUBSET (Interviews \X Calls),
         Fault(ids, calls)
  PROVE  /\ late' = late \cup calls /\ late' \subseteq Interviews \X Calls
         /\ faults' \in 0..MaxFaults
         /\ faulted' = faulted \cup ids /\ faulted' \subseteq Interviews
<1>1. faults' \in 0..MaxFaults
  BY FaultsAssumption DEF Fault, TypeOK
<1> QED
  BY <1>1 DEF Fault, TypeOK, Calls

\* A fault of one task leaves behind the call it was making.
LEMMA TaskFaulted ==
  ASSUME TypeOK, NEW i \in Interviews, Fault({i}, CallsOf({i}))
  PROVE  /\ \A j \in Interviews, c \in Calls :
              <<j, c>> \in late' <=> <<j, c>> \in late \/ (j = i /\ Making(j, c))
         /\ late' \subseteq Interviews \X Calls
         /\ faults' \in 0..MaxFaults
         /\ faulted' = faulted \cup {i}
<1>1. PICK ids \in SUBSET Interviews : ids = {i}
  OBVIOUS
<1>2. PICK calls \in SUBSET (Interviews \X Calls) : calls = CallsOf(ids)
  BY CallsMade
<1>3. Fault(ids, calls)
  BY <1>1, <1>2
<1>4. \A j \in Interviews, c \in Calls : <<j, c>> \in calls <=> j = i /\ Making(j, c)
  BY <1>1, <1>2, CallsMade
<1>5. late' = late \cup calls /\ late' \subseteq Interviews \X Calls /\ faults' \in 0..MaxFaults
      /\ faulted' = faulted \cup ids
  BY <1>3, Faulted
<1> QED
  BY <1>1, <1>4, <1>5

LEMMA ClaimUnheardStep ==
  ASSUME IndInv, NEW i \in Interviews, ClaimUnheard(i)
  PROVE  IndInv'
<1> USE DEF IndInv, outcomeVars
<1>1. SameStatus /\ TableTyped' /\ UNCHANGED <<ending, up, task, outcomeVars>>
  BY Unchanged DEF ClaimUnheard, TypeOK, TableTyped
<1>2. PICK calls \in SUBSET {<<i, "IN_PROGRESS">>} : Fault({i}, calls)
  BY DEF ClaimUnheard
<1>3. /\ late' = late \cup calls /\ late' \subseteq Interviews \X Calls
      /\ faults' \in 0..MaxFaults
      /\ faulted' = faulted \cup {i} /\ faulted' \subseteq Interviews
  <2>1. PICK ids \in SUBSET Interviews : ids = {i}
    OBVIOUS
  <2>2. calls \in SUBSET (Interviews \X Calls)
    BY DEF Calls
  <2> QED
    BY <1>2, <2>1, <2>2, Faulted
<1>4. claiming' \subseteq claiming /\ claimReply' \subseteq claimReply /\ claimReply \subseteq claimReply' \cup {i}
  BY DEF ClaimUnheard, OneClaim
<1>5. \A j \in Interviews, c \in {"COMPLETED", "FAILED", "transcript", "title"} :
        <<j, c>> \in late' <=> <<j, c>> \in late
  BY <1>3
<1>6. TypeOK'
  BY <1>1, <1>3, <1>4 DEF TypeOK, TableTyped, Calls
<1>7. CompletedHasEpisode' /\ EpisodeInv'
  BY <1>1 DEF SameStatus, CompletedHasEpisode, EpisodeInv
<1>8. OrphansAreFaulted'
  BY <1>1, <1>3, <1>4 DEF SameStatus, OrphansAreFaulted
<1>9. OneClaim' /\ ClaimedInv'
  BY <1>1, <1>4 DEF SameStatus, OneClaim, ClaimedInv
<1>10. LateInv'
  BY <1>1, <1>3, <1>5 DEF LateInv
<1>11. CompletedInv'
  BY <1>1, <1>3 DEF SameStatus, CompletedInv
<1>12. ArchiveInv' /\ ArchivedIsCompleted'
  BY <1>1, <1>5 DEF SameStatus, ArchivedIsCompleted, ArchiveInv, Archived
<1> QED
  BY <1>6, <1>7, <1>8, <1>9, <1>10, <1>11, <1>12

LEMMA StartFailsStep ==
  ASSUME IndInv, NEW i \in Interviews, StartFails(i)
  PROVE  IndInv'
<1> USE DEF IndInv, outcomeVars
<1>1. SameStatus /\ TableTyped'
  BY Unchanged DEF StartFails, TypeOK, TableTyped
<1>2. /\ i \in claimReply /\ claimReply' = {} /\ UNCHANGED <<ending, up, claiming, outcomeVars>>
      /\ task' = [task EXCEPT ![i] = "over"]
  BY DEF StartFails
<1>3. late' = late /\ faults' \in 0..MaxFaults /\ faulted' = faulted \cup {i}
  <2>1. PICK ids \in SUBSET Interviews : ids = {i}
    OBVIOUS
  <2>2. PICK calls \in SUBSET (Interviews \X Calls) : calls = {}
    OBVIOUS
  <2> QED
    BY <2>1, <2>2, Faulted DEF StartFails
<1>4. task[i] = "none" /\ \A j \in claimReply : j = i
  BY <1>2 DEF ClaimedInv, OneClaim
<1>5. ~Archived(i) /\ <<i, "COMPLETED">> \notin late /\ StatusOf(i) # "COMPLETED" /\ i \notin takenBack
  BY <1>4 DEF Archived, ArchiveInv, LateInv, CompletedInv
<1>6. task'[i] = "over" /\ \A j \in Interviews \ {i} : task'[j] = task[j]
  BY <1>2 DEF TypeOK
<1>7. TypeOK'
  BY <1>1, <1>2, <1>3 DEF TypeOK, TableTyped, Stages
<1>8. CompletedHasEpisode' /\ EpisodeInv'
  BY <1>1, <1>2, <1>6 DEF SameStatus, CompletedHasEpisode, EpisodeInv, Stitched
<1>9. OrphansAreFaulted'
  BY <1>1, <1>2, <1>3, <1>4, <1>6 DEF SameStatus, OrphansAreFaulted
<1>10. OneClaim' /\ ClaimedInv'
  BY <1>1, <1>2, <1>6 DEF SameStatus, OneClaim, ClaimedInv
<1>11. LateInv'
  BY <1>2, <1>3, <1>6 DEF LateInv
<1>12. CompletedInv'
  BY <1>1, <1>3, <1>5, <1>6 DEF SameStatus, CompletedInv
<1>13. ArchiveInv' /\ ArchivedIsCompleted'
  BY <1>1, <1>2, <1>3, <1>5, <1>6 DEF SameStatus, ArchiveInv, Archived, ArchivedIsCompleted
<1> QED
  BY <1>7, <1>8, <1>9, <1>10, <1>11, <1>12, <1>13

LEMMA StageFailsStep ==
  ASSUME IndInv, NEW i \in Interviews, StageFails(i)
  PROVE  IndInv'
<1> USE DEF IndInv, StageFails, Goto, outcomeVars, loopVars
<1>1. SameStatus /\ TableTyped'
  BY Unchanged DEF TypeOK, TableTyped
<1>2. /\ \A j \in Interviews, c \in Calls :
          <<j, c>> \in late' <=> <<j, c>> \in late \/ (j = i /\ Making(j, c))
      /\ late' \subseteq Interviews \X Calls
      /\ faults' \in 0..MaxFaults
      /\ faulted' = faulted \cup {i}
  BY TaskFaulted
<1> HIDE DEF Fault
<1>3. TypeOK'
  BY <1>1, <1>2 DEF TypeOK, TableTyped, Stages, Running, Calls
<1>4. CompletedHasEpisode' /\ OrphansAreFaulted'
  BY <1>1, <1>2 DEF TypeOK, SameStatus, CompletedHasEpisode, OrphansAreFaulted, Running
<1>5. OneClaim' /\ ClaimedInv' /\ EpisodeInv'
  BY <1>1 DEF TypeOK, SameStatus, OneClaim, ClaimedInv, EpisodeInv, Stitched
<1>6. LateInv'
  BY <1>2 DEF TypeOK, LateInv, Making, Calls, EpisodeInv, Stitched
<1>7. CompletedInv'
  BY <1>1, <1>2 DEF TypeOK, SameStatus, CompletedInv
<1>8. ArchivedIsCompleted'
  BY <1>1 DEF SameStatus, ArchivedIsCompleted
<1>9. task[i] \in {"stitching", "completing", "acknowledging"}
  BY DEF ClaimedInv
<1>10. ~Archived(i) /\ ~Making(i, "transcript") /\ ~Making(i, "FAILED")
  BY <1>9 DEF Archived, ArchiveInv, Making
<1>11. task'[i] = "failing" /\ \A j \in Interviews \ {i} : task'[j] = task[j]
  BY DEF TypeOK
<1>12. \A j \in Interviews :
         /\ <<j, "transcript">> \in late' => <<j, "transcript">> \in late
         /\ <<j, "FAILED">> \in late' => <<j, "FAILED">> \in late
         /\ <<j, "COMPLETED">> \in late' => <<j, "COMPLETED">> \in late \/ j = i
  BY <1>2, <1>10 DEF Calls
<1>13. ArchiveInv'
  BY <1>1, <1>10, <1>11, <1>12 DEF SameStatus, ArchiveInv, Archived
<1> QED
  BY <1>3, <1>4, <1>5, <1>6, <1>7, <1>8, <1>13

LEMMA FailingFailsStep ==
  ASSUME IndInv, NEW i \in Interviews, FailingFails(i)
  PROVE  IndInv'
<1> USE DEF IndInv, FailingFails, Goto, outcomeVars, loopVars
<1>1. SameStatus /\ TableTyped'
  BY Unchanged DEF TypeOK, TableTyped
<1>2. /\ \A j \in Interviews, c \in Calls :
          <<j, c>> \in late' <=> <<j, c>> \in late \/ (j = i /\ Making(j, c))
      /\ late' \subseteq Interviews \X Calls
      /\ faults' \in 0..MaxFaults
      /\ faulted' = faulted \cup {i}
  BY TaskFaulted
<1> HIDE DEF Fault
<1>3. TypeOK'
  BY <1>1, <1>2 DEF TypeOK, TableTyped, Stages, Running, Calls
<1>4. CompletedHasEpisode' /\ OrphansAreFaulted'
  BY <1>1, <1>2 DEF TypeOK, SameStatus, CompletedHasEpisode, OrphansAreFaulted, Running
<1>5. OneClaim' /\ ClaimedInv' /\ EpisodeInv'
  BY <1>1 DEF TypeOK, SameStatus, OneClaim, ClaimedInv, EpisodeInv, Stitched
<1>6. LateInv'
  BY <1>2 DEF TypeOK, LateInv, Making, Calls, EpisodeInv, Stitched
<1>7. CompletedInv'
  BY <1>1, <1>2 DEF TypeOK, SameStatus, CompletedInv
<1>8. ArchivedIsCompleted'
  BY <1>1 DEF SameStatus, ArchivedIsCompleted
<1>9. /\ task[i] = "failing" /\ task'[i] = "over"
      /\ \A j \in Interviews \ {i} : task'[j] = task[j]
  BY DEF TypeOK
<1>10. ~Archived(i) /\ ~Making(i, "transcript") /\ ~Making(i, "COMPLETED")
  BY <1>9 DEF Archived, ArchiveInv, Making
<1>11. \A j \in Interviews :
         /\ <<j, "transcript">> \in late' => <<j, "transcript">> \in late
         /\ <<j, "COMPLETED">> \in late' => <<j, "COMPLETED">> \in late
         /\ <<j, "FAILED">> \in late' => <<j, "FAILED">> \in late \/ j = i
  BY <1>2, <1>10 DEF Calls
<1>12. ArchiveInv'
  BY <1>1, <1>9, <1>10, <1>11 DEF SameStatus, ArchiveInv, Archived
<1> QED
  BY <1>3, <1>4, <1>5, <1>6, <1>7, <1>8, <1>12

LEMMA BestEffortFailsStep ==
  ASSUME IndInv, NEW i \in Interviews, BestEffortFails(i)
  PROVE  IndInv'
<1> USE DEF IndInv, BestEffortFails, Goto, outcomeVars, loopVars
<1>1. SameStatus /\ TableTyped'
  BY Unchanged DEF TypeOK, TableTyped
<1>2. /\ \A j \in Interviews, c \in Calls :
          <<j, c>> \in late' <=> <<j, c>> \in late \/ (j = i /\ Making(j, c))
      /\ late' \subseteq Interviews \X Calls
      /\ faults' \in 0..MaxFaults
      /\ faulted' = faulted \cup {i}
  BY TaskFaulted
<1> HIDE DEF Fault
<1>3. TypeOK'
  BY <1>1, <1>2 DEF TypeOK, TableTyped, Stages, Running, Calls
<1>4. CompletedHasEpisode' /\ OrphansAreFaulted'
  BY <1>1, <1>2 DEF TypeOK, SameStatus, CompletedHasEpisode, OrphansAreFaulted, Running
<1>5. OneClaim' /\ ClaimedInv' /\ EpisodeInv'
  BY <1>1 DEF TypeOK, SameStatus, OneClaim, ClaimedInv, EpisodeInv, Stitched
<1>6. LateInv'
  BY <1>2 DEF TypeOK, LateInv, Making, Calls, EpisodeInv, Stitched
<1>7. CompletedInv'
  BY <1>1, <1>2 DEF TypeOK, SameStatus, CompletedInv
<1>8. ArchiveInv' /\ ArchivedIsCompleted'
  <2>1. task[i] \in {"reading", "archiving", "titling"} /\ task'[i] \in {"titling", "over"}
    BY DEF TypeOK
  <2>2. Archived(i) /\ ~Making(i, "FAILED") /\ ~Making(i, "COMPLETED")
    BY <2>1 DEF Archived, Making
  <2>3. \A j \in Interviews : Archived(j)' => Archived(j)
    BY <1>2, <2>1, <2>2 DEF TypeOK, Archived, Making, Calls
  <2>4. \A j \in Interviews, c \in {"FAILED", "COMPLETED"} : <<j, c>> \in late' => <<j, c>> \in late
    BY <1>2, <2>2 DEF Calls
  <2>5. \A j \in Interviews \ {i} : task'[j] = task[j]
    BY DEF TypeOK
  <2>6. \A j \in Interviews : task'[j] = "archiving" => task[j] = "archiving"
    BY <2>1, <2>5
  <2>7. ArchiveInv'
    BY <1>1, <2>1, <2>3, <2>4, <2>5, <2>6 DEF SameStatus, ArchiveInv
  <2> QED
    BY <1>1, <2>7 DEF SameStatus, ArchivedIsCompleted
<1> QED
  BY <1>3, <1>4, <1>5, <1>6, <1>7, <1>8

\* The calls that arrive late, the crash and the restart.

LEMMA ArriveTyped ==
  ASSUME TypeOK, NEW i \in Interviews, NEW call, Arrive(i, call), TableTyped',
         transcript' \in [Interviews -> Statuses \cup {"none"}], titled' \subseteq Interviews
  PROVE  TypeOK'
BY DEF TypeOK, TableTyped, Arrive, loopVars

LEMMA LateCompletedStep ==
  ASSUME IndInv, NEW i \in Interviews, LateStatus(i, "COMPLETED")
  PROVE  IndInv'
<1> USE DEF IndInv, LateStatus, Arrive, loopVars
<1>1. Becomes(i, "COMPLETED") /\ StatusOf(i) # "none" /\ TableTyped'
  BY Changed DEF TypeOK, TableTyped, Statuses, Store!Done
<1>2. TypeOK'
  BY <1>1, ArriveTyped DEF TypeOK
<1>3. i \in episodes /\ i \in faulted /\ task[i] \in {"failing", "over", "lost"}
  BY DEF LateInv
<1>4. CompletedHasEpisode' /\ OrphansAreFaulted' /\ EpisodeInv'
  BY <1>1, <1>3 DEF Becomes, CompletedHasEpisode, OrphansAreFaulted, EpisodeInv
<1>5. OneClaim' /\ ClaimedInv' /\ LateInv'
  BY <1>1 DEF Becomes, OneClaim, ClaimedInv, LateInv
<1>6. CompletedInv'
  BY <1>1, <1>3 DEF Becomes, CompletedInv
<1>7. ArchiveInv' /\ ArchivedIsCompleted'
  BY <1>1 DEF Becomes, ArchiveInv, Archived, ArchivedIsCompleted
<1> QED
  BY <1>2, <1>4, <1>5, <1>6, <1>7

LEMMA LateFailedStep ==
  ASSUME IndInv, NEW i \in Interviews, LateStatus(i, "FAILED")
  PROVE  IndInv'
<1> USE DEF IndInv, LateStatus, Arrive, loopVars
<1>1. Becomes(i, "FAILED") /\ StatusOf(i) # "none" /\ TableTyped'
  BY Changed DEF TypeOK, TableTyped, Statuses, Store!Done
<1>2. TypeOK'
  BY <1>1, ArriveTyped DEF TypeOK
<1>3. task[i] \in {"over", "lost"} /\ ~Archived(i)
  BY DEF LateInv, ArchiveInv
<1>4. CompletedHasEpisode' /\ OrphansAreFaulted' /\ EpisodeInv'
  BY <1>1 DEF Becomes, CompletedHasEpisode, OrphansAreFaulted, EpisodeInv
<1>5. OneClaim' /\ ClaimedInv' /\ LateInv'
  BY <1>1 DEF Becomes, OneClaim, ClaimedInv, LateInv
<1>6. CompletedInv'
  BY <1>1, <1>3 DEF Becomes, CompletedInv
<1>7. ArchiveInv' /\ ArchivedIsCompleted'
  BY <1>1, <1>3 DEF Becomes, ArchiveInv, Archived, ArchivedIsCompleted
<1> QED
  BY <1>2, <1>4, <1>5, <1>6, <1>7

LEMMA LateClaimStep ==
  ASSUME IndInv, NEW i \in Interviews, LateStatus(i, "IN_PROGRESS")
  PROVE  IndInv'
<1> USE DEF IndInv, LateStatus, Arrive, loopVars
<1>1. Becomes(i, "IN_PROGRESS") /\ StatusOf(i) # "none" /\ TableTyped'
  BY Changed DEF TypeOK, TableTyped, Statuses, Store!Live
<1>2. TypeOK'
  BY <1>1, ArriveTyped DEF TypeOK
<1>3. i \in faulted
  BY DEF LateInv
<1>4. CompletedHasEpisode' /\ OrphansAreFaulted' /\ EpisodeInv'
  BY <1>1, <1>3 DEF Becomes, CompletedHasEpisode, OrphansAreFaulted, EpisodeInv
<1>5. OneClaim' /\ ClaimedInv' /\ LateInv'
  BY <1>1 DEF Becomes, OneClaim, ClaimedInv, LateInv
<1>6. CompletedInv'
  BY <1>1, <1>3 DEF Becomes, CompletedInv
<1>7. ArchiveInv' /\ ArchivedIsCompleted'
  BY <1>1 DEF Becomes, ArchiveInv, Archived, ArchivedIsCompleted
<1> QED
  BY <1>2, <1>4, <1>5, <1>6, <1>7

LEMMA LateTranscriptStep ==
  ASSUME IndInv, NEW i \in Interviews, LateTranscript(i)
  PROVE  IndInv'
<1> USE DEF IndInv, LateTranscript, Arrive, loopVars
<1>1. SameStatus /\ TableTyped'
  BY Unchanged DEF TypeOK, TableTyped
<1>2. TypeOK'
  BY <1>1, ArriveTyped, StatusTyped DEF TypeOK, TableTyped
<1>3. Archived(i) /\ (StatusOf(i) = "COMPLETED" <=> i \notin takenBack)
  BY DEF Archived, ArchiveInv
<1>4. CompletedHasEpisode' /\ OrphansAreFaulted' /\ EpisodeInv'
  BY <1>1 DEF SameStatus, CompletedHasEpisode, OrphansAreFaulted, EpisodeInv
<1>5. OneClaim' /\ ClaimedInv' /\ LateInv' /\ CompletedInv'
  BY <1>1 DEF SameStatus, OneClaim, ClaimedInv, LateInv, CompletedInv
<1>6. transcript'[i] = StatusOf(i) /\ \A j \in Interviews \ {i} : transcript'[j] = transcript[j]
  BY DEF TypeOK
<1>7. ArchivedIsCompleted'
  BY <1>1, <1>3, <1>6 DEF SameStatus, ArchivedIsCompleted
<1>8. \A j \in Interviews : Archived(j)' => Archived(j)
  BY <1>3, <1>6 DEF Archived
<1>9. ArchiveInv'
  BY <1>1, <1>8 DEF SameStatus, ArchiveInv
<1> QED
  BY <1>2, <1>4, <1>5, <1>7, <1>9

LEMMA LateTitleStep ==
  ASSUME IndInv, NEW i \in Interviews, LateTitle(i)
  PROVE  IndInv'
<1> USE DEF IndInv, LateTitle, Arrive, loopVars
<1>1. SameStatus /\ TableTyped'
  BY Unchanged DEF TypeOK, TableTyped
<1>2. TypeOK'
  BY <1>1, ArriveTyped DEF TypeOK
<1>3. CompletedHasEpisode' /\ OrphansAreFaulted' /\ EpisodeInv'
  BY <1>1 DEF SameStatus, CompletedHasEpisode, OrphansAreFaulted, EpisodeInv
<1>4. OneClaim' /\ ClaimedInv' /\ LateInv' /\ CompletedInv'
  BY <1>1 DEF SameStatus, OneClaim, ClaimedInv, LateInv, CompletedInv
<1>5. ArchiveInv' /\ ArchivedIsCompleted'
  BY <1>1 DEF SameStatus, ArchiveInv, Archived, ArchivedIsCompleted
<1> QED
  BY <1>2, <1>3, <1>4, <1>5

LEMMA CrashStep ==
  ASSUME IndInv, Crash
  PROVE  IndInv'
<1> USE DEF IndInv
<1>1. PICK ids \in SUBSET Interviews : ids = {i \in Interviews : task[i] \in Running}
  OBVIOUS
<1>2. PICK hit \in SUBSET Interviews : hit = claiming \cup claimReply \cup ids
  BY DEF TypeOK
<1>3. CallsOf(ids) \subseteq Interviews \X Calls
  BY CallsMade
<1>4. claiming \X {"IN_PROGRESS"} \subseteq Interviews \X Calls
  BY DEF TypeOK, Calls
<1>5. PICK calls \in SUBSET (Interviews \X Calls) :
        calls = (claiming \X {"IN_PROGRESS"}) \cup CallsOf(ids)
  BY <1>3, <1>4
<1>6. Fault(hit, calls)
  BY <1>1, <1>2, <1>5 DEF Crash
<1>7. /\ up' = FALSE /\ claiming' = {} /\ claimReply' = {}
      /\ task' = [i \in Interviews |-> IF task[i] \in Running THEN "lost" ELSE task[i]]
      /\ UNCHANGED <<storeVars, ending, outcomeVars>>
  BY DEF Crash
<1>8. SameStatus /\ TableTyped'
  BY <1>7, Unchanged DEF TypeOK, TableTyped
<1>9. /\ late' = late \cup calls /\ late' \subseteq Interviews \X Calls
      /\ faults' \in 0..MaxFaults
      /\ faulted' = faulted \cup hit /\ faulted' \subseteq Interviews
  BY <1>6, Faulted
<1>10. \A j \in Interviews, c \in Calls :
        <<j, c>> \in calls => j \in hit /\ (Making(j, c) \/ c = "IN_PROGRESS")
  BY <1>1, <1>2, <1>5, CallsMade
<1>11. \A j \in Interviews :
         \/ task[j] \in Running /\ task'[j] = "lost" /\ j \in hit
         \/ task[j] \notin Running /\ task'[j] = task[j]
  BY <1>1, <1>2, <1>7
<1>12. TypeOK'
  BY <1>7, <1>8, <1>9 DEF TypeOK, TableTyped, Calls, outcomeVars, Stages
<1>13. CompletedHasEpisode' /\ EpisodeInv'
  BY <1>7, <1>8, <1>11
    DEF SameStatus, CompletedHasEpisode, EpisodeInv, Stitched, Running, outcomeVars
<1>14. OrphansAreFaulted'
  BY <1>1, <1>2, <1>8, <1>9, <1>11 DEF SameStatus, OrphansAreFaulted
<1>15. OneClaim' /\ ClaimedInv'
  BY <1>7, <1>8, <1>11 DEF SameStatus, OneClaim, ClaimedInv, Running
<1>16. LateInv'
  <2>1. ASSUME NEW j \in Interviews, NEW c \in Calls, <<j, c>> \in late'
        PROVE  /\ j \in faulted'
               /\ c = "COMPLETED" => j \in episodes' /\ task'[j] \in {"failing", "over", "lost"}
               /\ c = "FAILED" => task'[j] \in {"over", "lost"}
    <3>1. CASE <<j, c>> \in late
      BY <3>1, <1>7, <1>9, <1>11 DEF LateInv, Calls, Running, outcomeVars
    <3>2. CASE <<j, c>> \in calls
      BY <3>2, <1>7, <1>9, <1>10, <1>11
        DEF EpisodeInv, Stitched, Making, Calls, Running, outcomeVars
    <3> QED
      BY <2>1, <3>1, <3>2, <1>9
  <2> QED
    BY <2>1 DEF LateInv, Calls
<1>17. CompletedInv'
  BY <1>8, <1>9, <1>11 DEF SameStatus, CompletedInv, Running
<1>18. \A j \in Interviews :
         Archived(j)' => /\ Archived(j)
                         /\ <<j, "FAILED">> \notin late' /\ <<j, "COMPLETED">> \notin late'
  BY <1>7, <1>9, <1>10, <1>11 DEF Archived, ArchiveInv, Making, Calls, Running, outcomeVars
<1>19. ArchiveInv'
  BY <1>7, <1>8, <1>11, <1>18 DEF SameStatus, ArchiveInv, Running
<1>20. ArchivedIsCompleted'
  BY <1>7, <1>8 DEF SameStatus, ArchivedIsCompleted, outcomeVars
<1> QED
  BY <1>12, <1>13, <1>14, <1>15, <1>16, <1>17, <1>19, <1>20

LEMMA RestStep ==
  ASSUME IndInv, Restart \/ UNCHANGED vars
  PROVE  IndInv'
<1> USE DEF IndInv, Restart, vars, outcomeVars, faultVars, loopVars
<1>1. SameStatus /\ TableTyped'
  BY Unchanged DEF TypeOK, TableTyped, storeVars
<1>2. TypeOK'
  BY <1>1 DEF TypeOK, TableTyped
<1> QED
  BY <1>1, <1>2 DEF SameStatus, CompletedHasEpisode, ArchivedIsCompleted, OrphansAreFaulted,
     OneClaim, ClaimedInv, EpisodeInv, LateInv, CompletedInv, ArchiveInv, Archived

LEMMA NextInd == IndInv /\ [Next]_vars => IndInv'
<1> SUFFICES ASSUME IndInv, [Next]_vars PROVE IndInv'
  OBVIOUS
<1>1. ASSUME NEW i \in Interviews, TaskStep(i) PROVE IndInv'
  BY <1>1, TalkStep, TalkFailsStep, StitchStep, SetCompletedStep, AcknowledgedStep, SetFailedStep,
     ReadForTranscriptStep, StoreTranscriptStep, SaveTitleStep DEF TaskStep
<1>2. ASSUME NEW i \in Interviews,
             \/ ClaimUnheard(i) \/ StartFails(i) \/ StageFails(i) \/ FailingFails(i)
             \/ BestEffortFails(i)
      PROVE  IndInv'
  BY <1>2, ClaimUnheardStep, StartFailsStep, StageFailsStep, FailingFailsStep, BestEffortFailsStep
<1>3. ASSUME NEW i \in Interviews,
             \/ \E st \in {"IN_PROGRESS", "COMPLETED", "FAILED"} : LateStatus(i, st)
             \/ LateTranscript(i) \/ LateTitle(i)
      PROVE  IndInv'
  BY <1>3, LateClaimStep, LateCompletedStep, LateFailedStep, LateTranscriptStep, LateTitleStep
<1> QED
  BY <1>1, <1>2, <1>3, RequestStep, FindStep, EndStep, ClaimStep,
     CommitClaimStep, StartStep, CrashStep, RestStep DEF Next

\* A step that takes COMPLETED back is an answer to a fault, or an end from
\* outside whose handler found the interview live.
LEMMA CompletedStep ==
  ASSUME IndInv, [Next]_vars, NEW j \in Interviews, StatusOf(j) = "COMPLETED"
  PROVE  StatusOf(j)' = "COMPLETED" \/ j \in faulted \/ ending[j] = "live"
<1> TableTyped
  BY DEF IndInv, TypeOK, TableTyped
<1>1. CASE UNCHANGED storeVars
  BY <1>1, Unchanged DEF SameStatus
<1>2. ASSUME NEW i \in Interviews, NEW a \in Agents, RequestInterview(i, a)
      PROVE  StatusOf(j)' = "COMPLETED"
  BY <1>2, Requested DEF RequestInterview, Becomes
<1>3. ASSUME NEW i \in Interviews, NEW st \in Statuses, SetStatus(i, st),
             i = j /\ st # "COMPLETED" => j \in faulted \/ ending[j] = "live"
      PROVE  StatusOf(j)' = "COMPLETED" \/ j \in faulted \/ ending[j] = "live"
  BY <1>3, Changed DEF Becomes
<1>4. ASSUME NEW i \in Interviews, End(i) \/ ClearStuck(i)
      PROVE  StatusOf(j)' = "COMPLETED" \/ j \in faulted \/ ending[j] = "live"
  BY <1>4, <1>3 DEF End, ClearStuck, IndInv, TypeOK, Statuses, Store!Done, Store!Live
<1>5. ASSUME NEW i \in Interviews, CommitClaim(i)
      PROVE  StatusOf(j)' = "COMPLETED" \/ j \in faulted \/ ending[j] = "live"
  BY <1>5, <1>3 DEF CommitClaim, IndInv, CompletedInv, ClaimedInv, Statuses, Store!Live
<1>6. ASSUME NEW i \in Interviews, SetCompleted(i) \/ SetFailed(i)
      PROVE  StatusOf(j)' = "COMPLETED" \/ j \in faulted \/ ending[j] = "live"
  BY <1>6, <1>3
    DEF SetCompleted, SetFailed, Goto, IndInv, CompletedInv, Statuses, Store!Done
<1>7. ASSUME NEW i \in Interviews, NEW st \in {"IN_PROGRESS", "COMPLETED", "FAILED"}, LateStatus(i, st)
      PROVE  StatusOf(j)' = "COMPLETED" \/ j \in faulted \/ ending[j] = "live"
  BY <1>7, <1>3 DEF LateStatus, Arrive, IndInv, LateInv, Statuses, Store!Done, Store!Live
<1>8. \/ UNCHANGED storeVars
      \/ \E i \in Interviews :
           \/ \E a \in Agents : RequestInterview(i, a)
           \/ End(i) \/ ClearStuck(i) \/ CommitClaim(i)
           \/ SetCompleted(i) \/ SetFailed(i)
           \/ \E st \in {"IN_PROGRESS", "COMPLETED", "FAILED"} : LateStatus(i, st)
  BY DEF Next, vars, TaskStep, FindLive, Claim, StartTask, Talk, TalkFails, Stitch, Acknowledged,
     ReadForTranscript, StoreTranscript, SaveTitle, ClaimUnheard, StartFails, StageFails,
     FailingFails, BestEffortFails, LateTranscript, LateTitle, Crash, Restart
<1> QED
  BY <1>1, <1>2, <1>4, <1>5, <1>6, <1>7, <1>8

-----------------------------------------------------------------------------
(* The theorems. *)

\* The invariant of the host service, its type included.
THEOREM Invariance == Spec => []IndInv
<1> QED
  BY InitInd, NextInd, PTL DEF Spec

\* Whatever fails, an interview that is COMPLETED has its audio file on the
\* disk: task.stitch comes before the status in run_poll_interview.
THEOREM EpisodesAreThere == Spec => []CompletedHasEpisode
<1>1. IndInv => CompletedHasEpisode
  BY DEF IndInv
<1> QED
  BY <1>1, Invariance, PTL

\* A stored transcript says COMPLETED and its interview is so, unless that has
\* been taken back, and then for good.
THEOREM TranscriptsAreFinal == Spec => []ArchivedIsCompleted
<1>1. IndInv => ArchivedIsCompleted
  BY DEF IndInv
<1> QED
  BY <1>1, Invariance, PTL

\* Only a crash or a lost call leaves an interview IN_PROGRESS without a task.
THEOREM OrphansMetAFault == Spec => []OrphansAreFaulted
<1>1. IndInv => OrphansAreFaulted
  BY DEF IndInv
<1> QED
  BY <1>1, Invariance, PTL

\* COMPLETED is taken back only where a fault has hit the interview or an end
\* from outside was under way that had found it live.
THEOREM CompletedIsKept == Spec => CompletedStays
<1>1. IndInv /\ [Next]_vars =>
        [\A i \in Interviews :
           StatusOf(i) = "COMPLETED" /\ StatusOf(i)' # "COMPLETED" =>
             i \in faulted \/ ending[i] = "live"]_vars
  BY CompletedStep
<1> QED
  BY <1>1, Invariance, PTL DEF Spec, CompletedStays
=============================================================================
