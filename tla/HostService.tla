---------------------------- MODULE HostService -----------------------------
(***************************************************************************)
(* The Pipecat host as a whole: the polling loop of pipecat_host           *)
(* /__main__.py, which claims interviews and runs each in a task of its    *)
(* own, the stages of such a task (run_poll_interview of workflow.py), the *)
(* transcripts the backend builds for it, and what is left behind when the *)
(* host crashes or one of its calls to the backend is lost.                *)
(*                                                                         *)
(* The table is that of AtomicInterviews.  A claim, and an end by somebody *)
(* else than the host, reads a row first and writes it later by its key,   *)
(* whatever has become of it: these are two steps here as in Interviews.   *)
(* What happens inside the stage "talking" is the subject of Conversation. *)
(***************************************************************************)
EXTENDS Naturals

CONSTANTS
  Agents,
  Interviews,
  MaxFaults     \* bound on the crashes and the calls that fail

ASSUME FaultsAssumption == MaxFaults \in Nat

VARIABLES
  interview, older,   \* the table of interviews
  takenBack,          \* history: the interviews that were COMPLETED and then not
  ending,             \* the status in which somebody found it who then ends it
  up,                 \* is the host process running?
  claiming,           \* the interview that the loop's claim has read
  claimReply,         \* the interview of a claim whose reply is on its way
  task,               \* the stage of each interview's task
  episodes,           \* interviews whose audio file is on the disk
  snapshot,           \* the status a transcript being built has read
  transcript,         \* the status in the stored transcript
  titled,             \* interviews with a title and an episode path
  late,               \* calls to the backend whose reply nobody waits for
  faults,             \* number of faults so far
  faulted             \* history: the interviews that met with a fault

storeVars == <<interview, older, takenBack>>
loopVars == <<up, claiming, claimReply>>
outcomeVars == <<episodes, snapshot, transcript, titled>>
faultVars == <<late, faults, faulted>>
vars == <<storeVars, ending, loopVars, task, outcomeVars, faultVars>>

Store == INSTANCE AtomicInterviews

Statuses == Store!Live \cup Store!Done

\* "lost" is a task that died with the process; "over", one that ended.
Running == {"talking", "stitching", "completing", "acknowledging", "failing",
            "reading", "archiving", "titling"}
Stages == Running \cup {"none", "over", "lost"}

\* The call to the backend that a task is making.
CallOf == [completing |-> "COMPLETED", failing |-> "FAILED",
           reading |-> "transcript", archiving |-> "transcript", titling |-> "title"]

CallsOf(ids) == {<<i, CallOf[task[i]]>> : i \in {j \in ids : task[j] \in DOMAIN CallOf}}

StatusOf(i) == IF i \in Store!Existing THEN interview[i].status ELSE "none"

NextInQueue(i) == i \in Store!Queued /\ \A j \in Store!Queued : <<j, i>> \notin older

\* UPDATE interviews SET status = st WHERE interview_id = i.
SetStatus(i, st) ==
  /\ i \in Store!Existing
  /\ Store!Set({i}, st)
  /\ takenBack' = IF StatusOf(i) = "COMPLETED" /\ st # "COMPLETED"
                   THEN takenBack \cup {i} ELSE takenBack

TypeOK ==
  /\ DOMAIN interview \subseteq Interviews
  /\ interview \in [DOMAIN interview -> [agent: Agents, status: Statuses]]
  /\ older \subseteq Interviews \X Interviews
  /\ takenBack \subseteq Interviews
  /\ ending \in [Interviews -> {"none", "live"}]
  /\ up \in BOOLEAN
  /\ claiming \subseteq Interviews /\ claimReply \subseteq Interviews
  /\ task \in [Interviews -> Stages]
  /\ episodes \subseteq Interviews /\ titled \subseteq Interviews
  /\ snapshot \in [Interviews -> Statuses \cup {"none"}]
  /\ transcript \in [Interviews -> Statuses \cup {"none"}]
  /\ late \subseteq Interviews \X {"IN_PROGRESS", "COMPLETED", "FAILED", "transcript", "title"}
  /\ faults \in 0..MaxFaults
  /\ faulted \subseteq Interviews

Init ==
  /\ Store!Init
  /\ takenBack = {}
  /\ ending = [i \in Interviews |-> "none"]
  /\ up = TRUE
  /\ claiming = {} /\ claimReply = {}
  /\ task = [i \in Interviews |-> "none"]
  /\ episodes = {} /\ titled = {}
  /\ snapshot = [i \in Interviews |-> "none"]
  /\ transcript = [i \in Interviews |-> "none"]
  /\ late = {}
  /\ faults = 0
  /\ faulted = {}

-----------------------------------------------------------------------------
(* Clients of the backend. *)

RequestInterview(i, a) ==
  /\ Store!Request(i, a)
  /\ UNCHANGED <<takenBack, ending, loopVars, task, outcomeVars, faultVars>>

Found(i) == IF StatusOf(i) \in Store!Live THEN "live" ELSE "finished"

\* Fault: an interview that is over is ended too.
FindAny(i) ==
  /\ ending[i] = "none"
  /\ ending' = [ending EXCEPT ![i] = Found(i)]
  /\ UNCHANGED <<storeVars, loopVars, task, outcomeVars, faultVars>>

\* The agent abandons it, or run_podcast.sh cancels it as stale: the handler
\* finds it live ...
FindLive(i) ==
  /\ StatusOf(i) \in Store!Live
  /\ ending[i] = "none"
  /\ ending' = [ending EXCEPT ![i] = Found(i)]
  /\ UNCHANGED <<storeVars, loopVars, task, outcomeVars, faultVars>>

\* ... and commits FAILED, without another look at it.  The host is not told.
\* Other handlers may have found it live too and still be on their way.
End(i) ==
  /\ ending[i] # "none"
  /\ SetStatus(i, "FAILED")
  /\ UNCHANGED <<ending, loopVars, task, outcomeVars, faultVars>>

\* The operator fails it by hand, which is one statement.
ClearStuck(i) ==
  /\ StatusOf(i) \in Store!Live
  /\ SetStatus(i, "FAILED")
  /\ UNCHANGED <<ending, loopVars, task, outcomeVars, faultVars>>

(* The polling loop. *)

\* Fault: the loop claims nothing while a task is running.
ClaimWhenAllOver(i) ==
  /\ up /\ claiming = {} /\ claimReply = {}
  /\ \A j \in Interviews : task[j] \in {"none", "over"}
  /\ NextInQueue(i)
  /\ claiming' = {i}
  /\ UNCHANGED <<storeVars, ending, up, claimReply, task, outcomeVars, faultVars>>

\* Fault: the loop claims again before it has the reply.
ClaimAhead(i) ==
  /\ up /\ claiming = {}
  /\ NextInQueue(i)
  /\ claiming' = {i}
  /\ UNCHANGED <<storeVars, ending, up, claimReply, task, outcomeVars, faultVars>>

\* GET /claim reads the oldest QUEUED row ...
Claim(i) ==
  /\ up /\ claiming = {} /\ claimReply = {}
  /\ NextInQueue(i)
  /\ claiming' = {i}
  /\ UNCHANGED <<storeVars, ending, up, claimReply, task, outcomeVars, faultVars>>

\* ... and commits IN_PROGRESS, though it may have been ended meanwhile.
CommitClaim(i) ==
  /\ i \in claiming
  /\ SetStatus(i, "IN_PROGRESS")
  /\ claiming' = {} /\ claimReply' = {i}
  /\ UNCHANGED <<ending, up, task, outcomeVars, faultVars>>

StartTask(i) ==
  /\ i \in claimReply
  /\ claimReply' = {}
  /\ task' = [task EXCEPT ![i] = "talking"]
  /\ UNCHANGED <<storeVars, ending, up, claiming, outcomeVars, faultVars>>

(* A task. *)

Goto(i, from, to) ==
  /\ task[i] = from
  /\ task' = [task EXCEPT ![i] = to]
  /\ UNCHANGED <<ending, loopVars>>

\* The host has heard an answer to its last question ...
Talk(i) ==
  /\ Goto(i, "talking", "stitching")
  /\ UNCHANGED <<storeVars, outcomeVars, faultVars>>

\* ... or InterviewTimeoutError, or any other exception.
TalkFails(i) ==
  /\ Goto(i, "talking", "failing")
  /\ UNCHANGED <<storeVars, outcomeVars, faultVars>>

\* Fault: the status is set before the audio is there.
StitchLater(i) ==
  /\ Goto(i, "stitching", "completing")
  /\ UNCHANGED <<storeVars, outcomeVars, faultVars>>

Stitch(i) ==
  /\ Goto(i, "stitching", "completing")
  /\ episodes' = episodes \cup {i}
  /\ UNCHANGED <<storeVars, snapshot, transcript, titled, faultVars>>

\* Fault: the transcript is asked for and the status forgotten.
StatusForgotten(i) ==
  /\ Goto(i, "completing", "reading")
  /\ UNCHANGED <<storeVars, outcomeVars, faultVars>>

\* PATCH .../status COMPLETED in the backend, and its reply.
SetCompleted(i) ==
  /\ Goto(i, "completing", "acknowledging")
  /\ SetStatus(i, "COMPLETED")
  /\ UNCHANGED <<outcomeVars, faultVars>>

\* Fault: the task returns as soon as the status is COMPLETED.
AcknowledgedIsTheEnd(i) ==
  /\ Goto(i, "acknowledging", "over")
  /\ UNCHANGED <<storeVars, outcomeVars, faultVars>>

Acknowledged(i) ==
  /\ Goto(i, "acknowledging", "reading")
  /\ UNCHANGED <<storeVars, outcomeVars, faultVars>>

\* Fault: the exception is logged and the status left alone.
FailSilently(i) ==
  /\ Goto(i, "failing", "over")
  /\ UNCHANGED <<storeVars, outcomeVars, faultVars>>

\* The except clauses: PATCH .../status FAILED, whatever the status is.
SetFailed(i) ==
  /\ Goto(i, "failing", "over")
  /\ SetStatus(i, "FAILED")
  /\ UNCHANGED <<outcomeVars, faultVars>>

\* POST /v1/transcript/build reads the interview and its messages ...
ReadForTranscript(i) ==
  /\ Goto(i, "reading", "archiving")
  /\ snapshot' = [snapshot EXCEPT ![i] = StatusOf(i)]
  /\ UNCHANGED <<storeVars, episodes, transcript, titled, faultVars>>

\* ... and inserts or updates the transcript.
StoreTranscript(i) ==
  /\ Goto(i, "archiving", "titling")
  /\ transcript' = [transcript EXCEPT ![i] = snapshot[i]]
  /\ snapshot' = [snapshot EXCEPT ![i] = "none"]
  /\ UNCHANGED <<storeVars, episodes, titled, faultVars>>

\* PATCH .../metadata: the title and the path of the audio file.
SaveTitle(i) ==
  /\ Goto(i, "titling", "over")
  /\ titled' = titled \cup {i}
  /\ UNCHANGED <<storeVars, episodes, snapshot, transcript, faultVars>>

(* Faults.  A client that gives up after ten seconds does not stop the       *)
(* handler: the backend may still do what it was asked to, at any time later. *)

Fault(ids, calls) ==
  /\ faults < MaxFaults
  /\ faults' = faults + 1
  /\ faulted' = faulted \cup ids
  /\ late' = late \cup calls

\* The reply of a claim does not reach a host that listens: the loop logs the
\* exception, if it is up, and goes on polling.  The handler may have committed,
\* may have read the row or may be about to.
ClaimUnheard(i) ==
  /\ \/ /\ i \in claimReply
        /\ claimReply' = {}
        /\ UNCHANGED claiming
        /\ Fault({i}, {})
     \/ /\ i \in claiming
        /\ claiming' = {}
        /\ UNCHANGED claimReply
        /\ Fault({i}, {<<i, "IN_PROGRESS">>})
     \/ /\ NextInQueue(i)
        /\ UNCHANGED <<claiming, claimReply>>
        /\ Fault({i}, {<<i, "IN_PROGRESS">>})
  /\ UNCHANGED <<storeVars, ending, up, task, outcomeVars>>

\* HostAgent() raises before the task has come to its try: the exception ends
\* the task and nobody sets a status.
StartFails(i) ==
  /\ i \in claimReply
  /\ claimReply' = {}
  /\ task' = [task EXCEPT ![i] = "over"]
  /\ Fault({i}, {})
  /\ UNCHANGED <<storeVars, ending, up, claiming, outcomeVars>>

\* Stitching raises, PATCH COMPLETED does not get through or its reply does
\* not come back: each is an exception that the except clause answers with
\* FAILED.
StageFails(i) ==
  /\ \/ Goto(i, "stitching", "failing")
     \/ Goto(i, "completing", "failing")
     \/ Goto(i, "acknowledging", "failing")
  /\ Fault({i}, CallsOf({i}))
  /\ UNCHANGED <<storeVars, outcomeVars>>

\* PATCH FAILED does not get through either: the exception ends the task.
FailingFails(i) ==
  /\ Goto(i, "failing", "over")
  /\ Fault({i}, CallsOf({i}))
  /\ UNCHANGED <<storeVars, outcomeVars>>

\* Transcript and title are best effort: the task goes on.
BestEffortFails(i) ==
  /\ \/ Goto(i, "reading", "titling")
     \/ Goto(i, "archiving", "titling")
     \/ Goto(i, "titling", "over")
  /\ Fault({i}, CallsOf({i}))
  /\ UNCHANGED <<storeVars, outcomeVars>>

Arrive(i, call) ==
  /\ <<i, call>> \in late
  /\ late' = late \ {<<i, call>>}
  /\ UNCHANGED <<ending, loopVars, task, episodes, snapshot, faults, faulted>>

LateStatus(i, st) ==
  /\ Arrive(i, st)
  /\ SetStatus(i, st)
  /\ UNCHANGED <<transcript, titled>>

LateTranscript(i) ==
  /\ Arrive(i, "transcript")
  /\ transcript' = [transcript EXCEPT ![i] = StatusOf(i)]
  /\ UNCHANGED <<storeVars, titled>>

LateTitle(i) ==
  /\ Arrive(i, "title")
  /\ titled' = titled \cup {i}
  /\ UNCHANGED <<storeVars, transcript>>

\* The container dies with all its tasks, and docker starts it again.
\* Nothing of what was in progress is looked for after that.
Crash ==
  /\ up
  /\ up' = FALSE
  /\ claiming' = {} /\ claimReply' = {}
  /\ task' = [i \in Interviews |-> IF task[i] \in Running THEN "lost" ELSE task[i]]
  /\ LET ids == {i \in Interviews : task[i] \in Running}
     IN  Fault(claiming \cup claimReply \cup ids,
               (claiming \X {"IN_PROGRESS"}) \cup CallsOf(ids))
  /\ UNCHANGED <<storeVars, ending, outcomeVars>>

Restart ==
  /\ ~up
  /\ up' = TRUE
  /\ UNCHANGED <<storeVars, ending, claiming, claimReply, task, outcomeVars, faultVars>>

-----------------------------------------------------------------------------
TaskStep(i) ==
  \/ Talk(i) \/ TalkFails(i) \/ Stitch(i)
  \/ SetCompleted(i) \/ Acknowledged(i) \/ SetFailed(i)
  \/ ReadForTranscript(i) \/ StoreTranscript(i) \/ SaveTitle(i)

Next ==
  \/ \E i \in Interviews :
       \/ \E a \in Agents : RequestInterview(i, a)
       \/ FindLive(i) \/ End(i) \/ ClearStuck(i)
       \/ Claim(i) \/ CommitClaim(i)
       \/ StartTask(i)
       \/ TaskStep(i)
       \/ ClaimUnheard(i) \/ StartFails(i) \/ StageFails(i) \/ FailingFails(i) \/ BestEffortFails(i)
       \/ \E st \in {"IN_PROGRESS", "COMPLETED", "FAILED"} : LateStatus(i, st)
       \/ LateTranscript(i) \/ LateTitle(i)
  \/ Crash
  \/ Restart

Spec == Init /\ [][Next]_vars

\* The loop polls for ever, docker restarts the process (unless-stopped), and
\* a task moves on: every wait in it has a timeout (Conversation!HostEnds).
Fairness ==
  /\ WF_vars(\E i \in Interviews : Claim(i) \/ CommitClaim(i))
  /\ WF_vars(Restart)
  /\ \A i \in Interviews : WF_vars(StartTask(i)) /\ WF_vars(TaskStep(i))

FairSpec == Spec /\ Fairness

-----------------------------------------------------------------------------
(* Safety, whatever fails. *)

\* A COMPLETED interview, which the feed offers to listeners, has its audio
\* file: the file is written before the status, and a failure in between
\* leads to FAILED.
CompletedHasEpisode == \A i \in Interviews : StatusOf(i) = "COMPLETED" => i \in episodes

\* A stored transcript says COMPLETED and its interview is so, unless the
\* COMPLETED has been taken back (CompletedStays says by whom), and then it
\* does not come back.  The transcript is built after the reply to the status
\* update, when the host sets no status any more.
ArchivedIsCompleted ==
  \A i \in Interviews :
    transcript[i] # "none" =>
      IF i \in takenBack
      THEN StatusOf(i) # "COMPLETED"
      ELSE transcript[i] = "COMPLETED" /\ StatusOf(i) = "COMPLETED"

\* An interview IN_PROGRESS that nobody conducts has met with a crash or a
\* lost call: nothing else orphans an interview, whoever ends it meanwhile.
OrphansAreFaulted ==
  \A i \in Interviews :
    StatusOf(i) = "IN_PROGRESS" /\ i \notin claimReply /\ task[i] \notin Running
      => i \in faulted

\* COMPLETED is taken back only when a call of the host about the interview
\* failed, or by an abandon or a cancellation that found the interview live and
\* commits so late: no handler undoes what it finds finished.
CompletedStays ==
  [][\A i \in Interviews :
       StatusOf(i) = "COMPLETED" /\ StatusOf(i)' # "COMPLETED" =>
         i \in faulted \/ ending[i] = "live"]_vars

-----------------------------------------------------------------------------
(* Why. *)

\* The loop makes one claim at a time.
OneClaim ==
  /\ \A i, j \in claiming \cup claimReply : i = j
  /\ claiming = {} \/ claimReply = {}

\* There is a task only for what was claimed, and the loop starts it once.
ClaimedInv ==
  \A i \in Interviews :
    /\ task[i] # "none" \/ i \in claimReply => StatusOf(i) \notin {"none", "QUEUED"}
    /\ i \in claiming \cup claimReply => task[i] = "none"

\* From here on the task has its audio file.
Stitched == {"completing", "acknowledging", "reading", "archiving", "titling"}

EpisodeInv == \A i \in Interviews : task[i] \in Stitched => i \in episodes

\* A call that may still be carried out is left over from a fault; one that
\* sets a status comes from a task that is no longer ahead of it.
LateInv ==
  \A i \in Interviews :
    /\ <<i, "COMPLETED">> \in late => i \in episodes /\ task[i] \in {"failing", "over", "lost"}
    /\ <<i, "FAILED">> \in late => task[i] \in {"over", "lost"}
    /\ \A call \in {"IN_PROGRESS", "COMPLETED", "FAILED", "transcript", "title"} :
         <<i, call>> \in late => i \in faulted

\* An interview is COMPLETED, now or once, when its task has come so far, and
\* without a fault the task goes on to the transcript.
CompletedInv ==
  \A i \in Interviews :
    /\ StatusOf(i) = "COMPLETED" \/ i \in takenBack =>
         task[i] \notin {"none", "talking", "stitching", "completing"}
    /\ StatusOf(i) = "COMPLETED" => i \in faulted \/ task[i] \notin {"failing", "lost"}
    /\ StatusOf(i) = "IN_PROGRESS" =>
         i \in faulted \/ task[i] \in {"none", "talking", "stitching", "completing", "failing"}
    /\ task[i] = "acknowledging" => (StatusOf(i) = "COMPLETED" <=> i \notin takenBack)

\* A task that has come to the transcript sets no status any more, and left
\* none behind that may be set later.
Archived(i) ==
  \/ task[i] \in {"reading", "archiving", "titling"}
  \/ transcript[i] # "none"
  \/ <<i, "transcript">> \in late

ArchiveInv ==
  \A i \in Interviews :
    /\ Archived(i) => /\ StatusOf(i) = "COMPLETED" <=> i \notin takenBack
                      /\ task[i] \in {"reading", "archiving", "titling", "over", "lost"}
                      /\ <<i, "FAILED">> \notin late /\ <<i, "COMPLETED">> \notin late
    /\ task[i] = "archiving" => snapshot[i] = "COMPLETED" \/ i \in takenBack

\* All of this is inductive.
IndInv ==
  /\ TypeOK
  /\ CompletedHasEpisode /\ ArchivedIsCompleted /\ OrphansAreFaulted
  /\ OneClaim /\ ClaimedInv /\ EpisodeInv /\ LateInv /\ CompletedInv /\ ArchiveInv

-----------------------------------------------------------------------------
(* Liveness. *)

\* Queued interviews are served one after the other, after a crash too.
QueuedIsServed == \A i \in Interviews : StatusOf(i) = "QUEUED" ~> StatusOf(i) # "QUEUED"

\* What is claimed ends, unless a fault hits it.
ClaimedEnds ==
  \A i \in Interviews :
    StatusOf(i) = "IN_PROGRESS" ~> StatusOf(i) \in Store!Done \/ i \in faulted

\* What is completed gets its title, its episode path and its transcript, which
\* says COMPLETED or, where that has been taken back, what the interview says.
CompletedIsPublished ==
  \A i \in Interviews :
    StatusOf(i) = "COMPLETED" ~>
      \/ i \in titled /\ transcript[i] \in {"COMPLETED", StatusOf(i)}
      \/ i \in faulted

-----------------------------------------------------------------------------
(* What the documentation says. *)

\* "IN_PROGRESS -> COMPLETED/FAILED: PATCH /v1/interview/{id}/status" (the
\* docstring of the router): an interview is completed from IN_PROGRESS, never
\* when it has FAILED.
OnlyInProgressCompletes ==
  [][\A i \in Interviews :
       StatusOf(i)' = "COMPLETED" /\ StatusOf(i) # "COMPLETED" => StatusOf(i) = "IN_PROGRESS"]_vars
=============================================================================
