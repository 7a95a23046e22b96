------------------------------ MODULE Dashboard ------------------------------
(***************************************************************************)
(* An agent's dashboard page (backend/templates/dashboard.html) and the    *)
(* list of interviews it asks the portal for (backend/portal/router.py).   *)
(*                                                                         *)
(* The page polls while an interview is active.  A tick asks for the list  *)
(* to see whether one is, then loads the list once more to show it, and    *)
(* stops the timer by what it saw first.  Ticks do not wait for each       *)
(* other and their replies may overtake each other.                        *)
(* The button that requests an interview is left out: it refers to a       *)
(* constant no template defines and sends nothing.                         *)
(*                                                                         *)
(* The interviews are those of AtomicInterviews.  Of the host's tasks      *)
(* (HostService) the page sees three things: the claim, the end and, some  *)
(* time after COMPLETED, the path of the episode.                          *)
(***************************************************************************)
EXTENDS Naturals

CONSTANTS
  Agents,        \* the agent whose page it is
  Interviews,
  Calls,         \* handlers of the page that can wait for a reply at once
  MaxFailures    \* bound on the requests of the page that fail

ASSUME FailuresAssumption == MaxFailures \in Nat

VARIABLES
  interview, older,   \* the table of interviews
  conducted,          \* interviews the host has a task for
  audio,              \* interviews whose file can be played
  titled,             \* interviews with a title and an episode path
  banner,             \* the interview the banner tells of
  polling,            \* is the timer on?
  call,               \* what each handler waits for
  failures,           \* number of requests that failed
  blind               \* history: was the timer stopped against the banner?

tableVars == <<interview, older, conducted, audio, titled>>
pageVars == <<banner, polling, call, failures, blind>>
vars == <<tableVars, pageVars>>

Store == INSTANCE AtomicInterviews

Nothing == [status |-> "none"]
Closed == [status |-> "closed"]
Of(i) == [status |-> interview[i].status, id |-> i]

Idle == [pc |-> "idle"]
Awaited == [status |-> "awaited"]
Looking(reply) == [pc |-> "looking", reply |-> reply]
Loading(stop, reply) == [pc |-> "loading", stop |-> stop, reply |-> reply]

Views == {Nothing} \cup [status: Store!Live \cup {"COMPLETED"}, id: Interviews]

Waiting ==
  [pc: {"looking"}, reply: Views \cup {Awaited}]
    \cup [pc: {"loading"}, stop: BOOLEAN, reply: Views \cup {Awaited}]

TypeOK ==
  /\ DOMAIN interview \subseteq Interviews
  /\ interview \in [DOMAIN interview -> [agent: Agents, status: Store!Live \cup Store!Done]]
  /\ conducted \cup audio \cup titled \subseteq Interviews
  /\ banner \in Views \cup {Closed}
  /\ polling \in BOOLEAN /\ blind \in BOOLEAN
  /\ failures \in 0..MaxFailures
  /\ call \in [Calls -> {Idle} \cup Waiting]

-----------------------------------------------------------------------------
(* GET /v1/interviews, as the page reads it. *)

StatusOf(i) == IF i \in Store!Existing THEN interview[i].status ELSE "none"

Newest(ids) == {i \in ids : \A j \in ids \ {i} : <<j, i>> \in older}

\* Fault: the path is believed, the file not looked at.
WithPath == {i \in titled : StatusOf(i) = "COMPLETED"}

\* A path is listed if its file is there and has a thousand bytes.
WithEpisode == {i \in titled \cap audio : StatusOf(i) = "COMPLETED"}

ActiveOnes == {i \in Store!Existing : StatusOf(i) \in Store!Live}

\* The newest active interview or else the newest with an episode.
List ==
  LET first == IF ActiveOnes # {} THEN Newest(ActiveOnes) ELSE Newest(WithEpisode)
  IN IF first = {} THEN Nothing ELSE Of(CHOOSE i \in first : TRUE)

IsActive(view) == view.status \in Store!Live

-----------------------------------------------------------------------------
Init ==
  /\ Store!Init
  /\ conducted = {} /\ audio = {} /\ titled = {}
  /\ banner = Closed
  /\ polling = FALSE
  /\ call = [c \in Calls |-> Idle]
  /\ failures = 0
  /\ blind = FALSE

(* What happens to the interviews, in the order in which HostService does it. *)

RequestInterview(i, a) ==
  /\ Store!Request(i, a)
  /\ UNCHANGED <<conducted, audio, titled, pageVars>>

\* Abandoned, cancelled or cleared; the host is not told.
EndFromOutside(i) ==
  /\ StatusOf(i) \in Store!Live
  /\ Store!Finish(i, "FAILED")
  /\ UNCHANGED <<conducted, audio, titled, pageVars>>

Claim(i) ==
  /\ Store!Claim(i)
  /\ conducted' = conducted \cup {i}
  /\ UNCHANGED <<audio, titled, pageVars>>

Fail(i) ==
  /\ i \in conducted
  /\ conducted' = conducted \ {i}
  /\ Store!Finish(i, "FAILED")
  /\ UNCHANGED <<audio, titled, pageVars>>

\* The file is stitched before the status is set, and is empty if no speech
\* could be made.
Complete(i) ==
  /\ i \in conducted
  /\ conducted' = conducted \ {i}
  /\ Store!Finish(i, "COMPLETED")
  /\ audio' \in {audio, audio \cup {i}}
  /\ UNCHANGED <<titled, pageVars>>

\* PATCH .../metadata, after the transcript and the call for a title.
SaveTitle(i) ==
  /\ StatusOf(i) = "COMPLETED" /\ i \notin titled
  /\ titled' = titled \cup {i}
  /\ UNCHANGED <<interview, older, conducted, audio, pageVars>>

(* The page. *)

\* The page is opened, at any time.  To open it again is to start anew.
Open(c) ==
  /\ banner = Closed
  /\ banner' = Nothing
  /\ call' = [call EXCEPT ![c] = Loading(FALSE, Awaited)]
  /\ UNCHANGED <<tableVars, polling, failures, blind>>

\* setInterval calls its handler, however many are waiting.
Tick(c) ==
  /\ polling
  /\ call[c] = Idle
  /\ call' = [call EXCEPT ![c] = Looking(Awaited)]
  /\ UNCHANGED <<tableVars, banner, polling, failures, blind>>

\* The backend reads the list; the reply is on its way.
Reply(c) ==
  /\ call[c] # Idle
  /\ call[c].reply = Awaited
  /\ call' = [call EXCEPT ![c].reply = List]
  /\ UNCHANGED <<tableVars, banner, polling, failures, blind>>

\* const hasActive = ...; await loadInterviews()
Look(c) ==
  /\ call[c].pc = "looking"
  /\ call[c].reply # Awaited
  /\ call' = [call EXCEPT ![c] = Loading(~IsActive(call[c].reply), Awaited)]
  /\ UNCHANGED <<tableVars, banner, polling, failures, blind>>

Show(c, view) ==
  /\ banner' = view
  /\ blind' = (IF IsActive(view) THEN call[c].stop ELSE FALSE)
  /\ call' = [call EXCEPT ![c] = Idle]
  /\ UNCHANGED <<tableVars, failures>>

\* Fault: an await is missing and whatever is there is shown.
ShowAnything(c) ==
  /\ call[c].pc = "loading"
  /\ Show(c, call[c].reply)
  /\ polling' = (IsActive(call[c].reply) /\ ~call[c].stop)

\* Fault: nothing starts the timer again.
ShowAndNeverStart(c) ==
  /\ call[c].pc = "loading"
  /\ call[c].reply # Awaited
  /\ Show(c, call[c].reply)
  /\ polling' = (polling /\ IsActive(call[c].reply) /\ ~call[c].stop)

\* Fault: only the banner is changed; the timer goes on.
ShowAndNeverStop(c) ==
  /\ call[c].pc = "loading"
  /\ call[c].reply # Awaited
  /\ Show(c, call[c].reply)
  /\ polling' = (polling \/ IsActive(call[c].reply))

\* loadInterviews shows what it got, starts or stops the timer, and the tick
\* it was called from stops it if it had seen no active interview.
Load(c) ==
  /\ call[c].pc = "loading"
  /\ call[c].reply # Awaited
  /\ Show(c, call[c].reply)
  /\ polling' = (IsActive(call[c].reply) /\ ~call[c].stop)

\* A request fails.  The tick gives up and the next will try again; what
\* loadInterviews catches its caller does not see.
RequestFails(c) ==
  /\ call[c] # Idle
  /\ failures < MaxFailures
  /\ failures' = failures + 1
  /\ call' = [call EXCEPT ![c] = Idle]
  /\ LET stops == IF call[c].pc = "loading" THEN call[c].stop ELSE FALSE
     IN /\ polling' = (polling /\ ~stops)
        /\ blind' = (blind \/ (stops /\ IsActive(banner)))
  /\ UNCHANGED <<tableVars, banner>>

Page(c) == Tick(c) \/ Reply(c) \/ Look(c) \/ Load(c)

Table(i) ==
  \/ \E a \in Agents : RequestInterview(i, a)
  \/ EndFromOutside(i) \/ Claim(i) \/ Fail(i) \/ Complete(i) \/ SaveTitle(i)

Next ==
  \/ \E i \in Interviews : Table(i)
  \/ \E c \in Calls : Open(c) \/ Page(c) \/ RequestFails(c)

\* The browser's timer fires, requests are answered unless they fail, and
\* handlers are run.  The host claims and ends what it claims
\* (HostService!QueuedIsServed and ClaimedEnds).
Fairness ==
  /\ WF_vars(\E c \in Calls : Tick(c))
  /\ \A c \in Calls : WF_vars(Reply(c) \/ Look(c) \/ Load(c))
  /\ WF_vars(\E i \in Interviews : Claim(i) \/ Fail(i) \/ Complete(i))

Spec == Init /\ [][Next]_vars /\ Fairness

-----------------------------------------------------------------------------
(* Safety. *)

\* The banner links only to an episode that can be played, whatever has
\* failed or been overtaken.
OfferedIsPlayable ==
  banner.status = "COMPLETED" => banner.id \in audio

-----------------------------------------------------------------------------
(* Why. *)

\* What a late reply offers can still be played: files are not removed.
RepliesArePlayable ==
  \A c \in Calls :
    call[c] # Idle /\ call[c].reply.status = "COMPLETED" => call[c].reply.id \in audio

IndInv == TypeOK /\ OfferedIsPlayable /\ RepliesArePlayable

-----------------------------------------------------------------------------
(* Liveness. *)

\* When no interview will be active any more the page stops asking, although
\* a late reply may start the timer again.
PollingEnds == <>[](ActiveOnes = {}) => <>[]~polling

\* The banner does not go on about an interview that has ended, in whatever
\* order the replies come, unless a tick that had seen no active interview
\* stopped the timer while the banner said there was one: the agent asked
\* for its next interview between the two looks, or the second look failed.
BannerMovesOn ==
  \A i \in Interviews :
    banner \in [status: Store!Live, id: {i}]
      ~> \/ banner \notin [status: Store!Live, id: {i}]
         \/ blind
=============================================================================
