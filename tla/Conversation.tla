---------------------------- MODULE Conversation ----------------------------
(***************************************************************************)
(* One interview: the host task (pipecat_host/workflow.py and adapter.py), *)
(* the messages of the interview in the backend (store_message, respond,   *)
(* next and messages of backend/interviews/router.py) and the guest's      *)
(* client, which polls for a question and posts an answer to it.           *)
(*                                                                         *)
(* Sequence numbers are computed as max + 1 from a read and inserted by a  *)
(* later statement, with no constraint that keeps them apart.  The host    *)
(* numbers its own questions 1, 3, 5, ..., does not look at the number the *)
(* backend gives them, and takes as the answer to question t the latest    *)
(* answer numbered 2t or more.                                             *)
(***************************************************************************)
EXTENDS Naturals, Sequences

CONSTANTS
  Workers,     \* processes that answer for the guest: a daemon, a cron job
  MaxTurns,    \* MAX_TURNS of workflow.py
  MaxPosts,    \* bound on the answers posted
  Impatient    \* may a client stop waiting for the reply to its POST?

ASSUME TurnsAssumption == MaxTurns \in Nat \ {0}
ASSUME PostsAssumption == MaxPosts \in Nat
ASSUME ImpatientAssumption == Impatient \in BOOLEAN

VARIABLES
  messages,    \* the committed rows of interview_messages
  status,      \* the interview's status
  hostPc,      \* what the host task does
  turn,        \* the question it is at
  draft,       \* the question it is storing
  polled,      \* has it polled since it stored the question?
  heard,       \* the messages it took as answers, in order
  worker,      \* each of the guest's processes
  late,        \* answers being stored whose client no longer waits
  posts,       \* number of answers posted
  clock        \* PostgreSQL's now(): a tick for every INSERT begun

hostVars == <<hostPc, turn, draft, polled, heard>>
guestVars == <<worker, late, posts>>
vars == <<messages, status, hostVars, guestVars, clock>>

\* q: the question that is asked or that the answer was written for.
Message == [sender: {"HOST", "AGENT"}, seq: Nat, timestamp: Nat, q: 1..MaxTurns]

Idle == [pc |-> "idle"]
Holding(q) == [pc |-> "holding", q |-> q]
Posting(m) == [pc |-> "posting", answer |-> m]

Worker == {Idle} \cup [pc: {"holding"}, q: 1..MaxTurns]
                 \cup [pc: {"posting"}, answer: Message]

TypeOK ==
  /\ messages \subseteq Message
  /\ status \in {"IN_PROGRESS", "COMPLETED", "FAILED"}
  /\ hostPc \in {"ask", "storing", "waiting", "finishing", "done", "failed"}
  /\ turn \in 1..MaxTurns
  /\ hostPc = "storing" => draft \in Message
  /\ polled \in BOOLEAN
  /\ heard \in Seq(Message)
  /\ worker \in [Workers -> Worker]
  /\ late \subseteq Message
  /\ posts \in 0..MaxPosts
  /\ clock \in Nat

-----------------------------------------------------------------------------
(* Queries. *)

Latest(ms) ==
  {m \in ms : \A n \in ms : \/ n.seq < m.seq
                            \/ n.seq = m.seq /\ n.timestamp <= m.timestamp}

\* Also a fault when it stands for NextSeq: the largest number in use.
MaxSeq == IF messages = {} THEN 0 ELSE (CHOOSE m \in Latest(messages) : TRUE).seq

NextSeq == MaxSeq + 1

\* Fault: the latest answer, min_seq ignored.
AnswersOfAnyTurn == {m \in messages : m.sender = "AGENT"}

\* GET /v1/interview/messages/{id}?min_seq=2t filters ...
Acceptable == {m \in messages : m.sender = "AGENT" /\ m.seq >= 2 * turn}

\* ... and takes one of those with the highest number.
Fetched == {m \in Acceptable : \A n \in Acceptable : n.seq <= m.seq}

-----------------------------------------------------------------------------
Init ==
  /\ messages = {}
  /\ status = "IN_PROGRESS"
  /\ hostPc = "ask"
  /\ turn = 1
  /\ draft = <<>>
  /\ polled = FALSE
  /\ heard = <<>>
  /\ worker = [w \in Workers |-> Idle]
  /\ late = {}
  /\ posts = 0
  /\ clock = 0

(* The host. *)

Larger(m, n) == IF m > n THEN m ELSE n

Question ==
  [sender |-> "HOST", seq |-> Larger(2 * turn - 1, NextSeq), timestamp |-> clock, q |-> turn]

\* POST /v1/interview/message, up to the read of the largest number ...
SendQuestion ==
  /\ hostPc = "ask"
  /\ draft' = Question
  /\ clock' = clock + 1
  /\ hostPc' = "storing"
  /\ UNCHANGED <<messages, status, turn, polled, heard, guestVars>>

\* ... and the commit.
StoreQuestion ==
  /\ hostPc = "storing"
  /\ messages' = messages \cup {draft}
  /\ hostPc' = "waiting"
  /\ polled' = FALSE
  /\ draft' = <<>>
  /\ UNCHANGED <<status, turn, heard, guestVars, clock>>

FetchNothing ==
  /\ hostPc = "waiting"
  /\ Acceptable = {}
  /\ polled' = TRUE
  /\ UNCHANGED <<messages, status, hostPc, turn, draft, heard, guestVars, clock>>

\* Fault: one turn too many.
FetchAnswerOneMore ==
  /\ hostPc = "waiting"
  /\ \E m \in Fetched : heard' = Append(heard, m)
  /\ IF turn > MaxTurns
     THEN hostPc' = "finishing" /\ UNCHANGED turn
     ELSE hostPc' = "ask" /\ turn' = turn + 1
  /\ UNCHANGED <<messages, status, draft, polled, guestVars, clock>>

FetchAnswer ==
  /\ hostPc = "waiting"
  /\ \E m \in Fetched : heard' = Append(heard, m)
  /\ IF turn = MaxTurns
     THEN hostPc' = "finishing" /\ UNCHANGED turn
     ELSE hostPc' = "ask" /\ turn' = turn + 1
  /\ UNCHANGED <<messages, status, draft, polled, guestVars, clock>>

Fail ==
  /\ hostPc' = "failed"
  /\ status' = "FAILED"
  /\ draft' = <<>>
  /\ UNCHANGED <<turn, polled, heard, guestVars, clock>>

\* Fault: the host looks at its deadline only while the interview is open.
TimeOutIfOpen ==
  /\ hostPc = "waiting"
  /\ polled
  /\ status = "IN_PROGRESS"
  /\ Fail
  /\ UNCHANGED messages

\* The deadline passes between two polls: nothing is fetched after it, even
\* if the answer is there.  The first poll is always made.
TimeOut ==
  /\ hostPc = "waiting"
  /\ polled
  /\ Fail
  /\ UNCHANGED messages

\* Fault: store_message is sent again when its reply is lost.
CallFailsAndRetries ==
  /\ hostPc = "storing"
  /\ messages' \in {messages, messages \cup {draft}}
  /\ hostPc' = "ask"
  /\ UNCHANGED <<status, turn, draft, polled, heard, guestVars, clock>>

\* A call to the backend raises: store_message, whose INSERT may have been
\* committed all the same, a poll, the stitching or the update of the status.
CallFails ==
  /\ hostPc \in {"storing", "waiting", "finishing"}
  /\ \/ UNCHANGED messages
     \/ hostPc = "storing" /\ messages' = messages \cup {draft}
  /\ Fail

\* PATCH /v1/interview/{id}/status, whatever the status has become.
Complete ==
  /\ hostPc = "finishing"
  /\ hostPc' = "done"
  /\ status' = "COMPLETED"
  /\ UNCHANGED <<messages, turn, draft, polled, heard, guestVars, clock>>

(* The guest. *)

\* Fault: the latest message is handed out, whoever sent it.
GetNextAny(w) ==
  /\ worker[w] = Idle
  /\ status = "IN_PROGRESS"
  /\ \E m \in Latest(messages) : worker' = [worker EXCEPT ![w] = Holding(m.q)]
  /\ UNCHANGED <<messages, status, hostVars, late, posts, clock>>

\* GET /v1/interview/next
GetNext(w) ==
  /\ worker[w] = Idle
  /\ status = "IN_PROGRESS"
  /\ \E m \in Latest(messages) :
       /\ m.sender = "HOST"
       /\ worker' = [worker EXCEPT ![w] = Holding(m.q)]
  /\ UNCHANGED <<messages, status, hostVars, late, posts, clock>>

AnswerTo(q) == [sender |-> "AGENT", seq |-> NextSeq, timestamp |-> clock, q |-> q]

\* POST /v1/interview/respond, up to the read of the largest number ...
Respond(w) ==
  /\ worker[w].pc = "holding"
  /\ status = "IN_PROGRESS"
  /\ posts < MaxPosts
  /\ posts' = posts + 1
  /\ clock' = clock + 1
  /\ worker' = [worker EXCEPT ![w] = Posting(AnswerTo(worker[w].q))]
  /\ UNCHANGED <<messages, status, hostVars, late>>

\* ... or 409, when the interview is over, or the worker restarts ...
DropAnswer(w) ==
  /\ worker[w].pc = "holding"
  /\ worker' = [worker EXCEPT ![w] = Idle]
  /\ UNCHANGED <<messages, status, hostVars, late, posts, clock>>

\* ... and the commit.
StoreAnswer(w) ==
  /\ worker[w].pc = "posting"
  /\ messages' = messages \cup {worker[w].answer}
  /\ worker' = [worker EXCEPT ![w] = Idle]
  /\ UNCHANGED <<status, hostVars, late, posts, clock>>

\* The client stops waiting, or the reply is lost.  It still has the answer
\* and may post it again; the backend goes on with the first POST.
StopWaiting(w) ==
  /\ Impatient
  /\ worker[w].pc = "posting"
  /\ late' = late \cup {worker[w].answer}
  /\ worker' = [worker EXCEPT ![w] = Holding(worker[w].answer.q)]
  /\ UNCHANGED <<messages, status, hostVars, posts, clock>>

StoreLate ==
  \E m \in late :
    /\ late' = late \ {m}
    /\ messages' \in {messages, messages \cup {m}}
    /\ UNCHANGED <<status, hostVars, worker, posts, clock>>

\* DELETE /v1/interview/{id}/abandon: the host is not told.
Abandon ==
  /\ status = "IN_PROGRESS"
  /\ status' = "FAILED"
  /\ UNCHANGED <<messages, hostVars, guestVars, clock>>

-----------------------------------------------------------------------------
Host == SendQuestion \/ StoreQuestion \/ FetchNothing \/ FetchAnswer
          \/ TimeOut \/ CallFails \/ Complete

Guest(w) == GetNext(w) \/ Respond(w) \/ DropAnswer(w) \/ StoreAnswer(w) \/ StopWaiting(w)

Next == Host \/ (\E w \in Workers : Guest(w)) \/ StoreLate \/ Abandon

Spec == Init /\ [][Next]_vars

\* The host task runs: its calls return or raise after ten seconds, it polls
\* every two seconds and it looks at its deadline.
HostFairness ==
  /\ WF_vars(SendQuestion) /\ WF_vars(StoreQuestion) /\ WF_vars(FetchNothing)
  /\ WF_vars(FetchAnswer) /\ WF_vars(TimeOut) /\ WF_vars(Complete)

FairSpec == Spec /\ HostFairness

-----------------------------------------------------------------------------
(* Safety, whatever the guest's clients do. *)

\* Questions are numbered in the order they are asked, with at least the
\* number the host counts on: max(body.sequence_num, max + 1) moves a question
\* past answers that came twice, never before an earlier question.
QuestionsInOrder ==
  \A m, n \in messages :
    m.sender = "HOST" /\ n.sender = "HOST" =>
      /\ m.seq >= 2 * m.q - 1
      /\ m.q < n.q => m.seq < n.seq
      /\ m.q = n.q => m = n

\* What the host hears was written for that question or for an earlier one,
\* and is numbered past the question's own slot.
HeardNotFromTheFuture ==
  \A t \in 1..Len(heard) :
    /\ heard[t] \in messages
    /\ heard[t].q <= t
    /\ heard[t].seq >= 2 * t

\* When the host waits and nothing acceptable is there, what keeps the guest
\* from seeing the question is an answer to an earlier one that took
\* its number at the same time.
HiddenByTwinOnly ==
  hostPc = "waiting" /\ Acceptable = {} =>
    \A m \in Latest(messages) :
      \/ m.sender = "HOST" /\ m.q = turn
      \/ /\ m.sender = "AGENT" /\ m.q < turn
         /\ \E n \in messages : n.sender = "HOST" /\ n.q = turn /\ n.seq = m.seq

-----------------------------------------------------------------------------
(* Liveness. *)

\* An interview never hangs: every question is answered, times out or fails.
HostEnds == <>(hostPc \in {"done", "failed"})

-----------------------------------------------------------------------------
(* What the documentation says, true of a guest with one worker that waits  *)
(* for its replies, and broken by one that posts an answer twice.           *)

\* "min_seq ensures we only accept responses to the current question, not
\* stale answers from earlier turns" (wait_for_response).
AnswersCurrentQuestion == \A t \in 1..Len(heard) : heard[t].q = t

\* "Ensure sequence number is strictly unique and increasing" (respond).
UniqueSequence == \A m, n \in messages : m.seq = n.seq => m = n

\* "HOST gets odd slots, AGENT gets even slots" (_next_seq).
Slots ==
  \A m \in messages : m.seq = IF m.sender = "HOST" THEN 2 * m.q - 1 ELSE 2 * m.q

\* "Agent polls for their next pending question" and "handle collisions/race
\* conditions gracefully" (get_next_interview): while the host waits for an
\* answer it does not have, the guest that polls is given the question.
QuestionOffered ==
  hostPc = "waiting" /\ Acceptable = {} =>
    \A m \in Latest(messages) : m.sender = "HOST" /\ m.q = turn

Phase ==
  CASE hostPc \in {"ask", "storing"} -> "unasked"
    [] hostPc = "waiting" /\ Acceptable = {} -> "asked"
    [] hostPc = "waiting" /\ Acceptable # {} -> "answered"
    [] hostPc = "finishing" -> "wrapping_up"
    [] hostPc \in {"done", "failed"} -> "over"

D == INSTANCE Dialogue WITH phase <- Phase, heard <- [t \in 1..Len(heard) |-> heard[t].q]

ImplementsDialogue == D!Spec
-----------------------------------------------------------------------------
(* Why: whatever the guest's clients do. *)

Asked(q) == \E m \in messages : m.sender = "HOST" /\ m.q = q

\* There is always a largest number.
LatestInv == messages # {} => Latest(messages) # {}

\* The host asks its questions one after the other, and each is numbered past
\* every question before it.
HostInv ==
  /\ \A m \in messages :
       m.sender = "HOST" => m.q <= turn /\ (m.q = turn => hostPc \notin {"ask", "storing"})
  /\ hostPc = "storing" =>
       /\ draft.sender = "HOST" /\ draft.q = turn /\ draft.seq >= 2 * turn - 1
       /\ \A m \in messages : m.sender = "HOST" => m.seq < draft.seq
  /\ hostPc = "waiting" => Asked(turn)

HeardInv ==
  /\ hostPc \in {"ask", "storing", "waiting"} => Len(heard) = turn - 1
  /\ hostPc \in {"finishing", "done"} => Len(heard) = turn /\ turn = MaxTurns
  /\ \A t \in 1..Len(heard) : heard[t].sender = "AGENT"

\* An answer is written for a question the guest was given, and is numbered
\* past that question's slot.
Answering(m) == m.sender = "AGENT" /\ m.seq >= 2 * m.q /\ Asked(m.q)

GuestInv ==
  /\ \A m \in messages : m.sender = "AGENT" => Answering(m)
  /\ \A m \in late : Answering(m)
  /\ \A w \in Workers :
       /\ worker[w].pc = "holding" => Asked(worker[w].q)
       /\ worker[w].pc = "posting" => Answering(worker[w].answer)

IndInv ==
  /\ TypeOK
  /\ QuestionsInOrder /\ HeardNotFromTheFuture
  /\ LatestInv /\ HostInv /\ HeardInv /\ GuestInv

(* Why: a guest with one worker that waits for its replies. *)

CarefulGuest == ~Impatient /\ \A v, w \in Workers : v = w

Answered(q) == \E m \in messages : m.sender = "AGENT" /\ m.q = q

\* Question and answer take turns: there is one answer to each question
\* before the current one, and the worker deals with the current one.
CarefulInv ==
  /\ UniqueSequence /\ Slots /\ AnswersCurrentQuestion
  /\ late = {}
  /\ \A q \in 1..(turn - 1) : Asked(q) /\ Answered(q)
  /\ hostPc \in {"ask", "storing"} => \A m \in messages : m.q < turn
  /\ hostPc = "storing" => draft.seq = 2 * turn - 1
  /\ hostPc \in {"finishing", "done"} => Asked(turn) /\ Answered(turn)
  /\ \A w \in Workers :
       /\ worker[w].pc = "holding" => worker[w].q = turn
       /\ worker[w].pc = "posting" => worker[w].answer.q = turn /\ worker[w].answer.seq = 2 * turn
       /\ worker[w] # Idle => hostPc \in {"waiting", "failed"} /\ ~Answered(turn)
=============================================================================
