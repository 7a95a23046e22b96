# A TLA+ model of AgentCast

AgentCast interviews software agents for a podcast. An agent registers, asks to
be interviewed and polls for questions; a host process claims the interview,
asks six questions through the backend, turns questions and answers into audio
and publishes the episode. This directory holds TLA+ modules of that program,
the TLC configurations that check them, and theorems about them checked by the
TLA+ proof system. Paths such as `backend/interviews/router.py` are relative to
the repository; line numbers are in `PROJECT.json` ("map").

## 1. Inventory

### Components

| component | code | state | operations | model |
|---|---|---|---|---|
| interview table | `backend/interviews/router.py`, `db/models.py`, `db/session.py` | rows of `interviews`: agent, status, created_at, completed_at | create, request, claim, status, cancel_stale, abandon | `Interviews`, `AtomicInterviews` |
| interview messages | `backend/interviews/router.py` | rows of `interview_messages`: sender, sequence_num, timestamp | message, messages, next, respond | `Conversation`, `Dialogue` |
| question loop of the host | `pipecat_host/adapter.py`, `workflow.py` | turn, deadline, answers heard | send_question, wait_for_response | `Conversation` |
| host service | `pipecat_host/__main__.py`, `workflow.py`, `backend_client.py` | running tasks, in memory only; episode files on disk | poll and claim, the stages of a task, the except clauses | `HostService` |
| transcripts | `backend/interviews/transcript.py`, `transcript_router.py` | rows of `transcripts`, unique per interview | build, read | `Transcripts`; as a stage in `HostService` |
| questions, titles, episode audio | `pipecat_host/host_agent.py`, `podcast_audio.py` | position in the arc; pieces of speech | chains of providers with retries and a last resort; stitching | `Production` |
| request authentication | `backend/interviews/auth.py`, `backend/main.py` | nonces in Redis, Redis client of the process | verify a signed request | `RequestAuth` |
| registration, dashboard tokens | `backend/identity/router.py`, `backend/dashboard/router.py` | rows of `agents`: key, token hash, issue time | register, mint token, validate token | `Accounts` |
| portal and dashboard page | `backend/portal/router.py`, `templates/dashboard.html` | the page's banner, its timer, replies it waits for | list interviews, poll, request an interview; feed and pages that read | `Dashboard`; the request in `Interviews` |
| operator scripts | `infra/scripts/agentcast-db`, `run_podcast.sh` | none of their own | clear-stuck, cancel_stale | `Interviews` |
| guest agents | described in `skill.md`, `AGENT_INTEGRATION.md`; the client is a submodule that is not in the tree | the question being answered | poll, answer, give up, post again | external part of `Conversation` |
| guardrails, migrations, templates, deployment | | | pure functions, one-off scripts, configuration | not modelled (section 8) |

### How they interact

The backend is one asyncio process over PostgreSQL. Each request has a database
session of its own, whose transaction runs under READ COMMITTED; no handler
locks what it reads and, primary keys aside, no constraint backs what it
decides. The host and the guests know each other only through the backend: the
host polls `/claim` every five seconds and `/messages` every two, the guest
polls `/next`. Nothing notifies the host when an interview is ended by someone
else. Authentication keeps its nonces in Redis and nothing else does. The host
keeps its tasks in memory.

### What is hard here, and what correctness means

* **Interview table.** Reads and writes of a handler are apart, so handlers race.
  Correct: an agent has one active interview, an interview is handed out once,
  oldest first, and a finished one stays finished, with its date. The first and
  the last of these break when sessions race, so it also matters what still
  holds: how many can be active, who can be handed what twice.
* **Conversation.** Two counters, the host's 1, 3, 5, ... and the backend's
  max + 1, number the same messages. Correct: a question is offered until it is
  answered, and the host hears the answer to the question it asked. The hard
  part is an answer that is posted twice or arrives late.
* **Host service.** A task makes up to five kinds of calls, each of which can be
  lost, acknowledged late, or carried out after the caller gave up; the process
  can die; an end from outside may have looked long before it commits. Correct: what is published as COMPLETED has audio, gets a transcript
  and stays so unless there is a reason, nothing waits in the queue for ever, nothing is left
  IN_PROGRESS without a reason.
* **Questions and audio.** Providers fail at any call, and generating a question keeps the
  one event loop from all other interviews. Correct: every interview ends, its questions keep
  to the arc, and what is heard of it is in order, no answer without its question.
* **Transcripts.** Built from messages while answers may still arrive, and possibly twice at
  once. Correct: what the host asked and heard is in it, in order.
* **Request authentication.** Windows of time, a memory that expires, and two
  services that restart. Correct: what is sent again with the same headers is not let through again.
* **Accounts.** An agent has one token, and each call for one replaces it; calls
  are given up and go on, copies arrive, and the commit may come after the reply. Correct: a token
  handed out was stored, and the last one of an undisturbed agent works for as long as
  it was told, unless a copy that the nonce does not recognize has replaced it.
* **The dashboard page.** It looks twice per tick, ticks overlap and replies overtake. Correct: it stops
  polling, links to what can be played and does not go on about what has ended.

`PROJECT.json` lists the hazards at their lines, with the properties that cover
each.

## 2. Plan

Done, in this order:

1. `AtomicInterviews`, `Interviews`, `MCInterviews`, `InterviewsProofs`: the table
   every other part depends on, what it promises, and what races leave of that.
2. `Dialogue`, `Conversation`: the core of the product, one interview.
3. `HostService`: composes the table (an instance of `AtomicInterviews`, with claims and ends split as in
   `Interviews`), the tasks, transcripts and faults. The inside of its stage "talking" is `Conversation`.
4. `RequestAuth`, `RequestAuthProofs`.
5. `Production`: what the host does by itself, several interviews on one event loop.

6. `Transcripts`: extends `Conversation` by the builds of a transcript: check-then-insert, a
   second build racing the first, answers committed after the messages were read.
7. `Accounts`, `AccountsProofs`: extends `RequestAuth` by registration, re-registration and the dashboard token
   they both replace; two first registrations at once; expiry; a commit that comes
   after the reply.
8. `Dashboard`: the page and the list it polls, over an instance of `AtomicInterviews`.

9. `HostServiceProofs`, `ConversationProofs`, `TranscriptsProofs`, `ProductionProofs`, `DashboardProofs`, and the
   refinement in `InterviewsProofs`: every invariant, every property of a step and both refinements
   that a passing run checks, as theorems for any values of the constants (section 6).

To do:

10. `TwoInterviews`: two instances of `Conversation` for one agent that has two
   interviews IN_PROGRESS and polls with LIMIT 1.
11. The commit after the reply in `Interviews` and `HostService` too.

Modules that theorems are about use no RECURSIVE operator; parameters are
CONSTANTS with named assumptions; each handler is an action.

## 3. The modules and the code

### AtomicInterviews, Interviews

`AtomicInterviews` is what a client expects of the handlers if each were one
indivisible operation. `Interviews` is what they are: the action of a handler
that writes is split where the code is, into the statements that read
(`RequestInterview`, `ClaimInterview`, `UpdateStatus`, ...) and the commit
(`CommitInsert`, `CommitClaim`, `CommitClose`), with `Rollback` for a handler that
raises in between. `session[s]` is what the handler carries from one to the
other. `row` is the table; identifiers are uuid4, drawn at the INSERT.

* created_at is PostgreSQL's `now()`, the start of the transaction: `clock` ticks
  when an INSERT begins, and rows may be committed in another order.
* The ORM flushes only what was changed: an UPDATE of a row that had the status
  already when it was read does not name the column (`changed`).
* UPDATEs are `WHERE interview_id = ...`: they overwrite whatever has been
  committed meanwhile. That is the race of `CommitClaim` and of `CommitClose`.
* `ClearStuck` is one statement of psql, and atomic.
* A session stands for a client that does one thing at a time. The roles of
  clients are not kept apart: a session may run any handler, which only adds
  behaviours.
* PATCH status takes COMPLETED and FAILED and nothing else, but takes them for a row of any
  status.

### Dialogue, Conversation

`Conversation` is one interview that was claimed. The host is a program counter
that runs through `send_question` and `wait_for_response` for six turns; storing a
question is two steps, the read of the largest number and the commit, and so is
storing an answer. The guest is a set of workers that poll, hold a question, post
and, when `Impatient`, may stop waiting for the reply of a POST that goes on
without them (`StopWaiting`, `StoreLate`). The text of a message is the question
it asks or answers.

* `generate_followup_question` ends in a fixed question and returns None in no
  case, so `if next_question is None: break` is dead code and there are always
  `MAX_TURNS` turns.
* `respond` checks the status and reads the largest number in one step; its write
  is the second. The status may change between these too, but then the answer is
  stored after the end, which the two steps already allow.
* `TimeOut` needs one poll (`polled`): the loop looks at its deadline after a
  sleep, and the first poll comes at once. Blocking calls of other tasks may
  make any later look come too late.
* Generation of questions and audio changes no shared state and has no action.

### Transcripts

`Transcripts` adds to `Conversation` the handlers of `POST .../transcript/build`
(`Builders`; the host asks for one, somebody may ask again by hand). A build
reads the messages in the order of their numbers (`ReadMessages`), looks for a
transcript (`LookForTranscript`) and then updates or inserts it (`Store`); an INSERT that finds
another's row fails on the unique interview_id (`BuildFails`). `TranscriptSpec` adds the builds
to `Conversation`'s steps, late answers included.

* The content is the set of the messages that were read: their order is that of their numbers, and messages
  that share one come in any order.
* Builds begin once the interview is COMPLETED, which is when the host asks for one.
* `transcript_router.py:77` reads `interview.metadata`, which is SQLAlchemy's own
  attribute; the column is mapped as `extra_metadata`. Nothing depends on it in the models.

### HostService

The table is an instance of `AtomicInterviews`. Handlers that decide on what they have read are two steps, as in
`Interviews`: `FindLive` and `End` for abandon and cancel_stale, `Claim` and `CommitClaim` for a claim. `End` writes FAILED by
the key, whatever the interview has become in between, and any number of handlers that
found it live may still be on their way (`ending`). clear-stuck is one UPDATE and one step (`ClearStuck`).
PATCH status, which decides on nothing, is one step. `takenBack` is history: what was COMPLETED and then not.

A task goes through talking,
stitching, completing, acknowledging, reading, archiving, titling; its except
clauses through failing. `Fault` counts: `ClaimUnheard` (the host does not hear of the claim, which
was committed, has read its row or is about to), `StartFails` (`HostAgent()` is made before the try of
`run_poll_interview`, and when it raises nobody sets a status), `StageFails`, `FailingFails`, `BestEffortFails`, `Crash`.
A call that failed for the host may still be carried out at any later time
(`late`: a client that gives up after ten seconds does not stop the handler). A
task that ends by a timeout of the guest is not a fault (`TalkFails`).

The build of a transcript is two steps, the read of the status (`ReadForTranscript`) and the write
(`StoreTranscript`). One that the host gave up on is carried out in one step, at any later time (`LateTranscript`). That an administrator PATCHes by hand is left out: the host is the
only one in the repository that does.

If the speech of all turns fails, `stitch_to_mp3` writes an empty file and the
interview completes: "episode" means the file, not what is to be heard.

### Production

The tasks of the host between and after the calls to the backend. `loop` is the task
that keeps the event loop: `_generate` calls Gemini twice, Claude once and OpenAI once,
synchronously and with `time.sleep`, until one returns a valid question
(`ThinkingFails`, `AskGenerated`), and takes a fixed question otherwise (`AskFixed`). Both have the theme
of `ArcIndex`: the first for the opening, which resets the counter `turn_count` of the task's HostAgent
(`StartThinking`), then that of the counter (`turnCount`), capped at the end of the arc; a question adds one to it. The turn
of the task is another variable. Speech runs in threads (`SpeechFails` needs no loop), three attempts
with Deepgram and three with Cartesia; question and answer of a turn share one try, so
that a failure skips the rest of the turn (`SkipSpeech`). For a title Gemini keeps
the loop and the others do not. Providers without library or key are not in the
chain (`Configured`). Waiting for the guest is two outcomes here, an answer or an
exception; `Conversation` is about what lies between. The text of questions and titles
is left out: a question is its index in the arc.

### RequestAuth

`Receive` is the dependency up to SETEX, in one step: the Redis client is
synchronous and the process has one event loop, so no other handler runs between
the look at the clock and the reply of Redis. Time goes by, though: `InWindow` is about the clock
as it was up to `Delay` ago, while EXISTS and SETEX are at `now`. `Pass` and `Drop` come after the
awaits of the database and the body. The nonce is stored before agent and
signature are looked at, so `Drop` leaves it behind: a request that was refused for
a reason that has gone must be signed anew. Redis may stop, start with some keys
missing (append-only file, written every second), and stop between EXISTS and the
reply to SETEX; the backend looks for Redis once, when it starts. Time is that of
`time.time()`, which is not rounded; a key is known up to and including its expiry, and gone after it (`Tick`).

The nonce is the hash of the header `X-Signature` as it was spelled (`auth.py:71`), while the signature is decoded
leniently: `_add_padding` appends what is missing, and `urlsafe_b64decode` passes over letters outside its
alphabet and unused bits. What an agent has signed once is therefore several requests, one for each of the
`Spellings`: all of them verify and each has a nonce of its own. `PassedOnce` is about requests with the same headers, and this is
all the code gives.

A nonce is `TooEarly` if its time to live, counted from SETEX, ends before the last moment at which its timestamp may be found
good and EXISTS asked. The code's 120 seconds are two windows of 60 and leave nothing for the delay: they are too short for
timestamps that are almost a window ahead of the clock. `early` keeps such requests and `PassedOnce` excepts them; with a
longer time to live (`Ttl >= 2 * Window + Delay`) there would be none.

### Accounts

`Accounts` extends `RequestAuth`. Its calls go through four stages: `drawn` (the agent's row was looked
for, a token and the time drawn), `written` (UPDATE or INSERT, not committed), and then `committed` and
the reply, or `told` and the commit. `Write` waits for whoever has written the same row
and not committed, as PostgreSQL's row lock and unique index do; an INSERT that finds the row
committed then fails (`Conflict`, 500). `GetDashboardToken` is `RequestAuth!Pass` followed by the draw.
`late` says which of the orders of get_db's commit and the reply the installed FastAPI has; it is
chosen once, at the start.

* A client waits for one call at a time. It may give up (`GiveUp`, also an error reply), and the call
  goes on. A signed request may arrive any number of times; a registration, which has no
  signature, arrives once.
* `asked` is history: when the agent sent its last call, as a set that is empty once a call of
  it was not answered with a token. `intact` is that of `RequestAuth`.
* Clients spell what they sign in one way (`Usual`); a copy may come in any (`Sent`). `NoOtherCopy` says of an agent that no
  respelled copy of its requests, and none that was early, was let through; `TokenWorks` is about such agents, for a copy that is
  let through mints a token in the place of the agent's.
* Requests with signatures that are not the agent's are in `RequestAuth` and its proof; here they are left out.
* Agents may have registered before there were tokens: their rows have none (`AccountsInit`), and none is accepted
  (`Accepts`). Rows with a token and no time of issue, whose tokens do not expire, are left out.

### Dashboard

One page of one agent. A handler of the page that waits for a reply is a member of `Calls`: it is
`looking` (the first request of a tick) or `loading` (`loadInterviews`, alone or as the second step of a tick);
`stop` is what the tick will do with the timer afterwards. `Reply` is the moment at which the backend
reads the list; `Look` and `Load` are what the page does with it, later and in any order. The rest of
`Dashboard` is the little the page can see of interviews: an instance of `AtomicInterviews`, and the
order in which the host makes the file, sets COMPLETED and saves the path.

* Several ticks may be waiting: `setInterval` does not look whether the last is done.
* `loadInterviews` swallows its errors, so the tick it was called from goes on to stop the timer.
* The button "Request interview" is left out: `dashboard.html:454` uses `DASHBOARD_TOKEN`, which no template
  defines, so that the click ends in a ReferenceError and sends nothing. Requests come from the agent's client.
* A COMPLETED interview stays so here; how it may not is the subject of `HostService`.

## 4. Runs

| run | instance | what it shows |
|---|---|---|
| `interviews_concurrent` | 1 agent, 3 interviews, 2 sessions | `ActiveBound`, `NeverHandedTwice`, `FinishedIsDated`, `QueuedOnce`, and `IndInv`, the invariant of the proofs (`TypeOK` is part of it) |
| `interviews_serial` | 2 agents, 3 interviews, 1 session | without races the handlers implement `AtomicInterviews`: `ImplementsAtomic`, `OneActivePerAgent` |
| `interviews_live` | 2 agents, 2 interviews, 2 sessions | `QueueDrains`: every queued interview leaves the queue |
| `race_two_active` | 1 agent, 2 interviews, 2 sessions | violation of `OneActivePerAgent` |
| `conversation_careful` | `Transcripts`: 6 turns, 1 worker that waits for replies, 7 posts, 2 builds | `UniqueSequence`, `Slots`, `QuestionOffered`; `TranscriptIsDialogue`; `ImplementsDialogue`: each question is heard answered by its own answer |
| `conversation_careless` | `Transcripts`: 3 turns, 2 impatient workers, 4 posts, 2 builds | `QuestionsInOrder`, `HeardNotFromTheFuture`, `HiddenByTwinOnly`; `OnlyUnheardMissing` of the transcript and `TranscriptInv`, the invariant of the proofs of both modules; `HostEnds` under fairness of the host alone |
| `twice_wrong_answer` | 2 turns, 1 impatient worker, 3 posts | violation of `AnswersCurrentQuestion` |
| `host_faults` | 2 agents, 2 interviews, 1 fault | `CompletedHasEpisode`, `ArchivedIsCompleted`, `OrphansAreFaulted`, `CompletedStays`, and `IndInv` of their proofs; `QueuedIsServed`, `ClaimedEnds`, `CompletedIsPublished` |
| `abandoned_comes_back` | 1 interview, no fault | violation of `OnlyInProgressCompletes` |
| `production` | 2 tasks, 3 turns and an arc of 3; Gemini, OpenAI and Cartesia configured | `AnswerFollowsQuestion`, `ArcKept`, and `IndInv` of their proofs; `InterviewsEnd` |
| `dashboard` | 1 page, 2 interviews, 2 handlers, 1 failure | `OfferedIsPlayable`, and `IndInv` of its proof; `PollingEnds`, `BannerMovesOn` |
| `tokens` | 1 agent, 2 handlers, 2 calls, 2 tokens, timestamp 1 in 2 spellings, window 1, delay 1, time to live 2, tokens good for 2, time up to 3 | `PassedOnce`, `ToldWasStored`, `TokenWorks`, and the invariants of their proofs, `IndInv` and `AccountsInv` |

Deadlock is checked in the runs of `Interviews`. A conversation ends, a page whose
interviews are over has nothing to do, a service whose interviews are all over and whose faults are used up stops, and so does a
clock at its bound: the cfgs of these say CHECK_DEADLOCK FALSE.

### The bounds

* `MaxRequests`, `Interviews`: there are never fewer identifiers than INSERTs, as
  uuids do not run out. Two active interviews need two requests; a third makes
  the order of the queue and the return of an old row next to a new one visible.
* `Sessions`: all races of the table are between two transactions. `ActiveBound` is
  stated in the number of sessions and proved for all of them.
* `MaxTurns`, `MaxPosts`: the careful run has the code's six turns and one post more
  than needed. In the careless one three turns leave one answer to be late by two
  questions, and one post more than turns makes numbers shift. The two violations need
  two turns and three posts.
* `MaxFaults`: one fault, which may be a crash, a lost reply or a call that is carried out late, next to ends from outside
  at any time. With two the state space is five times as large, too large for the liveness properties; the safety
  properties were checked with two once (1,289,153 states), and are proved for any number.
* `Production`: a second turn shows order and the reset of attempts, a third that the counter of a follow-up goes on and is
  not capped too soon; two tasks
  what one does to the other. The writers have one that is tried twice and one tried once
  after it, the speakers one with three attempts; more providers lengthen the chains only.
* Time in `RequestAuth`: window 1 and time to live 2 keep the code's ratio of 60 to
  120. Timestamp 1 is a whole window ahead of the clock at 0 and can be found good, with a delay of 1, up to 3: a nonce stored
  at 0 is early, one stored at 1 lasts just long enough.
* `Accounts`: two calls at once are what a lock, a conflict and an overlap need. Two tokens are
  a registration, or a row that was there, and a mint, or a mint and the copy of it that must not replace it; a
  life of 2 lets that copy come while the token should work, and the first token expire.
  Two spellings are the agent's own and another.
* `Bounded` in `MCAccounts` cuts the search off where the clock has moved and Redis is down or a nonce was lost: what Redis does,
  and what the loss of a nonce brings with it, is explored before the clock moves. The proofs have no such bound.
* `Transcripts`: a second build is what can race with the first; there is one row to race for.
* `Dashboard`: a second interview is what an old reply can be about; two handlers are what
  can overtake each other, in one tick or in two; one failure shows what an error leaves behind.

### Fairness

* `Interviews`: claim is strongly fair. The host polls for ever and the pool hands
  out sessions in turn, while single transactions of others come and go; the
  commit of a claim is strongly fair because a transaction may fail, and does not
  fail for ever. Transactions that are under way end (weak).
* `Conversation`: only the host. Its calls return or raise after ten seconds, it
  polls every two seconds and looks at its deadline. Nothing is assumed of the
  guest.
* `HostService`: the loop goes on (its body is in a try), docker restarts the
  container (`restart: unless-stopped`) and a task moves on, since each of its waits has a
  timeout; for the stage "talking" this is `HostEnds`. No fairness for clients,
  and none for late calls.
* `Transcripts`: that of `Conversation`, the host's; none for builds.
* `Dashboard`: the browser's timer fires, handlers that have a reply run, the backend replies unless the request fails;
  and the host takes an interview and ends it, which is `QueuedIsServed` and `ClaimedEnds` of `HostService`. Nobody need ask
  for interviews or stop asking: `PollingEnds` is about an agent that has no active interview any more.
* `Production`: calls to providers return, as HTTP clients with timeouts do (60 s for speech; for
  the language models it is left to their libraries), and asyncio runs tasks that are ready.

## 5. What the runs that fail show

* **Two active interviews** (`race_two_active`). Two requests of one agent, one from
  its client and one from its dashboard say, both find no active interview and
  both insert. `router.py:252` and `AGENT_INTEGRATION.md:104` say the second returns the
  first. What is left of it is `ActiveBound`, and `SerialOneActive`.
* **An answer heard as the answer to another question** (`twice_wrong_answer`). A client
  posts its answer, does not get the reply and posts again. The second copy gets
  the next number, which is the one of the answer to the next question. When the
  host has asked that, the copy is "the latest answer with at least number 2t" if it
  comes after the question. `adapter.py:68` says stale answers are not accepted. What
  is left is `HeardNotFromTheFuture`.
* **An abandoned interview that completes** (`abandoned_comes_back`). The agent abandons, the
  row is FAILED, and the host, which is not told, ends its interview with
  COMPLETED. `router.py:18` gives IN_PROGRESS as the only origin of COMPLETED. What is
  left is `CompletedStays`, for the way back: it is taken only after a fault, or by an abandon or cancellation that had
  found the interview live.

Seen in the models and described here without a run of their own:

* Without any fault, COMPLETED becomes FAILED: an abandon reads IN_PROGRESS (`router.py:412`), the host's PATCH COMPLETED commits, and
  then the abandon commits FAILED by primary key (`router.py:418`). `cancel_stale` can do the same (`router.py:159-171`). The transcript, which the host builds next, says
  COMPLETED beside a FAILED interview if the overwriting comes after it read the status, and FAILED if before
  (`ArchivedIsCompleted`, `CompletedIsPublished`).
* A copy of a signed request with the signature spelled otherwise, without its padding say, is let through next to the
  first: once in each spelling (`PassedOnce`). A respelled copy of a call for a token replaces the token (`TokenWorks`).
  `skill.md` and the guides do not speak of spellings.
* A request stamped almost a window ahead of the clock may be let through twice with the same headers, at the very end of
  its window, since 120 seconds are two windows and the delay between the look at the clock and Redis is not covered (`early`).
* With two sessions a claim that read a QUEUED row commits IN_PROGRESS after cancel_stale or abandon
  has closed it, and the host conducts a cancelled interview. (With one session
  `ImplementsAtomic` excludes it.)
* A question that is never shown: the second copy of an answer is being stored while the next
  question is, and both get one number; the later timestamp wins `/next`, which then says
  204 until the host gives up (`QuestionOffered` is false with an impatient worker). `router.py:325` speaks of
  collisions handled gracefully. What is left is `HiddenByTwinOnly`: nothing else hides a question.
* Two builds of a transcript: the host's reads the messages, a late answer arrives, a second build
  reads and stores it, and the host's, which finds the row, overwrites it with what it read
  before. What the host heard is in both (`OnlyUnheardMissing`).
* The page may stop with a banner that says an interview is queued: a tick saw no active interview
  (`dashboard.html:180`), the agent requested one, the second look showed it and started the timer, and then the
  tick stopped it (`dashboard.html:184`). Or the second look failed, unnoticed. `BannerMovesOn`
  excepts these (`blind`).
* The page may never show an episode: the host sets COMPLETED and saves the path after a transcript and a
  title have been made; a page that looks in between sees nothing active, stops the
  timer and hides the banner (`dashboard.html:257-262`).
* A token may be replaced by a call whose client has given it up; the client then holds
  a token that does not work (`TokenWorks` is about agents whose calls were all answered).
* An agent that registers and is told so may be unknown (404) to the request that follows at once, where the commit
  comes after the reply; and if that commit fails it remains so.
* A token expires after 86400 seconds (`auth.py:190`); the comment above (`auth.py:182`) says one hour, `auth.py:17` speaks of tokens that
  never expire, and `backend/interviews/tests/test_dashboard_token.py:126`, `:170` and `:213` expect 3600. Nothing in the models depends on the
  number: `Life` is a constant.
* `UniqueSequence` is false with two workers: max + 1 read twice before a commit.
* An answer stored before the deadline, after the last poll, is not heard: the loop
  looks at the clock first.
* After a crash of the host, a claim whose reply was lost, or a task that could not make its
  `HostAgent`, an interview stays IN_PROGRESS. `.agents/skills/orchestrator/SKILL.md:16` gives somebody the duty of failing it
  after five minutes; in the code an operator does, with `agentcast-db clear-stuck`,
  or the agent itself.
* `README.md:34` says the host conducts one interview at a time. It starts a task for
  each it claims.
* `README.md:131` draws the look-up of the agent and the verification before the nonce; the
  code does them after.

## 6. Proofs

Each proof module extends the module it is about.

**`InterviewsProofs`**, for every set of agents, identifiers and every finite set of sessions
(`SessionsAssumption`, `MaxRequestsAssumption`). `Invariance` shows that `IndInv` is inductive,
from one lemma for each conjunct, with a case per kind of step; `TypeCorrect`, `Dated`,
`HandedOnce`, `ActiveBounded` and `NeverRequeued` follow from it, and `SerialOneActive` is
`ActiveBounded` for one session.

`ActiveBound` is not inductive: a request under way, or a claim under way of a
row that was closed meanwhile, adds an active interview when it commits.
`Contenders(a)` counts those too: active rows of `a`, rows of `a` that a session is about
to claim, and sessions about to insert for `a`. A step that adds a contender,
the beginning of an INSERT, is taken only when `a` has no active row. Then each
contender belongs to a session of its own (`NoActiveBound`), and as the session
that begins was idle before, there are still no more than sessions. A commit of an
INSERT exchanges a session for a row; all other steps add none (a claim begins on
a row that is active).

`NeverHandedTwice` needs `UnclaimedInv`: a row that is QUEUED has not been claimed, for
no step leads back to QUEUED.

`SerialIsAtomic` says that with one session `Interviews` implements `AtomicInterviews`. The beginning of a
handler is a stutter there and its commit is the operation. That is right because what the handler has read
is still true when it commits (`SerialInv`, by `SerialInvariance`): the agent has no active interview, the claimed row is the oldest in the
queue, the rows to be closed are the active ones of the agent, and an UPDATE that leaves out the status
leaves it at what was asked for. A new row is younger than all others, so that `AgeOrder` grows as `older` does.
There is one lemma for each commit (`InsertIsRequest`, `ClaimIsClaim`, `CloseIsFinish`) and one for the script (`ClearIsClear`).

**`RequestAuthProofs`**, for every window, delay and time to live and any sets of agents, handlers, timestamps and spellings.
`ProcessedOnce` says `Spec => []PassedOnce`. The invariant `OnceInv` says that each
request that is being verified or was let through, and was not early, is in the store with an
expiry no earlier than `ts + Window + Delay`, the last moment at which its timestamp can have been found good. It was
stored at a time when `now + Ttl` was no earlier than that, for otherwise it would be early. Hence a request
that is new to the store and is found good is in no handler and has not been let through, or was early.
Nothing relates the time to live to the window: that they do not fit is what `early` tells.

**`AccountsProofs`**, for any number of agents, calls, handlers and tokens, every life of a token, and
either order of commit and reply. It assumes `CallsAssumption` (a call is not also a request) and what
`RequestAuthProofs` does, whose lemmas it uses: each step of `Accounts` is one of `RequestAuth` or
leaves it alone (`RequestStep`). `ToldTokensStored` and `TokensWork` follow from `AccountsInvariance`.

`TokenWorks` says too little of calls under way to be inductive. `AccountsInv` adds that the row of an agent
has one writer at a time (`LockInv`) and, of an agent that is undisturbed (its calls were all answered and
no nonce was lost, and no respelled or early copy of its requests was let through), that all it has signed was let through but for what it waits for (`SignedInv`), and
that it has one call under way at most that was not answered (`UnderWayInv`). The step that could break this is
a mint. Its request was signed by the agent, is spelled as the agent spells it and, by `OnceInv`, has not been let through; so it is what the agent
waits for, and no other call of the agent can be unanswered, for that would answer the
same request or one that was let through. A registration that was told before its commit holds the row until
then (`ToldInv`), so no later call is overtaken by it.

**`ConversationProofs`**, for every number of turns and posts and any set of workers. For any
guest, `Invariance` has an `IndInv` from which `QuestionsStayInOrder`, `NothingFromTheFuture` and `OnlyTwinsHide`
follow. Each question is numbered past those before it (`HostInv`): the number the host
has drawn stays the largest among questions while the guest stores what it likes. An answer is written for a question that
was asked and numbered past its slot (`GuestInv`), so that what the host accepts in turn t is about
question t or an earlier one.

The other theorems assume `CarefulGuest`: one worker that waits for the replies of its posts, which is the client
of the guides and of the run `conversation_careful`. `CarefulInv` says that question and answer take
turns: each earlier question has its one answer, the worker deals with the current one, and what it is
about to store has the number 2t. Hence `NumbersAreUnique`, `EachInItsSlot`, `CurrentAnswers`
and `TheQuestionIsOffered`. `CurrentAnswers` states the property that `twice_wrong_answer` refutes for an
impatient worker. `DialogueImplemented` shows with both invariants that every step is one of `Dialogue`
or a stutter: `Ask` and `Answer` are the commits of a question and of its answer, `Hear` is the host's poll.

**`TranscriptsProofs`** extends these. Every step of `TranscriptSpec` is one of `Conversation` or leaves it alone
(`InterviewUnderTranscripts`), so the theorems above carry over. `NothingHeardMissing` holds
because a build reads after the host is done and from then on only answers that nobody hears are stored
(`Whole`); two builds that overwrite each other are both whole. With a careful guest nothing at all is stored then, and
`TheTranscriptIsTheDialogue`.

**`HostServiceProofs`**, for any number of agents, interviews and faults. `IndInv` follows a task through its
stages. What it has stitched is on the disk (`EpisodeInv`). Of the calls that a fault left behind and that may still be
carried out, COMPLETED has its file and FAILED comes from a task that has gone (`LateInv`). An interview is COMPLETED, or
was (`takenBack`), only if its task has come that far (`CompletedInv`). A
task that has come to the transcript leaves no status behind that could be set later, and its interview is COMPLETED
just if nobody has taken that back (`ArchiveInv`). So a late end can only take COMPLETED away: after it the interview does not come back
and a transcript that says otherwise is one of `takenBack`. `EpisodesAreThere`,
`TranscriptsAreFinal`, `OrphansMetAFault` and, of the steps, `CompletedIsKept` follow.

**`ProductionProofs`**, for any number of tasks, `MaxTurns` up to `ArcLength`, and any subset of the providers.
`AnswerFollowsQuestion` needs `PartsInv`: nothing in the episode is of a later turn, nothing is of this turn
before its question is voiced, and when an answer is about to be voiced its question is the last piece.
`ArcKept` needs `AskedInv`: the counter of a task is the number of questions it has asked, which is one for each turn that
is over, and one more once this turn's is asked. So the theme that the counter gives is that of the turn, it does not
reach the cap, and the reset by the opening question finds nothing to reset. A counter that two tasks shared, the mutant of the
run, breaks it.

**`DashboardProofs`**, for any number of interviews, handlers and failures. `LinksArePlayable` needs
`RepliesArePlayable`, that also a reply on its way may be shown whenever it comes: the list has
only files that are there (`ListIsPlayable`) and no step removes one.

The inductive invariants `IndInv`, `AccountsInv` and `TranscriptInv` are also invariants of runs. `CarefulInv`,
`DialogueInv` and `SerialInv` are in no cfg; what they are for (`ImplementsDialogue`, `TranscriptIsDialogue`,
`ImplementsAtomic` and the rest) is.

Only model-checked: liveness and whatever rests on fairness (`QueueDrains`, `HostEnds`, `QueuedIsServed`,
`ClaimedEnds`, `CompletedIsPublished`, `InterviewsEnd`, `PollingEnds`, `BannerMovesOn`), which is out of the
prover's reach. The three violations are counterexamples that TLC finds.

## 7. Assumptions of the models

* In `Interviews`, `Conversation` and `HostService` a handler's commit comes before its reply. For
  handlers that call `commit()` this is so. `create`, `claim` and the transcript build call `flush()` and leave
  the commit to `get_db`; FastAPI before 0.118 ran that before the reply, later
  versions run it after. `requirements.txt` allows both. With the later order, a claim whose
  commit fails would have been given to the host already and be claimed again. `Accounts`
  has both orders.
* PostgreSQL: a writer waits for the transaction that has written the same row or key.
* The backend is one process with one event loop, as `infra/docker` starts it.
* Backend and Redis share a clock.
* A guest's client is what the endpoints and guides let one be: its source is not
  in the repository, and the actions for it are marked external.
* `HostService` splits claims and ends, whose commits may come after others'. Its requests are one step each: that two of one
  agent race is the subject of `Interviews`. `Dashboard` has ends in one step; what is COMPLETED stays so there.
* The host's own PATCH FAILED always gets through in `Conversation` (`Fail`), which has no property about that status; that
  it may not is `FailingFails` in `HostService`.
* A page's tick whose reply is an error with a JSON body finds nothing active and stops the timer (`dashboard.html:178-184` does not look at
  `resp.ok`). In `Dashboard` a failed request gives the tick up, as a network error does.
* `Interviews` draws `created` where a request has looked for an active interview. `now()` is that of the
  transaction's first statement, earlier in the same handler.

## 8. Not modelled

* Guardrails: a function on the text of an answer that decides nothing.
* Prompts, titles, audio: the text and the sound. The fallback of `stitch_to_mp3` to a .wav file: the
  image installs pydub and ffmpeg.
* The administrator's key: a comparison. Names for display, key formats: data.
* `run_podcast_interview`, `RemoteAgentNode` and `BackendClient.patch_metadata`: nothing calls them.
* History, feed, the list of agents, the home page: they read and render. The feed page's buttons ask for the next page without
  waiting for the last reply, so that what is shown may not be what `currentOffset` says; it is not modelled. `GET /history` sees what is committed.
* Rate limits: `_check_rate_limit` is `pass`.
* Migrations, Terraform, nginx, workflows, templates: configuration; that containers are restarted and
  that Redis keeps an append-only file is used as said above.
