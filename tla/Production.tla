----------------------------- MODULE Production ------------------------------
(***************************************************************************)
(* What the host does by itself in the interviews it conducts: questions   *)
(* and titles from language models (pipecat_host/host_agent.py), speech    *)
(* from text (podcast_audio.py), each from a chain of providers that are   *)
(* tried one after the other, and the episode put together from what came  *)
(* of it (workflow.py).                                                    *)
(*                                                                         *)
(* All tasks share one event loop.  A question is generated by synchronous *)
(* calls, with time.sleep between them, that keep the loop from the other  *)
(* tasks; speech and stitching run in threads.                             *)
(***************************************************************************)
EXTENDS Naturals, Sequences

CONSTANTS
  Tasks,        \* interviews being conducted at the same time
  MaxTurns,     \* MAX_TURNS of workflow.py
  ArcLength,    \* themes of _INTERVIEW_ARC, and as many fixed questions
  Configured    \* providers whose library and key are there

Providers == {"gemini", "anthropic", "openai", "deepgram", "cartesia"}

ASSUME TurnsAssumption == MaxTurns \in Nat \ {0}
ASSUME ArcAssumption == ArcLength \in Nat /\ MaxTurns <= ArcLength
ASSUME ConfiguredAssumption == Configured \subseteq Providers

VARIABLES
  loop,      \* the task that keeps the event loop to itself, or Free
  stage,     \* where each task is
  turn,      \* its turn of the interview
  attempt,   \* calls made so far for what it is generating
  turnCount, \* the counter of its HostAgent, which gives the theme
  asked,     \* the questions it asked
  parts      \* the pieces of speech it has for the episode

vars == <<loop, stage, turn, attempt, turnCount, asked, parts>>

Free == [free |-> TRUE]

\* A question is known by its theme in the arc: it is what a language model
\* made of that, or the fixed question with the same index.
Question == 0..ArcLength - 1

Part == [turn: 1..MaxTurns, voice: {"host", "guest"}]

Ended == {"done", "failed"}

TypeOK ==
  /\ loop \in Tasks \cup {Free}
  /\ stage \in [Tasks -> {"thinking", "waiting", "voicing_host", "voicing_guest",
                          "stitching", "titling"} \cup Ended]
  /\ turn \in [Tasks -> 1..MaxTurns]
  /\ attempt \in [Tasks -> 0..6]
  /\ turnCount \in [Tasks -> 0..MaxTurns]
  /\ asked \in [Tasks -> Seq(Question)]
  /\ parts \in [Tasks -> Seq(Part)]

-----------------------------------------------------------------------------
(* The chains. *)

\* A provider without a library or a key is passed over.
Attempts(p, n) == IF p \in Configured THEN [k \in 1..n |-> p] ELSE <<>>

WritingChain == Attempts("gemini", 2) \o Attempts("anthropic", 1) \o Attempts("openai", 1)

SpeechChain == Attempts("deepgram", 3) \o Attempts("cartesia", 3)

CallsLeft(t, chain) == attempt[t] < Len(chain)

Smaller(m, n) == IF m < n THEN m ELSE n

\* The opening question has the first theme, a follow-up that of the counter,
\* capped at the last.
ArcIndex(t) == IF turn[t] = 1 THEN 0 ELSE Smaller(turnCount[t], ArcLength - 1)

-----------------------------------------------------------------------------
Init ==
  /\ loop = Free
  /\ stage = [t \in Tasks |-> "thinking"]
  /\ turn = [t \in Tasks |-> 1]
  /\ attempt = [t \in Tasks |-> 0]
  /\ turnCount = [t \in Tasks |-> 0]
  /\ asked = [t \in Tasks |-> <<>>]
  /\ parts = [t \in Tasks |-> <<>>]

Enter(t, st) ==
  /\ stage' = [stage EXCEPT ![t] = st]
  /\ attempt' = [attempt EXCEPT ![t] = 0]

(* A question. *)

\* Fault: all interviews have one HostAgent, with one counter.
StartSharing(t) ==
  /\ stage[t] = "thinking"
  /\ loop = Free
  /\ loop' = t
  /\ turnCount' = IF turn[t] = 1 THEN [u \in Tasks |-> 0] ELSE turnCount
  /\ UNCHANGED <<stage, turn, attempt, asked, parts>>

\* The task gets its turn on the loop and does not give it back before it
\* has a question.  The opening question resets the counter.
StartThinking(t) ==
  /\ stage[t] = "thinking"
  /\ loop = Free
  /\ loop' = t
  /\ turnCount' = IF turn[t] = 1 THEN [turnCount EXCEPT ![t] = 0] ELSE turnCount
  /\ UNCHANGED <<stage, turn, attempt, asked, parts>>

\* Fault: when no provider is left it begins again with the first.
ThinkingStartsOver(t) ==
  /\ stage[t] = "thinking" /\ loop = t
  /\ CallsLeft(t, WritingChain)
  /\ attempt' = [attempt EXCEPT ![t] = (@ + 1) % Len(WritingChain)]
  /\ UNCHANGED <<loop, stage, turn, turnCount, asked, parts>>

\* The call raises, or what it returns is not a JSON object with a question.
ThinkingFails(t) ==
  /\ stage[t] = "thinking" /\ loop = t
  /\ CallsLeft(t, WritingChain)
  /\ attempt' = [attempt EXCEPT ![t] = @ + 1]
  /\ UNCHANGED <<loop, stage, turn, turnCount, asked, parts>>

\* send_question: from here the guest is waited for, see Conversation.
Ask(t) ==
  /\ asked' = [asked EXCEPT ![t] = Append(@, ArcIndex(t))]
  /\ turnCount' = [turnCount EXCEPT ![t] = IF turn[t] = 1 THEN 1 ELSE @ + 1]
  /\ loop' = Free
  /\ Enter(t, "waiting")
  /\ UNCHANGED <<turn, parts>>

AskGenerated(t) ==
  /\ stage[t] = "thinking" /\ loop = t
  /\ CallsLeft(t, WritingChain)
  /\ Ask(t)

AskFixed(t) ==
  /\ stage[t] = "thinking" /\ loop = t
  /\ ~CallsLeft(t, WritingChain)
  /\ Ask(t)

(* The answer, or InterviewTimeoutError, or another exception. *)

Resume(t, st) == stage[t] = st /\ loop = Free /\ UNCHANGED loop

HearAnswer(t) ==
  /\ Resume(t, "waiting")
  /\ Enter(t, "voicing_host")
  /\ UNCHANGED <<turn, turnCount, asked, parts>>

GiveUp(t) ==
  /\ Resume(t, "waiting")
  /\ Enter(t, "failed")
  /\ UNCHANGED <<turn, turnCount, asked, parts>>

(* Speech: first the question, then the answer. *)

\* Fault: one turn too many.
NextTurnOneMore(t) ==
  IF turn[t] > MaxTurns
  THEN Enter(t, "stitching") /\ UNCHANGED turn
  ELSE Enter(t, "thinking") /\ turn' = [turn EXCEPT ![t] = @ + 1]

NextTurn(t) ==
  IF turn[t] = MaxTurns
  THEN Enter(t, "stitching") /\ UNCHANGED turn
  ELSE Enter(t, "thinking") /\ turn' = [turn EXCEPT ![t] = @ + 1]

SpeechFails(t) ==
  /\ stage[t] \in {"voicing_host", "voicing_guest"}
  /\ CallsLeft(t, SpeechChain)
  /\ attempt' = [attempt EXCEPT ![t] = @ + 1]
  /\ UNCHANGED <<loop, stage, turn, turnCount, asked, parts>>

AddPart(t, v) ==
  /\ CallsLeft(t, SpeechChain)
  /\ parts' = [parts EXCEPT ![t] = Append(@, [turn |-> turn[t], voice |-> v])]
  /\ UNCHANGED <<turnCount, asked>>

VoiceQuestion(t) ==
  /\ Resume(t, "voicing_host")
  /\ AddPart(t, "host")
  /\ Enter(t, "voicing_guest")
  /\ UNCHANGED turn

VoiceAnswer(t) ==
  /\ Resume(t, "voicing_guest")
  /\ AddPart(t, "guest")
  /\ NextTurn(t)

\* Fault: each of the two pieces has a try of its own.
SkipPiece(t) ==
  /\ ~CallsLeft(t, SpeechChain)
  /\ \/ Resume(t, "voicing_host") /\ Enter(t, "voicing_guest") /\ UNCHANGED turn
     \/ Resume(t, "voicing_guest") /\ NextTurn(t)
  /\ UNCHANGED <<turnCount, asked, parts>>

\* No provider is left: the rest of the turn is not heard, the interview
\* goes on.
SkipSpeech(t) ==
  /\ Resume(t, "voicing_host") \/ Resume(t, "voicing_guest")
  /\ ~CallsLeft(t, SpeechChain)
  /\ NextTurn(t)
  /\ UNCHANGED <<turnCount, asked, parts>>

(* The episode and its title. *)

Stitch(t) ==
  /\ Resume(t, "stitching")
  /\ Enter(t, "titling") \/ Enter(t, "failed")
  /\ UNCHANGED <<turn, turnCount, asked, parts>>

NextWriter(t) == IF CallsLeft(t, WritingChain) THEN WritingChain[attempt[t] + 1] ELSE "none"

\* Gemini's client is synchronous here too.
StartTitle(t) ==
  /\ stage[t] = "titling" /\ loop = Free
  /\ NextWriter(t) = "gemini"
  /\ loop' = t
  /\ UNCHANGED <<stage, turn, attempt, turnCount, asked, parts>>

TitleCalled(t) ==
  /\ stage[t] = "titling"
  /\ loop = IF NextWriter(t) = "gemini" THEN t ELSE Free

TitleCallFails(t) ==
  /\ TitleCalled(t)
  /\ CallsLeft(t, WritingChain)
  /\ attempt' = [attempt EXCEPT ![t] = @ + 1]
  /\ UNCHANGED <<stage, turn, turnCount, asked, parts>>

\* After an exception the task sleeps, or awaits the next provider, without
\* keeping the loop.
TitleFails(t) == TitleCallFails(t) /\ loop' = Free

\* After an empty title from Gemini it asks Gemini again at once.
TitleEmpty(t) ==
  /\ TitleCallFails(t)
  /\ NextWriter(t) = "gemini" /\ attempt[t] = 0
  /\ UNCHANGED loop

\* A title, or the last resort, "The AI That Surprised Everyone".
Title(t) ==
  /\ TitleCalled(t)
  /\ loop' = Free
  /\ Enter(t, "done")
  /\ UNCHANGED <<turn, turnCount, asked, parts>>

-----------------------------------------------------------------------------
Step(t) ==
  \/ StartThinking(t) \/ ThinkingFails(t) \/ AskGenerated(t) \/ AskFixed(t)
  \/ HearAnswer(t) \/ GiveUp(t)
  \/ SpeechFails(t) \/ VoiceQuestion(t) \/ VoiceAnswer(t) \/ SkipSpeech(t)
  \/ Stitch(t) \/ StartTitle(t) \/ TitleFails(t) \/ TitleEmpty(t) \/ Title(t)

Next == \E t \in Tasks : Step(t)

Spec == Init /\ [][Next]_vars

\* Calls to providers return, threads end, and asyncio runs what is ready.
FairSpec == Spec /\ \A t \in Tasks : WF_vars(Step(t))

-----------------------------------------------------------------------------
(* Safety. *)

\* What a listener hears is in the order of the interview, and an answer comes
\* right after its own question: when speech fails, the rest of the turn is
\* left out and not the question alone.
AnswerFollowsQuestion ==
  \A t \in Tasks : \A k \in DOMAIN parts[t] :
    LET p == parts[t][k] IN
      /\ p.voice = "guest" => k > 1 /\ parts[t][k - 1] = [p EXCEPT !.voice = "host"]
      /\ p.voice = "host" /\ k > 1 => parts[t][k - 1].turn < p.turn

\* The interview keeps to its arc whichever providers fail and whatever other
\* interviews do in between: the question of each turn, from a language model
\* or fixed, is on the theme of that turn, so that no theme comes twice.
ArcKept ==
  \A t \in Tasks : \A k \in DOMAIN asked[t] : asked[t][k] = k - 1

-----------------------------------------------------------------------------
(* Why. *)

\* One question a turn, and the counter counts them.
AskedInv ==
  \A t \in Tasks :
    /\ Len(asked[t]) = IF stage[t] = "thinking" THEN turn[t] - 1 ELSE turn[t]
    /\ turnCount[t] = Len(asked[t])

\* The episode has nothing of a later turn, nothing of this turn before its
\* question is voiced, and the question when its answer is to be voiced.
PartsInv ==
  \A t \in Tasks :
    /\ \A k \in DOMAIN parts[t] :
         /\ parts[t][k].turn <= turn[t]
         /\ stage[t] \in {"thinking", "waiting", "voicing_host"} => parts[t][k].turn < turn[t]
    /\ stage[t] = "voicing_guest" =>
         parts[t] # <<>> /\ parts[t][Len(parts[t])] = [turn |-> turn[t], voice |-> "host"]

IndInv == TypeOK /\ AnswerFollowsQuestion /\ ArcKept /\ AskedInv /\ PartsInv

-----------------------------------------------------------------------------
(* Liveness. *)

\* Every interview comes to its end, although the others keep the loop for
\* as long as their chains of providers are.
InterviewsEnd == \A t \in Tasks : <>(stage[t] \in Ended)
=============================================================================
