----------------------------- MODULE Transcripts -----------------------------
(***************************************************************************)
(* The transcript of the interview of Conversation: what                   *)
(* POST /v1/transcript/build reads of its messages and stores              *)
(* (backend/interviews/transcript.py).                                     *)
(*                                                                         *)
(* The host asks for it once, when the interview is COMPLETED, and goes on *)
(* after fifteen seconds; an operator may ask again.  A build reads the    *)
(* messages, then looks whether there is a transcript, then writes; its    *)
(* only protection against another build is that interview_id is unique.   *)
(* Answers may still be stored meanwhile.                                  *)
(***************************************************************************)
EXTENDS Conversation, FiniteSets

CONSTANT Builders    \* the requests to build it: the host's, an operator's

VARIABLES
  build,         \* what each of them has come to
  transcript     \* the content of the row, a set of messages; {} if no row

buildVars == <<build, transcript>>
allVars == <<vars, buildVars>>

NotBegun == [pc |-> "idle"]
Building(read) == [pc |-> "checking", read |-> read]
Storing(read, found) == [pc |-> "storing", read |-> read, found |-> found]
Ended == [pc |-> "ended"]

TranscriptTypeOK ==
  /\ TypeOK
  /\ transcript \subseteq messages
  /\ build \in [Builders -> {NotBegun, Ended}
                  \cup [pc: {"checking"}, read: SUBSET messages]
                  \cup [pc: {"storing"}, read: SUBSET messages, found: BOOLEAN]]

-----------------------------------------------------------------------------
\* Fault: the slots of the turns, and no message that was moved past them.
SlotsOnly == {m \in messages : m.seq <= 2 * MaxTurns}

\* SELECT of all messages of the interview, in the order of their numbers.
ReadAll == messages

TranscriptInit ==
  /\ Init
  /\ build = [b \in Builders |-> NotBegun]
  /\ transcript = {}

ReadMessages(b) ==
  /\ build[b] = NotBegun
  /\ hostPc = "done"
  /\ build' = [build EXCEPT ![b] = Building(ReadAll)]
  /\ UNCHANGED <<vars, transcript>>

\* SELECT of the transcript: is there one?
LookForTranscript(b) ==
  /\ build[b].pc = "checking"
  /\ build' = [build EXCEPT ![b] = Storing(build[b].read, transcript # {})]
  /\ UNCHANGED <<vars, transcript>>

\* UPDATE of the content, or INSERT of a row.
Store(b) ==
  /\ build[b].pc = "storing"
  /\ build[b].found \/ transcript = {}
  /\ transcript' = build[b].read
  /\ build' = [build EXCEPT ![b] = Ended]
  /\ UNCHANGED vars

\* The INSERT finds another build's row, 500, or the database raises.
BuildFails(b) ==
  /\ build[b].pc \in {"checking", "storing"}
  /\ build' = [build EXCEPT ![b] = Ended]
  /\ UNCHANGED <<vars, transcript>>

Build(b) == ReadMessages(b) \/ LookForTranscript(b) \/ Store(b) \/ BuildFails(b)

TranscriptNext ==
  \/ Next /\ UNCHANGED buildVars
  \/ \E b \in Builders : Build(b)

TranscriptSpec == TranscriptInit /\ [][TranscriptNext]_allVars

FairTranscriptSpec == TranscriptSpec /\ HostFairness

-----------------------------------------------------------------------------
(* Safety. *)

\* Whatever builds race, and although one that read earlier may overwrite one
\* that read more, a stored transcript has every question and every answer
\* the host took; what it may lack are answers nobody heard.
OnlyUnheardMissing ==
  transcript # {} =>
    \A m \in messages \ transcript :
      m.sender = "AGENT" /\ \A t \in 1..Len(heard) : heard[t] # m

\* The transcript of a guest that waits for its replies is the dialogue:
\* each question followed by the answer the host heard, and nothing else.
TranscriptIsDialogue ==
  transcript # {} =>
    /\ Cardinality(transcript) = 2 * MaxTurns
    /\ \A t \in 1..MaxTurns :
         /\ heard[t] \in transcript
         /\ \E m \in transcript : m.sender = "HOST" /\ m.q = t
         /\ \A m \in transcript : m.q < t => m.seq < heard[t].seq
         /\ \A m \in transcript : m.sender = "HOST" /\ m.q = t => m.seq < heard[t].seq
-----------------------------------------------------------------------------
(* Why. *)

\* What is there when the host has ended the interview, and what a build may
\* miss: from then on only answers are stored that nobody hears.
Unheard(m) == m.sender = "AGENT" /\ \A t \in 1..Len(heard) : heard[t] # m

Whole(read) == hostPc = "done" /\ \A m \in messages \ read : Unheard(m)

TranscriptInv ==
  /\ IndInv /\ TranscriptTypeOK
  /\ transcript # {} => Whole(transcript)
  /\ \A b \in Builders : build[b].pc \in {"checking", "storing"} => Whole(build[b].read)

\* With a guest that waits for its replies nothing is stored any more.
DialogueInv ==
  /\ transcript \in {{}, messages}
  /\ transcript # {} => hostPc = "done"
  /\ \A b \in Builders : build[b].pc \in {"checking", "storing"} => build[b].read = messages
=============================================================================
