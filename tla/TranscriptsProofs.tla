------------------------- MODULE TranscriptsProofs --------------------------
(***************************************************************************)
(* Proofs about Transcripts, for any number of turns, answers, workers and *)
(* builders.                                                               *)
(***************************************************************************)
EXTENDS Transcripts, ConversationProofs, FiniteSetTheorems, FunctionTheorems

-----------------------------------------------------------------------------
\* The interview under its transcripts is the one of Conversation.

LEMMA TranscriptInitInd == TranscriptInit => TranscriptInv
<1> SUFFICES ASSUME TranscriptInit PROVE TranscriptInv
  OBVIOUS
<1>1. IndInv
  BY InitInd DEF TranscriptInit
<1>2. TranscriptTypeOK
  BY <1>1 DEF TranscriptInit, TranscriptTypeOK, IndInv, NotBegun
<1> QED
  BY <1>1, <1>2 DEF TranscriptInit, TranscriptInv, NotBegun

LEMMA ConversationStep == [TranscriptNext]_allVars => [Next]_vars
BY DEF TranscriptNext, Build, ReadMessages, LookForTranscript, Store, BuildFails, allVars

LEMMA InterviewUnderTranscripts == TranscriptSpec => Spec
BY ConversationStep, PTL DEF TranscriptSpec, TranscriptInit, Spec
-----------------------------------------------------------------------------
\* Whatever the guest's clients do.

\* After the host is done, only answers nobody heard are added.
LEMMA AfterTheEnd ==
  ASSUME IndInv, [Next]_vars, hostPc = "done"
  PROVE  /\ hostPc' = "done" /\ heard' = heard /\ messages \subseteq messages'
         /\ \A m \in messages' \ messages : Unheard(m)
<1>1. UNCHANGED hostVars
  BY DEF Next, Host, SendQuestion, StoreQuestion, FetchNothing, FetchAnswer, TimeOut, CallFails,
     Complete, Guest, GetNext, Respond, DropAnswer, StoreAnswer, StopWaiting, StoreLate, Abandon,
     vars
<1>2. ~Host
  BY DEF Host, SendQuestion, StoreQuestion, FetchNothing, FetchAnswer, TimeOut, CallFails, Complete
<1>3. messages' = messages \/ \E m : messages' = messages \cup {m} /\ m.sender = "AGENT"
  <2>1. ASSUME NEW w \in Workers, StoreAnswer(w)
        PROVE  \E m : messages' = messages \cup {m} /\ m.sender = "AGENT"
    BY <2>1 DEF StoreAnswer, IndInv, GuestInv, Answering
  <2>2. ASSUME StoreLate
        PROVE  messages' = messages \/ \E m : messages' = messages \cup {m} /\ m.sender = "AGENT"
    BY <2>2 DEF StoreLate, IndInv, GuestInv, Answering
  <2>3. \/ messages' = messages \/ StoreLate
        \/ \E w \in Workers : StoreAnswer(w)
    BY <1>2 DEF Next, Guest, GetNext, Respond, DropAnswer, StopWaiting, Abandon, vars
  <2> QED
    BY <2>1, <2>2, <2>3
<1>4. \A t \in 1..Len(heard) : heard[t] \in messages
  BY DEF IndInv, HeardNotFromTheFuture
<1> QED
  BY <1>1, <1>3, <1>4 DEF hostVars, Unheard

\* What was whole stays so, with what is stored later.
LEMMA WholeStays ==
  ASSUME IndInv, [Next]_vars, NEW read, Whole(read)
  PROVE  Whole(read)'
BY AfterTheEnd DEF Whole, Unheard

LEMMA WholeOfConversation ==
  ASSUME NEW read, Whole(read), UNCHANGED vars
  PROVE  Whole(read)'
BY DEF Whole, Unheard, vars, hostVars

LEMMA MessagesGrow == [Next]_vars => messages \subseteq messages'
BY DEF Next, Host, SendQuestion, StoreQuestion, FetchNothing, FetchAnswer, TimeOut, CallFails, Fail,
   Complete, Guest, GetNext, Respond, DropAnswer, StoreAnswer, StopWaiting, StoreLate, Abandon, vars

\* The interview's steps, the builds left alone.
LEMMA InterviewStep ==
  ASSUME TranscriptInv, [Next]_vars, IndInv', UNCHANGED buildVars
  PROVE  TranscriptInv'
<1> USE DEF TranscriptInv, buildVars
<1>1. messages \subseteq messages'
  BY MessagesGrow
<1>2. TranscriptTypeOK'
  BY <1>1 DEF TranscriptTypeOK, IndInv
<1>3. ASSUME NEW read, Whole(read) PROVE Whole(read)'
  BY <1>3, WholeStays
<1>4. (transcript # {} => Whole(transcript))'
  BY <1>3 DEF Whole, Unheard
<1>5. ASSUME NEW b \in Builders, build[b].pc \in {"checking", "storing"} PROVE Whole(build[b].read)'
  BY <1>3, <1>5 DEF Whole, Unheard
<1> QED
  BY <1>2, <1>4, <1>5

\* The builds' steps, the interview left alone.
LEMMA BuildStep ==
  ASSUME TranscriptInv, NEW b \in Builders, Build(b), IndInv'
  PROVE  TranscriptInv'
<1> USE DEF TranscriptInv
<1>1. UNCHANGED vars
  BY DEF Build, ReadMessages, LookForTranscript, Store, BuildFails
<1>2. ASSUME NEW read PROVE Whole(read)' <=> Whole(read)
  BY <1>1 DEF Whole, Unheard, vars, hostVars
<1>3. UNCHANGED messages
  BY <1>1 DEF vars
<1>4. hostPc = "done" => Whole(messages)
  BY DEF Whole
<1>5. CASE ReadMessages(b)
  <2>1. build' = [build EXCEPT ![b] = Building(messages)] /\ Whole(messages) /\ UNCHANGED transcript
    BY <1>4, <1>5 DEF ReadMessages, ReadAll
  <2>2. TranscriptTypeOK'
    BY <1>3, <2>1 DEF TranscriptTypeOK, IndInv, Building
  <2>3. \A c \in Builders : build'[c].pc \in {"checking", "storing"} => Whole(build'[c].read)
    BY <2>1 DEF TranscriptTypeOK, Building
  <2> QED
    BY <1>2, <2>1, <2>2, <2>3
<1>6. CASE LookForTranscript(b)
  <2>1. PICK found \in BOOLEAN : build' = [build EXCEPT ![b] = Storing(build[b].read, found)]
    BY <1>6 DEF LookForTranscript
  <2>2. build[b].pc = "checking" /\ build[b].read \subseteq messages /\ UNCHANGED transcript
    BY <1>6 DEF LookForTranscript, TranscriptTypeOK, NotBegun, Ended
  <2>3. TranscriptTypeOK'
    BY <1>3, <2>1, <2>2 DEF TranscriptTypeOK, IndInv, Storing
  <2>4. \A c \in Builders : build'[c].pc \in {"checking", "storing"} => Whole(build'[c].read)
    BY <2>1, <2>2 DEF TranscriptTypeOK, Storing
  <2> QED
    BY <1>2, <2>2, <2>3, <2>4
<1>7. CASE Store(b)
  <2>1. /\ build[b].pc = "storing" /\ build[b].read \subseteq messages
        /\ transcript' = build[b].read /\ build' = [build EXCEPT ![b] = Ended]
    BY <1>7 DEF Store, TranscriptTypeOK, NotBegun, Ended
  <2>2. TranscriptTypeOK'
    BY <1>3, <2>1 DEF TranscriptTypeOK, IndInv
  <2>3. \A c \in Builders : build'[c].pc \in {"checking", "storing"} => Whole(build'[c].read)
    BY <2>1 DEF TranscriptTypeOK, Ended
  <2>4. Whole(transcript')
    BY <2>1
  <2> QED
    BY <1>2, <2>2, <2>3, <2>4
<1>8. CASE BuildFails(b)
  <2>1. build' = [build EXCEPT ![b] = Ended] /\ UNCHANGED transcript
    BY <1>8 DEF BuildFails
  <2>2. TranscriptTypeOK'
    BY <1>3, <2>1 DEF TranscriptTypeOK, IndInv
  <2>3. \A c \in Builders : build'[c].pc \in {"checking", "storing"} => Whole(build'[c].read)
    BY <2>1 DEF TranscriptTypeOK, Ended
  <2> QED
    BY <1>2, <2>1, <2>2, <2>3
<1> QED
  BY <1>5, <1>6, <1>7, <1>8 DEF Build

LEMMA TranscriptNextInd == TranscriptInv /\ [TranscriptNext]_allVars => TranscriptInv'
<1> SUFFICES ASSUME TranscriptInv, [TranscriptNext]_allVars PROVE TranscriptInv'
  OBVIOUS
<1>1. [Next]_vars
  BY ConversationStep
<1>2. IndInv'
  BY <1>1, NextInd DEF TranscriptInv
<1>3. UNCHANGED buildVars \/ \E b \in Builders : Build(b)
  BY DEF TranscriptNext, allVars
<1> QED
  BY <1>1, <1>2, <1>3, InterviewStep, BuildStep

\* The invariant of the transcripts, that of the interview included.
THEOREM TranscriptInvariance == TranscriptSpec => []TranscriptInv
BY TranscriptInitInd, TranscriptNextInd, PTL DEF TranscriptSpec

\* A stored transcript lacks no question and no answer the host took, however
\* builds, retries and late answers interleave.
THEOREM NothingHeardMissing == TranscriptSpec => []OnlyUnheardMissing
<1>1. TranscriptInv => OnlyUnheardMissing
  BY DEF TranscriptInv, Whole, Unheard, OnlyUnheardMissing
<1> QED
  BY <1>1, TranscriptInvariance, PTL
-----------------------------------------------------------------------------
\* A guest with one worker that waits for its replies.

\* After the host is done, such a guest has nothing left to say.
LEMMA NothingAfterTheEnd ==
  ASSUME CarefulGuest, IndInv, CarefulInv, [Next]_vars, hostPc = "done"
  PROVE  messages' = messages /\ hostPc' = "done"
<1>1. \A w \in Workers : worker[w].pc # "posting"
  BY DEF CarefulInv, Idle
<1>2. ~StoreLate
  BY DEF StoreLate, CarefulInv
<1> QED
  BY <1>1, <1>2
  DEF Next, Host, SendQuestion, StoreQuestion, FetchNothing, FetchAnswer, TimeOut, CallFails,
     Complete, Guest, GetNext, Respond, DropAnswer, StoreAnswer, StopWaiting, Abandon, vars,
     hostVars

LEMMA DialogueInitInd == TranscriptInit => DialogueInv
BY DEF TranscriptInit, DialogueInv, NotBegun

LEMMA DialogueNextInd ==
  ASSUME CarefulGuest, TranscriptInv, CarefulInv, DialogueInv, [TranscriptNext]_allVars
  PROVE  DialogueInv'
<1> USE DEF DialogueInv
<1>1. CASE UNCHANGED buildVars
  <2>1. [Next]_vars
    BY ConversationStep
  <2>2. CASE hostPc = "done"
    BY <1>1, <2>1, <2>2, NothingAfterTheEnd DEF buildVars, TranscriptInv
  <2>3. CASE hostPc # "done"
    BY <1>1, <2>3 DEF buildVars, TranscriptInv, Whole
  <2> QED
    BY <2>2, <2>3
<1>2. ASSUME NEW b \in Builders, Build(b) PROVE DialogueInv'
  <2>1. UNCHANGED <<messages, hostPc>>
    BY <1>2 DEF Build, ReadMessages, LookForTranscript, Store, BuildFails, vars, hostVars
  <2>2. build[b].pc = "storing" => build[b].read = messages /\ hostPc = "done"
    BY DEF TranscriptInv, Whole
  <2>3. transcript' = transcript \/ (transcript' = messages /\ hostPc = "done")
    BY <1>2, <2>2 DEF Build, ReadMessages, LookForTranscript, Store, BuildFails
  <2>4. \/ build' = [build EXCEPT ![b] = Building(messages)]
        \/ /\ build[b].pc = "checking"
           /\ \E found \in BOOLEAN : build' = [build EXCEPT ![b] = Storing(build[b].read, found)]
        \/ build' = [build EXCEPT ![b] = Ended]
    BY <1>2 DEF Build, ReadMessages, LookForTranscript, Store, BuildFails, ReadAll
  <2>5. \A c \in Builders : build'[c].pc \in {"checking", "storing"} => build'[c].read = messages
    BY <2>4 DEF TranscriptInv, TranscriptTypeOK, Building, Storing, Ended
  <2> QED
    BY <2>1, <2>3, <2>5
<1> QED
  BY <1>1, <1>2 DEF TranscriptNext, allVars

\* At the end each slot has its message.
LEMMA AllSlots ==
  ASSUME IndInv, CarefulInv, hostPc = "done"
  PROVE  Cardinality(messages) = 2 * MaxTurns
<1>1. /\ turn = MaxTurns /\ MaxTurns \in Nat \ {0}
      /\ \A q \in 1..MaxTurns : Asked(q) /\ Answered(q)
  <2>1. turn = MaxTurns /\ MaxTurns \in Nat \ {0}
    BY TurnsAssumption DEF IndInv, HeardInv
  <2>2. \A q \in 1..MaxTurns : q \in 1..(turn - 1) \/ q = turn
    BY <2>1
  <2> QED
    BY <2>1, <2>2 DEF CarefulInv
<1>2. PICK n \in Nat : n = 2 * MaxTurns
  BY <1>1
<1> DEFINE number == [m \in messages |-> m.seq]
<1>3. number \in [messages -> 1..n]
  BY <1>1, <1>2, MessagesTyped DEF CarefulInv, Slots
<1>4. ASSUME NEW k \in 1..n PROVE \E m \in messages : number[m] = k
  <2>1. (k + 1) \div 2 \in 1..MaxTurns
    BY <1>1, <1>2
  <2>2. PICK q \in 1..MaxTurns : q = (k + 1) \div 2
    BY <2>1
  <2>3. k = 2 * q - 1 \/ k = 2 * q
    BY <1>2, <2>2
  <2>4. PICK m \in messages : m.sender = "HOST" /\ m.q = q
    BY <1>1 DEF Asked
  <2>5. PICK a \in messages : a.sender = "AGENT" /\ a.q = q
    BY <1>1 DEF Answered
  <2>6. m.seq = 2 * q - 1 /\ a.seq = 2 * q
    BY <2>4, <2>5 DEF CarefulInv, Slots
  <2> QED
    BY <2>3, <2>6
<1>5. \A l, m \in messages : number[l] = number[m] => l = m
  BY DEF CarefulInv, UniqueSequence
<1>6. ExistsBijection(messages, 1..n)
  <2>1. number \in Bijection(messages, 1..n)
    BY <1>3, <1>4, <1>5, Fun_IsBij
  <2> QED
    BY <2>1 DEF ExistsBijection
<1>7. ExistsBijection(1..n, messages)
  BY <1>6, Fun_ExistsBijSymmetric
<1> QED
  BY <1>2, <1>7, FS_CountingElements

\* In the order of their numbers each answer stands right behind its question.
LEMMA DialogueIsTranscribed ==
  IndInv /\ CarefulInv /\ DialogueInv => TranscriptIsDialogue
<1> SUFFICES ASSUME IndInv, CarefulInv, DialogueInv, transcript # {}
             PROVE  /\ Cardinality(transcript) = 2 * MaxTurns
                    /\ \A t \in 1..MaxTurns :
                         /\ heard[t] \in transcript
                         /\ \E m \in transcript : m.sender = "HOST" /\ m.q = t
                         /\ \A m \in transcript : m.q < t => m.seq < heard[t].seq
                         /\ \A m \in transcript :
                              m.sender = "HOST" /\ m.q = t => m.seq < heard[t].seq
  BY DEF TranscriptIsDialogue
<1>1. transcript = messages /\ hostPc = "done"
  BY DEF DialogueInv
<1>2. Cardinality(transcript) = 2 * MaxTurns
  BY <1>1, AllSlots
<1>3. Len(heard) = MaxTurns /\ turn = MaxTurns /\ MaxTurns \in Nat \ {0}
  BY <1>1, TurnsAssumption DEF IndInv, HeardInv
<1> SUFFICES ASSUME NEW t \in 1..MaxTurns
             PROVE  /\ heard[t] \in messages
                    /\ \E m \in messages : m.sender = "HOST" /\ m.q = t
                    /\ \A m \in messages : m.q < t => m.seq < heard[t].seq
                    /\ \A m \in messages : m.sender = "HOST" /\ m.q = t => m.seq < heard[t].seq
  BY <1>1, <1>2
<1>4. heard[t] \in messages /\ heard[t].sender = "AGENT" /\ heard[t].q = t
  BY <1>3 DEF IndInv, HeardNotFromTheFuture, HeardInv, CarefulInv, AnswersCurrentQuestion
<1>5. heard[t].seq = 2 * t
  BY <1>4 DEF CarefulInv, Slots
<1>6. Asked(t)
  BY <1>1, <1>3 DEF CarefulInv
<1>7. \A m \in messages : m.seq \in Nat /\ m.q \in Nat /\ m.seq <= 2 * m.q
                          /\ (m.sender = "HOST" => m.seq < 2 * m.q)
  BY MessagesTyped DEF CarefulInv, Slots
<1> QED
  BY <1>4, <1>5, <1>6, <1>7 DEF Asked

\* The transcript of a guest that waits for its replies has one question and
\* one answer for each turn, in their order, and nothing else.
THEOREM TheTranscriptIsTheDialogue ==
  ASSUME CarefulGuest PROVE TranscriptSpec => []TranscriptIsDialogue
<1>1. TranscriptSpec => []CarefulInv
  BY InterviewUnderTranscripts, CarefulInvariance, PTL
<1>2. TranscriptInv /\ CarefulInv /\ DialogueInv /\ [TranscriptNext]_allVars => DialogueInv'
  BY DialogueNextInd
<1>3. TranscriptSpec => []DialogueInv
  BY <1>1, <1>2, DialogueInitInd, TranscriptInvariance, PTL DEF TranscriptSpec
<1>4. TranscriptInv /\ CarefulInv /\ DialogueInv => TranscriptIsDialogue
  BY DialogueIsTranscribed DEF TranscriptInv
<1> QED
  BY <1>1, <1>3, <1>4, TranscriptInvariance, PTL
=============================================================================
