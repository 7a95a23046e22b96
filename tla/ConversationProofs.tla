------------------------- MODULE ConversationProofs -------------------------
(***************************************************************************)
(* Proofs about Conversation, for any number of turns, answers and         *)
(* workers: first whatever the guest's clients do, then for a guest with   *)
(* one worker that waits for its replies, whose interview is the one of    *)
(* Dialogue.                                                               *)
(***************************************************************************)
EXTENDS Conversation, SequenceTheorems, TLAPS

-----------------------------------------------------------------------------
\* The numbers the backend gives.

LEMMA LatestOfMore ==
  ASSUME messages \subseteq Message, LatestInv, NEW n \in Message, messages' = messages \cup {n}
  PROVE  LatestInv'
<1>1. ASSUME messages = {} PROVE n \in Latest(messages')
  BY <1>1 DEF Latest, Message
<1>2. ASSUME NEW m \in Latest(messages),
             n.seq < m.seq \/ (n.seq = m.seq /\ n.timestamp <= m.timestamp)
      PROVE  m \in Latest(messages')
  BY <1>2 DEF Latest
<1>3. ASSUME NEW m \in Latest(messages),
             m.seq < n.seq \/ (n.seq = m.seq /\ m.timestamp < n.timestamp)
      PROVE  n \in Latest(messages')
  BY <1>3 DEF Latest, Message
<1>4. \A m \in Latest(messages) : m \in Message
  BY DEF Latest
<1>5. ASSUME NEW m \in Latest(messages) PROVE Latest(messages') # {}
  <2>1. m.seq \in Nat /\ n.seq \in Nat /\ m.timestamp \in Nat /\ n.timestamp \in Nat
    BY <1>4 DEF Message
  <2>2. \/ n.seq < m.seq \/ (n.seq = m.seq /\ n.timestamp <= m.timestamp)
        \/ m.seq < n.seq \/ (n.seq = m.seq /\ m.timestamp < n.timestamp)
    BY <2>1
  <2> QED
    BY <1>2, <1>3, <2>2
<1> QED
  BY <1>1, <1>5 DEF LatestInv

\* max + 1 is past every number in use, and no further than one past.
LEMMA Numbered ==
  ASSUME messages \subseteq Message, LatestInv
  PROVE  /\ NextSeq \in Nat \ {0}
         /\ \A m \in messages : m.seq < NextSeq
         /\ messages = {} => NextSeq = 1
         /\ messages # {} => \E m \in messages : NextSeq = m.seq + 1
<1>1. CASE messages = {}
  BY <1>1 DEF NextSeq, MaxSeq
<1>2. CASE messages # {}
  <2>1. PICK l \in Latest(messages) : l = CHOOSE m \in Latest(messages) : TRUE
    BY <1>2 DEF LatestInv
  <2>2. l \in messages /\ l.seq \in Nat /\ \A m \in messages : m.seq \in Nat /\ m.seq <= l.seq
    BY DEF Latest, Message
  <2>3. NextSeq = l.seq + 1
    BY <1>2, <2>1 DEF NextSeq, MaxSeq
  <2> QED
    BY <1>2, <2>2, <2>3
<1> QED
  BY <1>1, <1>2

-----------------------------------------------------------------------------
\* Whatever the guest's clients do.

LEMMA InitInd == Init => IndInv
<1> SUFFICES ASSUME Init PROVE IndInv
  OBVIOUS
<1>1. TypeOK
  <2>1. worker \in [Workers -> Worker]
    BY DEF Init, Worker
  <2>2. heard \in Seq(Message)
    BY DEF Init
  <2>3. turn \in 1..MaxTurns /\ posts \in 0..MaxPosts /\ clock \in Nat
    BY TurnsAssumption, PostsAssumption DEF Init
  <2>4. hostPc = "ask" /\ messages = {} /\ late = {} /\ status = "IN_PROGRESS" /\ polled = FALSE
    BY DEF Init
  <2> QED
    BY <2>1, <2>2, <2>3, <2>4 DEF TypeOK
<1> QED
  BY <1>1 DEF Init, IndInv, QuestionsInOrder, HeardNotFromTheFuture, LatestInv, HostInv, HeardInv,
     GuestInv, Idle

\* A new answer disturbs neither the questions nor what was said of answers.
LEMMA AnswerAdded ==
  ASSUME IndInv, NEW m \in Message, Answering(m), messages' \in {messages, messages \cup {m}},
         UNCHANGED hostVars
  PROVE  /\ messages' \subseteq Message
         /\ QuestionsInOrder' /\ HeardNotFromTheFuture' /\ LatestInv' /\ HostInv' /\ HeardInv'
         /\ \A n \in messages' : n.sender = "AGENT" => Answering(n)'
         /\ \A n \in Message : Answering(n) => Answering(n)'
         /\ \A q \in 1..MaxTurns : Asked(q)' <=> Asked(q)
<1> USE DEF IndInv, hostVars
<1>1. messages' \subseteq Message /\ messages \subseteq messages' /\ m.sender = "AGENT"
  BY DEF TypeOK, Answering
<1>2. LatestInv'
  BY LatestOfMore DEF TypeOK, LatestInv, Latest
<1>3. \A q \in 1..MaxTurns : Asked(q)' <=> Asked(q)
  BY <1>1 DEF Asked
<1>4. \A n \in Message : Answering(n)' <=> Answering(n)
  BY <1>3 DEF Answering, Message
<1>5. \A n \in messages' : n.sender = "AGENT" => Answering(n)'
  BY <1>1, <1>4 DEF GuestInv
<1>6. QuestionsInOrder' /\ HeardNotFromTheFuture' /\ HeardInv'
  BY <1>1 DEF QuestionsInOrder, HeardNotFromTheFuture, HeardInv
<1>7. HostInv'
  BY <1>1, <1>3 DEF HostInv, TypeOK
<1> QED
  BY <1>1, <1>2, <1>3, <1>4, <1>5, <1>6, <1>7
\* A new question is numbered past those before it.
LEMMA QuestionAdded ==
  ASSUME IndInv, hostPc = "storing", messages' = messages \cup {draft}, UNCHANGED <<turn, heard>>,
         hostPc' \in {"waiting", "failed"}, UNCHANGED guestVars
  PROVE  /\ messages' \subseteq Message
         /\ QuestionsInOrder' /\ HeardNotFromTheFuture' /\ LatestInv'
         /\ \A n \in messages' : n.sender = "HOST" => n.q <= turn
         /\ Asked(turn)'
         /\ GuestInv'
<1> USE DEF IndInv
<1>1. draft \in Message /\ draft.sender = "HOST" /\ draft.q = turn /\ draft.seq >= 2 * turn - 1
  BY DEF TypeOK, HostInv
<1>2. messages' \subseteq Message /\ messages \subseteq messages'
  BY <1>1 DEF TypeOK
<1>3. LatestInv'
  BY <1>1, LatestOfMore DEF TypeOK
<1>4. \A m \in messages : m.sender = "HOST" => m.q < turn /\ m.seq < draft.seq
  BY DEF HostInv, TypeOK, Message
<1>5. QuestionsInOrder'
  <2>1. \A m \in messages' : m.sender = "HOST" => m \in messages \/ m = draft
    OBVIOUS
  <2>2. \A m \in messages' : m.seq \in Nat /\ m.q \in Nat
    BY <1>2 DEF Message
  <2> QED
    BY <1>1, <1>4, <2>1, <2>2 DEF QuestionsInOrder
<1>6. HeardNotFromTheFuture'
  BY <1>2 DEF HeardNotFromTheFuture
<1>7. Asked(turn)' /\ \A n \in messages' : n.sender = "HOST" => n.q <= turn
  BY <1>1, <1>4 DEF Asked, TypeOK, Message
<1>8. \A n \in Message : Answering(n) => Answering(n)'
  BY <1>2 DEF Answering, Asked
<1>9. GuestInv'
  <2>1. \A q \in 1..MaxTurns : Asked(q) => Asked(q)'
    BY <1>2 DEF Asked
  <2>2. \A m \in messages' : m.sender = "AGENT" => Answering(m)'
    BY <1>1, <1>8 DEF GuestInv, TypeOK
  <2>3. \A w \in Workers : worker[w].pc = "holding" => worker[w].q \in 1..MaxTurns
    BY DEF TypeOK, Worker, Idle
  <2>4. \A w \in Workers : worker[w].pc = "posting" => worker[w].answer \in Message
    BY DEF TypeOK, Worker, Idle
  <2> QED
    BY <1>8, <2>1, <2>2, <2>3, <2>4 DEF GuestInv, TypeOK, guestVars
<1> QED
  BY <1>2, <1>3, <1>5, <1>6, <1>7, <1>9

\* The steps of the host.

LEMMA SendQuestionStep == ASSUME IndInv, SendQuestion PROVE IndInv'
<1> USE DEF IndInv, SendQuestion, guestVars
<1>1. /\ Question \in Message
      /\ Question.sender = "HOST" /\ Question.q = turn /\ Question.seq >= 2 * turn - 1
      /\ \A m \in messages : m.seq < Question.seq
  <2>1. NextSeq \in Nat /\ \A m \in messages : m.seq \in Nat /\ m.seq < NextSeq
    BY Numbered DEF TypeOK, Message
  <2>2. Larger(2 * turn - 1, NextSeq) \in Nat
    BY <2>1 DEF Larger, TypeOK
  <2> QED
    BY <2>1, <2>2 DEF Question, Larger, TypeOK, Message
<1>2. TypeOK'
  BY <1>1 DEF TypeOK
<1>3. HostInv'
  BY <1>1 DEF HostInv
<1> QED
  BY <1>2, <1>3 DEF QuestionsInOrder, HeardNotFromTheFuture, LatestInv, Latest, HeardInv, GuestInv,
     Answering, Asked

LEMMA StoreQuestionStep == ASSUME IndInv, StoreQuestion PROVE IndInv'
<1>1. /\ messages' \subseteq Message
      /\ QuestionsInOrder' /\ HeardNotFromTheFuture' /\ LatestInv'
      /\ \A n \in messages' : n.sender = "HOST" => n.q <= turn
      /\ Asked(turn)'
      /\ GuestInv'
  BY QuestionAdded DEF StoreQuestion
<1> USE DEF IndInv, StoreQuestion, guestVars
<1>2. TypeOK'
  BY <1>1 DEF TypeOK
<1>3. HostInv'
  BY <1>1 DEF HostInv, Asked
<1>4. HeardInv'
  BY DEF HeardInv
<1> QED
  BY <1>1, <1>2, <1>3, <1>4

LEMMA FetchNothingStep == ASSUME IndInv, FetchNothing PROVE IndInv'
<1> USE DEF IndInv, FetchNothing, guestVars
<1>1. TypeOK'
  BY DEF TypeOK
<1> QED
  BY <1>1 DEF QuestionsInOrder, HeardNotFromTheFuture, LatestInv, Latest, HostInv, HeardInv,
     GuestInv,
     Answering, Asked

\* What the host hears is an answer numbered past the question, written for a
\* question already asked.
LEMMA HeardOne ==
  ASSUME IndInv, FetchAnswer
  PROVE  \E m \in messages :
           /\ m.sender = "AGENT" /\ m.seq >= 2 * turn /\ m.q <= turn
           /\ heard' = Append(heard, m)
           /\ Len(heard) = turn - 1 /\ Len(heard') = turn
           /\ heard'[turn] = m
           /\ \A t \in 1..(turn - 1) : heard'[t] = heard[t]
<1> USE DEF IndInv, FetchAnswer
<1>1. PICK m \in Fetched : heard' = Append(heard, m)
  OBVIOUS
<1>2. m \in messages /\ m \in Message /\ m.sender = "AGENT" /\ m.seq >= 2 * turn
  BY DEF Fetched, Acceptable, TypeOK
<1>3. m.q <= turn
  BY <1>2 DEF GuestInv, Answering, Asked, HostInv, TypeOK, Message
<1>4. Len(heard) = turn - 1 /\ turn \in Nat /\ heard \in Seq(Message)
  BY DEF HeardInv, TypeOK
<1> QED
  BY <1>1, <1>2, <1>3, <1>4

LEMMA FetchAnswerStep == ASSUME IndInv, FetchAnswer PROVE IndInv'
<1> USE DEF IndInv, FetchAnswer, guestVars
<1>1. PICK m \in messages :
        /\ m.sender = "AGENT" /\ m.seq >= 2 * turn /\ m.q <= turn
        /\ heard' = Append(heard, m)
        /\ Len(heard) = turn - 1 /\ Len(heard') = turn
        /\ heard'[turn] = m
        /\ \A t \in 1..(turn - 1) : heard'[t] = heard[t]
  BY HeardOne
<1>2. TypeOK'
  <2>1. heard' \in Seq(Message)
    BY <1>1 DEF TypeOK
  <2>2. turn' \in 1..MaxTurns /\ hostPc' \in {"ask", "finishing"}
    BY TurnsAssumption DEF TypeOK
  <2> QED
    BY <2>1, <2>2 DEF TypeOK
<1>3. turn \in 1..MaxTurns /\ \A t \in 1..Len(heard') : t \in 1..(turn - 1) \/ t = turn
  BY <1>1 DEF TypeOK
<1>4. HeardNotFromTheFuture'
  BY <1>1, <1>3 DEF HeardNotFromTheFuture
<1>5. HeardInv'
  <2>1. \A t \in 1..Len(heard') : heard'[t].sender = "AGENT"
    BY <1>1, <1>3 DEF HeardInv
  <2>2. \/ hostPc' = "ask" /\ turn' = turn + 1
        \/ hostPc' = "finishing" /\ turn' = turn /\ turn = MaxTurns
    BY DEF TypeOK
  <2> QED
    BY <1>1, <1>3, <2>1, <2>2 DEF HeardInv
<1>6. HostInv'
  <2>1. \/ hostPc' = "ask" /\ turn' = turn + 1
        \/ hostPc' = "finishing" /\ turn' = turn
    BY DEF TypeOK
  <2>2. \A n \in messages : n.q \in Nat
    BY DEF TypeOK, Message
  <2> QED
    BY <1>3, <2>1, <2>2 DEF HostInv
<1> QED
  BY <1>2, <1>4, <1>5, <1>6 DEF QuestionsInOrder, LatestInv, Latest, GuestInv, Answering, Asked

LEMMA TimeOutStep == ASSUME IndInv, TimeOut PROVE IndInv'
<1> USE DEF IndInv, TimeOut, Fail, guestVars
<1>1. TypeOK'
  BY DEF TypeOK
<1> QED
  BY <1>1 DEF QuestionsInOrder, HeardNotFromTheFuture, LatestInv, Latest, HostInv, HeardInv,
     GuestInv,
     Answering, Asked

LEMMA CallFailsStep == ASSUME IndInv, CallFails PROVE IndInv'
<1> USE DEF IndInv, Fail, guestVars
<1>1. CASE UNCHANGED messages
  <2>1. TypeOK'
    BY <1>1 DEF TypeOK, CallFails
  <2> QED
    BY <1>1, <2>1 DEF CallFails, QuestionsInOrder, HeardNotFromTheFuture, LatestInv, Latest,
       HostInv,
       HeardInv, GuestInv, Answering, Asked
<1>2. CASE hostPc = "storing" /\ messages' = messages \cup {draft}
  <2>1. /\ messages' \subseteq Message
        /\ QuestionsInOrder' /\ HeardNotFromTheFuture' /\ LatestInv'
        /\ \A n \in messages' : n.sender = "HOST" => n.q <= turn
        /\ GuestInv'
    BY <1>2, QuestionAdded DEF CallFails
  <2>2. TypeOK'
    BY <1>2, <2>1 DEF TypeOK, CallFails
  <2>3. HostInv' /\ HeardInv'
    BY <1>2, <2>1 DEF HostInv, HeardInv, CallFails
  <2> QED
    BY <2>1, <2>2, <2>3
<1> QED
  BY <1>1, <1>2 DEF CallFails

LEMMA CompleteStep == ASSUME IndInv, Complete PROVE IndInv'
<1> USE DEF IndInv, Complete, guestVars
<1>1. TypeOK'
  BY DEF TypeOK
<1> QED
  BY <1>1 DEF QuestionsInOrder, HeardNotFromTheFuture, LatestInv, Latest, HostInv, HeardInv,
     GuestInv,
     Answering, Asked
\* The steps of the guest and of the backend.

LEMMA WorkerTyped ==
  ASSUME TypeOK, NEW w \in Workers
  PROVE  /\ worker[w].pc = "holding" => worker[w].q \in 1..MaxTurns
         /\ worker[w].pc = "posting" => worker[w].answer \in Message
BY DEF TypeOK, Worker, Idle

\* A step of one worker, all messages and the host left alone.
LEMMA WorkerMoves ==
  ASSUME IndInv, NEW w \in Workers, NEW x \in Worker, worker' = [worker EXCEPT ![w] = x],
         UNCHANGED <<messages, status, hostVars>>,
         x.pc = "holding" => Asked(x.q),
         x.pc = "posting" => Answering(x.answer),
         late' \subseteq Message, \A m \in late' : Answering(m),
         posts' \in 0..MaxPosts, clock' \in Nat
  PROVE  IndInv'
<1> USE DEF IndInv, hostVars
<1>1. TypeOK'
  BY DEF TypeOK
<1>2. \A v \in Workers : worker'[v] = IF v = w THEN x ELSE worker[v]
  BY DEF TypeOK
<1>3. GuestInv'
  <2>1. \A q : Asked(q)' <=> Asked(q)
    BY DEF Asked
  <2>2. \A m : Answering(m)' <=> Answering(m)
    BY <2>1 DEF Answering
  <2> QED
    BY <1>2, <2>1, <2>2 DEF GuestInv
<1> QED
  BY <1>1, <1>3 DEF QuestionsInOrder, HeardNotFromTheFuture, LatestInv, Latest, HostInv, HeardInv,
     Asked

LEMMA GetNextStep ==
  ASSUME IndInv, NEW w \in Workers, GetNext(w) PROVE IndInv'
<1>1. PICK m \in messages : m.sender = "HOST" /\ worker' = [worker EXCEPT ![w] = Holding(m.q)]
  BY DEF GetNext, Latest
<1>2. Holding(m.q) \in Worker /\ Holding(m.q).pc = "holding" /\ Asked(Holding(m.q).q)
  BY <1>1 DEF IndInv, TypeOK, Message, Worker, Holding, Asked
<1> QED
  BY <1>1, <1>2, WorkerMoves DEF GetNext, IndInv, TypeOK, GuestInv

\* The answer to a question that was asked is numbered past it.
LEMMA AnswerAnswers ==
  ASSUME IndInv, NEW q \in 1..MaxTurns, Asked(q)
  PROVE  AnswerTo(q) \in Message /\ Answering(AnswerTo(q))
<1> USE DEF IndInv
<1>1. NextSeq \in Nat /\ \A m \in messages : m.seq < NextSeq /\ m \in Message
  BY Numbered DEF TypeOK
<1>2. PICK m \in messages : m.sender = "HOST" /\ m.q = q
  BY DEF Asked
<1>3. m.seq >= 2 * q - 1
  BY <1>2 DEF QuestionsInOrder
<1>4. NextSeq >= 2 * q
  BY <1>1, <1>2, <1>3 DEF Message
<1> QED
  BY <1>1, <1>4 DEF AnswerTo, Message, Answering, TypeOK

LEMMA RespondStep ==
  ASSUME IndInv, NEW w \in Workers, Respond(w) PROVE IndInv'
<1>1. worker[w].q \in 1..MaxTurns /\ Asked(worker[w].q)
  BY WorkerTyped DEF Respond, IndInv, GuestInv
<1>2. PICK a \in Message : a = AnswerTo(worker[w].q) /\ Answering(a)
  BY <1>1, AnswerAnswers
<1>3. /\ Posting(a) \in Worker
      /\ Posting(a).pc = "posting" /\ Posting(a).answer = a
  BY DEF Posting, Worker
<1>4. worker' = [worker EXCEPT ![w] = Posting(a)]
  BY <1>2 DEF Respond
<1>5. posts' \in 0..MaxPosts /\ clock' \in Nat
  BY PostsAssumption DEF Respond, IndInv, TypeOK
<1> QED
  BY <1>2, <1>3, <1>4, <1>5, WorkerMoves DEF Respond, IndInv, TypeOK, GuestInv

LEMMA DropAnswerStep ==
  ASSUME IndInv, NEW w \in Workers, DropAnswer(w) PROVE IndInv'
<1>1. Idle \in Worker /\ Idle.pc = "idle"
  BY DEF Idle, Worker
<1> QED
  BY <1>1, WorkerMoves DEF DropAnswer, IndInv, TypeOK, GuestInv

LEMMA StoreAnswerStep ==
  ASSUME IndInv, NEW w \in Workers, StoreAnswer(w) PROVE IndInv'
<1>1. PICK m \in Message : m = worker[w].answer /\ Answering(m)
  BY WorkerTyped DEF StoreAnswer, IndInv, GuestInv
<1>2. /\ messages' \subseteq Message
      /\ QuestionsInOrder' /\ HeardNotFromTheFuture' /\ LatestInv' /\ HostInv' /\ HeardInv'
      /\ \A n \in messages' : n.sender = "AGENT" => Answering(n)'
      /\ \A n \in Message : Answering(n) => Answering(n)'
      /\ \A q \in 1..MaxTurns : Asked(q)' <=> Asked(q)
  BY <1>1, AnswerAdded DEF StoreAnswer
<1>3. TypeOK'
  BY <1>2 DEF StoreAnswer, IndInv, TypeOK, Worker, hostVars
<1>4. \A v \in Workers : worker'[v] = IF v = w THEN Idle ELSE worker[v]
  BY DEF StoreAnswer, IndInv, TypeOK
<1>5. GuestInv'
  BY <1>2, <1>4, WorkerTyped DEF StoreAnswer, IndInv, TypeOK, GuestInv, Idle
<1> QED
  BY <1>2, <1>3, <1>5 DEF IndInv

LEMMA StopWaitingStep ==
  ASSUME IndInv, NEW w \in Workers, StopWaiting(w) PROVE IndInv'
<1>1. PICK m \in Message : m = worker[w].answer /\ Answering(m)
  BY WorkerTyped DEF StopWaiting, IndInv, GuestInv
<1>2. Holding(m.q) \in Worker /\ Holding(m.q).pc = "holding" /\ Asked(Holding(m.q).q)
  BY <1>1 DEF Message, Worker, Holding, Answering
<1>3. worker' = [worker EXCEPT ![w] = Holding(m.q)] /\ late' = late \cup {m}
  BY <1>1 DEF StopWaiting
<1> QED
  BY <1>1, <1>2, <1>3, WorkerMoves DEF StopWaiting, IndInv, TypeOK, GuestInv

LEMMA StoreLateStep ==
  ASSUME IndInv, StoreLate PROVE IndInv'
<1>1. PICK m \in late :
        /\ late' = late \ {m}
        /\ messages' \in {messages, messages \cup {m}}
        /\ UNCHANGED <<status, hostVars, worker, posts, clock>>
  BY DEF StoreLate
<1>2. m \in Message /\ Answering(m)
  BY DEF IndInv, TypeOK, GuestInv
<1>3. /\ messages' \subseteq Message
      /\ QuestionsInOrder' /\ HeardNotFromTheFuture' /\ LatestInv' /\ HostInv' /\ HeardInv'
      /\ \A n \in messages' : n.sender = "AGENT" => Answering(n)'
      /\ \A n \in Message : Answering(n) => Answering(n)'
      /\ \A q \in 1..MaxTurns : Asked(q)' <=> Asked(q)
  BY <1>1, <1>2, AnswerAdded
<1>4. TypeOK'
  BY <1>1, <1>3 DEF IndInv, TypeOK, hostVars
<1>5. GuestInv'
  BY <1>1, <1>3, WorkerTyped DEF IndInv, TypeOK, GuestInv
<1> QED
  BY <1>3, <1>4, <1>5 DEF IndInv

LEMMA RestStep == ASSUME IndInv, Abandon \/ UNCHANGED vars PROVE IndInv'
<1> USE DEF IndInv, Abandon, vars, hostVars, guestVars
<1>1. TypeOK'
  BY DEF TypeOK
<1> QED
  BY <1>1 DEF QuestionsInOrder, HeardNotFromTheFuture, LatestInv, Latest, HostInv, HeardInv,
     GuestInv,
     Answering, Asked

LEMMA NextInd == IndInv /\ [Next]_vars => IndInv'
BY SendQuestionStep, StoreQuestionStep, FetchNothingStep, FetchAnswerStep, TimeOutStep,
   CallFailsStep,
   CompleteStep, GetNextStep, RespondStep, DropAnswerStep, StoreAnswerStep, StopWaitingStep,
   StoreLateStep, RestStep
DEF Next, Host, Guest

\* The invariant of an interview, its type included.
THEOREM Invariance == Spec => []IndInv
BY InitInd, NextInd, PTL DEF Spec

\* The numbers of the questions grow with the questions, whoever posts what
\* and how often meanwhile, and no question is stored twice.
THEOREM QuestionsStayInOrder == Spec => []QuestionsInOrder
<1>1. IndInv => QuestionsInOrder
  BY DEF IndInv
<1> QED
  BY <1>1, Invariance, PTL

\* The host never takes as an answer what was written for a later question,
\* nor a message numbered before the question it waits for.
THEOREM NothingFromTheFuture == Spec => []HeardNotFromTheFuture
<1>1. IndInv => HeardNotFromTheFuture
  BY DEF IndInv
<1> QED
  BY <1>1, Invariance, PTL

\* An answer that is not acceptable hides the question only if it bears the
\* question's own number.
LEMMA HiddenBy == IndInv => HiddenByTwinOnly
<1> SUFFICES ASSUME IndInv, hostPc = "waiting", Acceptable = {},
                    NEW m \in Latest(messages)
             PROVE  \/ m.sender = "HOST" /\ m.q = turn
                    \/ /\ m.sender = "AGENT" /\ m.q < turn
                       /\ \E n \in messages : n.sender = "HOST" /\ n.q = turn /\ n.seq = m.seq
  BY DEF HiddenByTwinOnly
<1>1. PICK n \in messages : n.sender = "HOST" /\ n.q = turn
  BY DEF IndInv, HostInv, Asked
<1>2. m \in messages /\ n.seq <= m.seq
  <2>1. m.seq \in Nat /\ n.seq \in Nat
    BY DEF Latest, IndInv, TypeOK, Message
  <2> QED
    BY <2>1 DEF Latest
<1>3. /\ m.seq \in Nat /\ m.q \in Nat /\ n.seq \in Nat /\ turn \in Nat
      /\ m.sender \in {"HOST", "AGENT"} /\ n.seq >= 2 * turn - 1
  BY <1>1, <1>2 DEF IndInv, TypeOK, Message, QuestionsInOrder
<1>4. CASE m.sender = "HOST"
  BY <1>1, <1>2, <1>3, <1>4 DEF IndInv, HostInv, QuestionsInOrder
<1>5. CASE m.sender = "AGENT"
  <2>1. m.seq < 2 * turn
    BY <1>2, <1>3, <1>5 DEF Acceptable
  <2>2. m.seq >= 2 * m.q
    BY <1>2, <1>5 DEF IndInv, GuestInv, Answering
  <2> QED
    BY <1>1, <1>2, <1>3, <1>5, <2>1, <2>2
<1> QED
  BY <1>3, <1>4, <1>5

\* While the host waits for an answer it does not have, only an answer that
\* took the question's number keeps the guest from being given the question.
THEOREM OnlyTwinsHide == Spec => []HiddenByTwinOnly
BY HiddenBy, Invariance, PTL
-----------------------------------------------------------------------------
\* A guest with one worker that waits for its replies.

LEMMA MessagesTyped ==
  ASSUME IndInv
  PROVE  \A m \in messages :
           /\ m.sender \in {"HOST", "AGENT"} /\ m.q \in 1..MaxTurns /\ m.seq \in Nat /\ m.q <= turn
           /\ turn \in 1..MaxTurns /\ MaxTurns \in Nat
<1>1. \A m \in messages :
        /\ m.sender \in {"HOST", "AGENT"} /\ m.q \in 1..MaxTurns /\ m.seq \in Nat
        /\ turn \in 1..MaxTurns /\ MaxTurns \in Nat
  BY TurnsAssumption DEF IndInv, TypeOK, Message
<1>2. ASSUME NEW m \in messages PROVE m.q <= turn
  BY <1>1, <1>2 DEF IndInv, HostInv, GuestInv, Answering, Asked
<1> QED
  BY <1>1, <1>2

LEMMA CarefulInit == Init => CarefulInv
<1> SUFFICES ASSUME Init PROVE CarefulInv
  OBVIOUS
<1>1. 1..(turn - 1) = {}
  BY DEF Init
<1> QED
  BY <1>1 DEF Init, CarefulInv, UniqueSequence, Slots, AnswersCurrentQuestion, Idle

\* Question and answer get the numbers of their slots.
LEMMA QuestionsSlot ==
  ASSUME IndInv, CarefulInv, hostPc = "ask"
  PROVE  Question.seq = 2 * turn - 1
<1>1. turn \in Nat \ {0}
  BY DEF IndInv, TypeOK
<1>2. \A m \in messages : m.q \in Nat \ {0} /\ m.q < turn /\ m.seq <= 2 * (turn - 1)
  BY <1>1, MessagesTyped DEF CarefulInv, Slots
<1>3. NextSeq = 2 * turn - 1
  <2>1. CASE turn = 1
    <3>1. messages = {}
      BY <1>2, <2>1
    <3> QED
      BY <2>1, <3>1, Numbered DEF IndInv, TypeOK
  <2>2. CASE turn > 1
    <3>1. Answered(turn - 1)
      BY <1>1, <2>2 DEF CarefulInv
    <3>2. PICK m \in messages : m.sender = "AGENT" /\ m.q = turn - 1
      BY <3>1 DEF Answered
    <3>3. m.seq = 2 * (turn - 1)
      BY <1>1, <3>2 DEF CarefulInv, Slots
    <3>4. NextSeq \in Nat /\ m.seq < NextSeq /\ \E n \in messages : NextSeq = n.seq + 1
      BY <3>2, Numbered DEF IndInv, TypeOK
    <3> QED
      BY <1>1, <1>2, <3>3, <3>4, MessagesTyped
  <2> QED
    BY <1>1, <2>1, <2>2
<1> QED
  BY <1>1, <1>3 DEF Question, Larger

LEMMA AnswersSlot ==
  ASSUME IndInv, CarefulInv, Asked(turn), ~Answered(turn)
  PROVE  NextSeq = 2 * turn
<1>1. turn \in Nat \ {0}
  BY DEF IndInv, TypeOK
<1>2. PICK m \in messages : m.sender = "HOST" /\ m.q = turn
  BY DEF Asked
<1>3. m.seq = 2 * turn - 1
  BY <1>2 DEF CarefulInv, Slots
<1>4. \A n \in messages : n.seq <= 2 * turn - 1
  <2> TAKE n \in messages
  <2>1. CASE n.sender = "HOST"
    BY <1>1, <2>1, MessagesTyped DEF CarefulInv, Slots
  <2>2. CASE n.sender = "AGENT"
    <3>1. n.q < turn
      BY <1>1, <2>2, MessagesTyped DEF Answered
    <3> QED
      BY <1>1, <2>2, <3>1, MessagesTyped DEF CarefulInv, Slots
  <2> QED
    BY <2>1, <2>2, MessagesTyped
<1>5. NextSeq \in Nat /\ m.seq < NextSeq /\ \E n \in messages : NextSeq = n.seq + 1
  BY <1>2, Numbered DEF IndInv, TypeOK
<1> QED
  BY <1>1, <1>3, <1>4, <1>5, MessagesTyped

\* A message in its slot, the first of its kind about its question, has a
\* number of its own.
LEMMA OwnNumber ==
  ASSUME IndInv, CarefulInv, NEW n \in Message, messages' = messages \cup {n},
         n.seq = IF n.sender = "HOST" THEN 2 * n.q - 1 ELSE 2 * n.q,
         \A m \in messages : ~(m.sender = n.sender /\ m.q = n.q)
  PROVE  UniqueSequence' /\ Slots'
<1>1. n.sender \in {"HOST", "AGENT"} /\ n.q \in Nat
  BY DEF Message
<1>2. Slots'
  BY DEF CarefulInv, Slots
<1>3. ASSUME NEW m \in messages, m.seq = n.seq PROVE FALSE
  <2>1. m.sender \in {"HOST", "AGENT"} /\ m.q \in Nat
    BY MessagesTyped
  <2>2. m.seq = IF m.sender = "HOST" THEN 2 * m.q - 1 ELSE 2 * m.q
    BY DEF CarefulInv, Slots
  <2> QED
    BY <1>1, <1>3, <2>1, <2>2
<1> QED
  BY <1>2, <1>3 DEF CarefulInv, UniqueSequence

\* The host hears the answer to its question.
LEMMA HeardCurrent ==
  ASSUME IndInv, CarefulInv, FetchAnswer
  PROVE  AnswersCurrentQuestion' /\ Answered(turn)
<1>1. PICK m \in messages :
        /\ m.sender = "AGENT" /\ m.seq >= 2 * turn /\ m.q <= turn
        /\ heard' = Append(heard, m)
        /\ Len(heard) = turn - 1 /\ Len(heard') = turn
        /\ heard'[turn] = m
        /\ \A t \in 1..(turn - 1) : heard'[t] = heard[t]
  BY HeardOne
<1>2. m.q = turn
  BY <1>1, MessagesTyped DEF CarefulInv, Slots
<1>3. turn \in 1..MaxTurns /\ \A t \in 1..Len(heard') : t \in 1..(turn - 1) \/ t = turn
  BY <1>1 DEF IndInv, TypeOK
<1> QED
  BY <1>1, <1>2, <1>3 DEF CarefulInv, AnswersCurrentQuestion, Answered

\* The steps.

LEMMA CarefulSendQuestion == ASSUME IndInv, CarefulInv, SendQuestion PROVE CarefulInv'
<1>1. Question.seq = 2 * turn - 1
  BY QuestionsSlot DEF SendQuestion
<1> QED
  BY <1>1 DEF SendQuestion, guestVars, CarefulInv, UniqueSequence, Slots, AnswersCurrentQuestion,
     Asked, Answered

\* The question is stored; nobody has answered it.
LEMMA QuestionFirst ==
  ASSUME IndInv, CarefulInv, hostPc = "storing", messages' = messages \cup {draft},
         UNCHANGED <<turn, heard, guestVars>>, hostPc' \in {"waiting", "failed"}
  PROVE  CarefulInv'
<1>1. draft \in Message /\ draft.sender = "HOST" /\ draft.q = turn /\ draft.seq = 2 * turn - 1
  BY DEF IndInv, TypeOK, HostInv, CarefulInv
<1>2. \A m \in messages : m.q < turn
  BY DEF CarefulInv
<1>3. UniqueSequence' /\ Slots'
  BY <1>1, <1>2, OwnNumber, MessagesTyped
<1>4. AnswersCurrentQuestion'
  BY DEF CarefulInv, AnswersCurrentQuestion
<1>5. \A q \in 1..(turn - 1) : Asked(q)' /\ Answered(q)'
  BY DEF CarefulInv, Asked, Answered
<1>6. \A w \in Workers : worker[w] = Idle
  BY DEF CarefulInv
<1> QED
  BY <1>3, <1>4, <1>5, <1>6 DEF CarefulInv, guestVars, Idle

LEMMA CarefulStoreQuestion == ASSUME IndInv, CarefulInv, StoreQuestion PROVE CarefulInv'
BY QuestionFirst DEF StoreQuestion

LEMMA CarefulFetchAnswer == ASSUME IndInv, CarefulInv, FetchAnswer PROVE CarefulInv'
<1>1. AnswersCurrentQuestion' /\ Answered(turn)
  BY HeardCurrent
<1>2. Asked(turn) /\ turn \in 1..MaxTurns
  BY DEF FetchAnswer, IndInv, HostInv, TypeOK
<1>3. UNCHANGED messages /\ \A q : Asked(q)' = Asked(q) /\ Answered(q)' = Answered(q)
  BY DEF FetchAnswer, Asked, Answered
<1>4. \/ hostPc' = "ask" /\ turn' = turn + 1
      \/ hostPc' = "finishing" /\ turn' = turn
  BY DEF FetchAnswer
<1>5. \A q \in 1..(turn' - 1) : Asked(q)' /\ Answered(q)'
  <2>1. \A q \in 1..(turn' - 1) : q \in 1..(turn - 1) \/ q = turn
    BY <1>2, <1>4
  <2> QED
    BY <1>1, <1>2, <1>3, <2>1 DEF CarefulInv
<1>6. hostPc' = "ask" => \A m \in messages : m.q < turn'
  BY <1>2, <1>4, MessagesTyped
<1>7. hostPc' = "finishing" => Asked(turn)' /\ Answered(turn)' /\ turn' = turn
  BY <1>1, <1>2, <1>3, <1>4
<1>8. \A w \in Workers : worker'[w] = Idle
  BY <1>1 DEF FetchAnswer, guestVars, CarefulInv
<1>9. UniqueSequence' /\ Slots' /\ late' = {}
  BY <1>3 DEF FetchAnswer, guestVars, CarefulInv, UniqueSequence, Slots
<1>10. (hostPc \in {"finishing", "done"} => Asked(turn) /\ Answered(turn))'
  BY <1>4, <1>7 DEF Asked, Answered
<1> QED
  BY <1>1, <1>3, <1>4, <1>5, <1>6, <1>8, <1>9, <1>10 DEF CarefulInv, Idle

LEMMA CarefulFails ==
  ASSUME IndInv, CarefulInv, TimeOut \/ CallFails PROVE CarefulInv'
<1>1. CASE UNCHANGED messages
  BY <1>1 DEF TimeOut, CallFails, Fail, guestVars, CarefulInv, UniqueSequence, Slots,
     AnswersCurrentQuestion, Asked, Answered
<1>2. CASE hostPc = "storing" /\ messages' = messages \cup {draft}
  BY <1>2, QuestionFirst DEF TimeOut, CallFails, Fail
<1> QED
  BY <1>1, <1>2 DEF TimeOut, CallFails

LEMMA CarefulRest ==
  ASSUME IndInv, CarefulInv, FetchNothing \/ Complete \/ Abandon \/ UNCHANGED vars PROVE CarefulInv'
BY DEF FetchNothing, Complete, Abandon, vars, hostVars, guestVars, CarefulInv, UniqueSequence,
   Slots,
   AnswersCurrentQuestion, Asked, Answered
\* The only worker moves, and no message is stored.
LEMMA CarefulMoves ==
  ASSUME IndInv, CarefulInv, CarefulGuest, NEW w \in Workers, NEW x \in Worker,
         worker' = [worker EXCEPT ![w] = x], UNCHANGED <<messages, hostVars, late>>,
         x.pc = "holding" => x.q = turn,
         x.pc = "posting" => x.answer.q = turn /\ x.answer.seq = 2 * turn,
         x # Idle => hostPc \in {"waiting", "failed"} /\ ~Answered(turn)
  PROVE  CarefulInv'
<1>1. \A v \in Workers : worker'[v] = x
  BY DEF CarefulGuest, IndInv, TypeOK
<1> QED
  BY <1>1 DEF hostVars, CarefulInv, UniqueSequence, Slots, AnswersCurrentQuestion, Asked, Answered

\* The latest message is a question only if nobody has answered it.
LEMMA LatestQuestion ==
  ASSUME IndInv, CarefulInv, NEW m \in Latest(messages), m.sender = "HOST"
  PROVE  m.q = turn /\ ~Answered(turn) /\ hostPc \in {"waiting", "failed"}
<1>1. /\ m \in messages /\ m.q \in Nat /\ m.q <= turn /\ turn \in Nat
      /\ \A n \in messages : n.seq \in Nat /\ n.q \in Nat /\ n.seq <= m.seq
  BY MessagesTyped DEF Latest
<1>2. m.seq = 2 * m.q - 1
  BY <1>1 DEF CarefulInv, Slots
<1>3. ~Answered(m.q)
  BY <1>1, <1>2 DEF CarefulInv, Slots, Answered
<1>4. m.q \in Nat \ {0}
  BY <1>1, MessagesTyped
<1>5. m.q = turn
  BY <1>1, <1>3, <1>4 DEF CarefulInv
<1> QED
  BY <1>1, <1>3, <1>5 DEF CarefulInv, IndInv, TypeOK

LEMMA CarefulGetNext ==
  ASSUME IndInv, CarefulInv, CarefulGuest, NEW w \in Workers, GetNext(w) PROVE CarefulInv'
<1>1. PICK m \in Latest(messages) :
        m.sender = "HOST" /\ worker' = [worker EXCEPT ![w] = Holding(m.q)]
  BY DEF GetNext
<1>2. m.q = turn /\ ~Answered(turn) /\ hostPc \in {"waiting", "failed"}
  BY <1>1, LatestQuestion
<1>3. Holding(turn) \in Worker /\ Holding(turn).pc = "holding" /\ Holding(turn).q = turn
  BY DEF IndInv, TypeOK, Worker, Holding
<1> QED
  BY <1>1, <1>2, <1>3, CarefulMoves DEF GetNext

LEMMA CarefulRespond ==
  ASSUME IndInv, CarefulInv, CarefulGuest, NEW w \in Workers, Respond(w) PROVE CarefulInv'
<1>1. /\ worker[w].q = turn /\ ~Answered(turn) /\ Asked(turn) /\ hostPc \in {"waiting", "failed"}
  BY DEF Respond, CarefulInv, IndInv, GuestInv, Idle
<1>2. AnswerTo(turn) \in Message
  BY <1>1, AnswerAnswers DEF IndInv, TypeOK
<1>3. AnswerTo(turn).q = turn /\ AnswerTo(turn).seq = 2 * turn
  BY <1>1, AnswersSlot DEF AnswerTo
<1>4. PICK x \in Worker : x = Posting(AnswerTo(turn))
  BY <1>2 DEF Worker, Posting
<1>5. x.pc = "posting" /\ x.answer.q = turn /\ x.answer.seq = 2 * turn
  BY <1>3, <1>4 DEF Posting
<1> QED
  BY <1>1, <1>4, <1>5, CarefulMoves DEF Respond

LEMMA CarefulDropAnswer ==
  ASSUME IndInv, CarefulInv, CarefulGuest, NEW w \in Workers, DropAnswer(w) PROVE CarefulInv'
<1>1. Idle \in Worker /\ Idle.pc = "idle"
  BY DEF Idle, Worker
<1> QED
  BY <1>1, CarefulMoves DEF DropAnswer

\* What the worker's answer is when it is stored.
LEMMA CarefulAnswer ==
  ASSUME IndInv, CarefulInv, NEW w \in Workers, worker[w].pc = "posting"
  PROVE  /\ worker[w].answer \in Message
         /\ worker[w].answer.sender = "AGENT"
         /\ worker[w].answer.q = turn /\ worker[w].answer.seq = 2 * turn
         /\ ~Answered(turn) /\ hostPc \in {"waiting", "failed"}
BY WorkerTyped DEF CarefulInv, IndInv, GuestInv, Answering, Idle

LEMMA CarefulStoreAnswer ==
  ASSUME IndInv, CarefulInv, CarefulGuest, NEW w \in Workers, StoreAnswer(w) PROVE CarefulInv'
<1>1. PICK m \in Message : m = worker[w].answer
  BY CarefulAnswer DEF StoreAnswer
<1>2. m.sender = "AGENT" /\ m.q = turn /\ m.seq = 2 * turn /\ hostPc \in {"waiting", "failed"}
      /\ ~Answered(turn) /\ messages' = messages \cup {m}
  BY <1>1, CarefulAnswer DEF StoreAnswer
<1>3. UniqueSequence' /\ Slots'
  BY <1>2, OwnNumber DEF Answered
<1>4. AnswersCurrentQuestion' /\ UNCHANGED <<turn, hostPc, late>>
  BY DEF StoreAnswer, hostVars, CarefulInv, AnswersCurrentQuestion
<1>5. \A q \in 1..(turn - 1) : Asked(q)' /\ Answered(q)'
  BY <1>2 DEF CarefulInv, Asked, Answered
<1>6. \A v \in Workers : worker'[v] = Idle
  BY DEF StoreAnswer, CarefulGuest, IndInv, TypeOK
<1> QED
  BY <1>2, <1>3, <1>4, <1>5, <1>6 DEF CarefulInv, Idle

LEMMA CarefulNext ==
  CarefulGuest /\ IndInv /\ CarefulInv /\ [Next]_vars => CarefulInv'
<1> SUFFICES ASSUME CarefulGuest, IndInv, CarefulInv, [Next]_vars PROVE CarefulInv'
  OBVIOUS
<1>1. ~StoreLate /\ \A w \in Workers : ~StopWaiting(w)
  BY DEF StoreLate, StopWaiting, CarefulInv, CarefulGuest
<1> QED
  BY <1>1, CarefulSendQuestion, CarefulStoreQuestion, CarefulFetchAnswer, CarefulFails, CarefulRest,
     CarefulGetNext, CarefulRespond, CarefulDropAnswer, CarefulStoreAnswer
  DEF Next, Host, Guest

\* What is invariant with a guest of one worker that waits for its replies.
THEOREM CarefulInvariance == ASSUME CarefulGuest PROVE Spec => []CarefulInv
<1>1. IndInv /\ CarefulInv /\ [Next]_vars => CarefulInv'
  BY CarefulNext
<1> QED
  BY <1>1, CarefulInit, Invariance, PTL DEF Spec

\* With such a guest, reading max + 1 and inserting it in two statements does
\* give every message a number of its own.
THEOREM NumbersAreUnique == ASSUME CarefulGuest PROVE Spec => []UniqueSequence
<1>1. CarefulInv => UniqueSequence
  BY DEF CarefulInv
<1> QED
  BY <1>1, CarefulInvariance, PTL

\* The questions get the odd numbers and their answers the even ones, which
\* is what the host's min_seq counts on.
THEOREM EachInItsSlot == ASSUME CarefulGuest PROVE Spec => []Slots
<1>1. CarefulInv => Slots
  BY DEF CarefulInv
<1> QED
  BY <1>1, CarefulInvariance, PTL

\* min_seq keeps the answers of earlier turns away.
THEOREM CurrentAnswers == ASSUME CarefulGuest PROVE Spec => []AnswersCurrentQuestion
<1>1. CarefulInv => AnswersCurrentQuestion
  BY DEF CarefulInv
<1> QED
  BY <1>1, CarefulInvariance, PTL

LEMMA Offered == IndInv /\ CarefulInv => QuestionOffered
<1> SUFFICES ASSUME IndInv, CarefulInv, hostPc = "waiting", Acceptable = {},
                    NEW m \in Latest(messages)
             PROVE  m.sender = "HOST" /\ m.q = turn
  BY DEF QuestionOffered
<1>1. CASE m.sender = "HOST"
  BY <1>1, LatestQuestion
<1>2. CASE m.sender = "AGENT"
  <2>1. PICK n \in messages : n.sender = "HOST" /\ n.q = turn
    BY DEF IndInv, HostInv, Asked
  <2>2. m \in messages /\ n.seq <= m.seq /\ m.seq = 2 * m.q /\ n.seq = 2 * turn - 1
    BY <1>2, <2>1, MessagesTyped DEF Latest, CarefulInv, Slots
  <2>3. m.seq < 2 * turn
    BY <1>2, <2>2, MessagesTyped DEF Acceptable
  <2> QED
    BY <2>2, <2>3, MessagesTyped
<1> QED
  BY <1>1, <1>2, MessagesTyped DEF Latest

\* While the host waits, the guest that polls is given its question.
THEOREM TheQuestionIsOffered == ASSUME CarefulGuest PROVE Spec => []QuestionOffered
BY Offered, CarefulInvariance, Invariance, PTL
-----------------------------------------------------------------------------
\* The interview of such a guest is a dialogue.

HeardQuestions == [t \in 1..Len(heard) |-> heard[t].q]

LEMMA AppendedLast ==
  ASSUME NEW n \in Nat \ {0}, NEW e \in Nat,
         NEW s \in [1..(n - 1) -> Nat], NEW r \in [1..n -> Nat],
         r[n] = e, \A t \in 1..(n - 1) : r[t] = s[t]
  PROVE  r = Append(s, e)
<1>1. s \in Seq(Nat) /\ Len(s) = n - 1
  OBVIOUS
<1>2. r \in Seq(Nat) /\ Len(r) = n
  OBVIOUS
<1>3. PICK a : a = Append(s, e)
  OBVIOUS
<1>4. /\ a \in Seq(Nat) /\ Len(a) = n
      /\ a[n] = e /\ \A t \in 1..(n - 1) : a[t] = s[t]
  BY <1>1, <1>3
<1>5. \A t \in 1..n : a[t] = r[t]
  BY <1>4
<1> QED
  BY <1>2, <1>3, <1>4, <1>5, SeqEqual

LEMMA DialogueInit == Init => D!Init
<1> SUFFICES ASSUME Init PROVE turn = 1 /\ Phase = "unasked" /\ HeardQuestions = <<>>
  BY DEF D!Init, HeardQuestions
<1>1. Len(heard) = 0 /\ 1..0 = {}
  BY DEF Init
<1> QED
  BY <1>1 DEF Init, Phase, HeardQuestions

\* The phases, one by one.
PhaseOf ==
  /\ hostPc \in {"ask", "storing"} => Phase = "unasked"
  /\ hostPc = "waiting" /\ ~Answered(turn) => Phase = "asked"
  /\ hostPc = "waiting" /\ Answered(turn) => Phase = "answered"
  /\ hostPc = "finishing" => Phase = "wrapping_up"
  /\ hostPc \in {"done", "failed"} <=> Phase = "over"

LEMMA Phases == IndInv /\ CarefulInv => PhaseOf
<1> SUFFICES ASSUME IndInv, CarefulInv PROVE PhaseOf
  OBVIOUS
<1>1. ASSUME NEW m \in Acceptable PROVE Answered(turn)
  <2>1. m \in messages /\ m.sender = "AGENT" /\ m.seq >= 2 * turn
    BY DEF Acceptable
  <2>2. m.q = turn
    BY <2>1, MessagesTyped DEF CarefulInv, Slots
  <2> QED
    BY <2>1, <2>2 DEF Answered
<1>2. ASSUME NEW m \in messages, m.sender = "AGENT", m.q = turn PROVE m \in Acceptable
  BY <1>2, MessagesTyped DEF Acceptable, CarefulInv, Slots
<1>3. Acceptable # {} <=> Answered(turn)
  BY <1>1, <1>2 DEF Answered
<1> QED
  BY <1>3 DEF PhaseOf, Phase, IndInv, TypeOK

LEMMA PhasesNext == IndInv' /\ CarefulInv' => PhaseOf'
BY Phases, PTL

LEMMA DialogueStep ==
  ASSUME CarefulGuest, IndInv, CarefulInv, IndInv', CarefulInv', [Next]_vars
  PROVE  [D!Next]_(D!vars)
<1> PhaseOf /\ PhaseOf'
  BY Phases, PhasesNext
<1> USE DEF D!Next, PhaseOf
<1>1. CASE FetchNothing \/ UNCHANGED vars \/ SendQuestion \/ Abandon
           \/ \E w \in Workers : GetNext(w) \/ Respond(w) \/ DropAnswer(w)
  <2>1. UNCHANGED <<messages, turn, heard>>
    BY <1>1 DEF FetchNothing, vars, SendQuestion, Abandon, GetNext, Respond, DropAnswer, hostVars
  <2>2. hostPc' = hostPc \/ (hostPc = "ask" /\ hostPc' = "storing")
    BY <1>1 DEF FetchNothing, vars, SendQuestion, Abandon, GetNext, Respond, DropAnswer, hostVars
  <2>3. Answered(turn)' <=> Answered(turn)
    BY <2>1 DEF Answered
  <2>4. UNCHANGED Phase
    BY <2>2, <2>3 DEF IndInv, TypeOK
  <2> QED
    BY <2>1, <2>4 DEF D!vars
<1>2. CASE StoreQuestion
  <2>1. \A m \in messages' : m.sender = "AGENT" => m.q < turn
    BY <1>2 DEF StoreQuestion, CarefulInv, IndInv, HostInv
  <2>2. ~Answered(turn)'
    BY <1>2, <2>1 DEF StoreQuestion, Answered, IndInv, TypeOK
  <2> QED
    BY <1>2, <2>2 DEF StoreQuestion, D!Ask
<1>3. CASE FetchAnswer
  <2>1. PICK m \in messages :
          /\ heard' = Append(heard, m)
          /\ Len(heard) = turn - 1 /\ Len(heard') = turn
          /\ heard'[turn] = m
          /\ \A t \in 1..(turn - 1) : heard'[t] = heard[t]
    BY <1>3, HeardOne
  <2>2. m.q = turn /\ Answered(turn) /\ turn \in Nat \ {0}
    BY <1>3, <2>1, HeardCurrent DEF AnswersCurrentQuestion, IndInv, TypeOK
  <2>3. HeardQuestions' = Append(HeardQuestions, turn)
    <3>1. HeardQuestions \in [1..(turn - 1) -> Nat]
      BY <2>1, MessagesTyped DEF HeardQuestions, IndInv, HeardNotFromTheFuture
    <3>2. HeardQuestions' \in [1..turn -> Nat]
      <4>1. \A t \in 1..turn : t = turn \/ t \in 1..(turn - 1)
        BY <2>2
      <4>2. \A t \in 1..turn : heard'[t].q \in Nat
        BY <2>1, <2>2, <3>1, <4>1 DEF HeardQuestions
      <4> QED
        BY <2>1, <4>2 DEF HeardQuestions
    <3>3. /\ HeardQuestions'[turn] = turn
          /\ \A t \in 1..(turn - 1) : HeardQuestions'[t] = HeardQuestions[t]
      BY <2>1, <2>2 DEF HeardQuestions
    <3> QED
      BY <2>2, <3>1, <3>2, <3>3, AppendedLast
  <2>4. Phase = "answered"
    BY <1>3, <2>2 DEF FetchAnswer
  <2>5. IF turn = MaxTurns
        THEN Phase' = "wrapping_up" /\ UNCHANGED turn
        ELSE Phase' = "unasked" /\ turn' = turn + 1
    BY <1>3 DEF FetchAnswer
  <2> QED
    BY <2>3, <2>4, <2>5 DEF D!Hear, HeardQuestions
<1>4. CASE TimeOut \/ CallFails \/ Complete
  <2>1. Phase # "over" /\ Phase' = "over" /\ UNCHANGED <<turn, heard>>
    BY <1>4 DEF TimeOut, CallFails, Complete, Fail
  <2> QED
    BY <2>1 DEF D!End
<1>5. ASSUME NEW w \in Workers, StoreAnswer(w) PROVE [D!Next]_(D!vars)
  <2>1. PICK m \in Message : m = worker[w].answer
    BY <1>5, CarefulAnswer DEF StoreAnswer
  <2>2. /\ m.sender = "AGENT" /\ m.q = turn /\ messages' = messages \cup {m}
        /\ ~Answered(turn) /\ hostPc \in {"waiting", "failed"}
        /\ UNCHANGED <<turn, heard, hostPc>>
    BY <1>5, <2>1, CarefulAnswer DEF StoreAnswer, hostVars
  <2>3. Answered(turn)'
    BY <2>2 DEF Answered
  <2>4. CASE hostPc = "waiting"
    BY <2>2, <2>3, <2>4 DEF D!Answer
  <2>5. CASE hostPc = "failed"
    BY <2>2, <2>5 DEF D!vars
  <2> QED
    BY <2>2, <2>4, <2>5
<1>6. ~StoreLate /\ \A w \in Workers : ~StopWaiting(w)
  BY DEF StoreLate, StopWaiting, CarefulInv, CarefulGuest
<1> QED
  BY <1>1, <1>2, <1>3, <1>4, <1>5, <1>6 DEF Next, Host, Guest

\* With a guest of one worker that waits for its replies the interview is a
\* dialogue: the host hears one answer to each question, in their order.
THEOREM DialogueImplemented == ASSUME CarefulGuest PROVE Spec => ImplementsDialogue
<1>1. Init => D!Init
  BY DialogueInit
<1>2. IndInv /\ CarefulInv /\ IndInv' /\ CarefulInv' /\ [Next]_vars => [D!Next]_(D!vars)
  BY DialogueStep
<1> QED
  BY <1>1, <1>2, Invariance, CarefulInvariance, PTL DEF Spec, ImplementsDialogue, D!Spec
=============================================================================
