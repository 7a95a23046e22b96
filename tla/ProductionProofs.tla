-------------------------- MODULE ProductionProofs --------------------------
(***************************************************************************)
(* Proofs about Production, for any number of interviews at a time and     *)
(* turns, and whichever providers are configured.                          *)
(***************************************************************************)
EXTENDS Production, SequenceTheorems, TLAPS

-----------------------------------------------------------------------------
\* No chain makes more than six calls.
LEMMA Chains ==
  /\ Len(WritingChain) \in 0..4
  /\ Len(SpeechChain) \in 0..6
<1>1. ASSUME NEW p \in Providers, NEW n \in Nat
      PROVE  Attempts(p, n) \in Seq(Providers) /\ Len(Attempts(p, n)) \in 0..n
  <2>1. CASE p \in Configured
    <3>1. PICK s : s = [k \in 1..n |-> p]
      OBVIOUS
    <3>2. s \in [1..n -> Providers]
      BY <3>1
    <3>3. s \in Seq(Providers) /\ Len(s) = n
      BY <3>2
    <3> QED
      BY <2>1, <3>1, <3>3 DEF Attempts
  <2>2. CASE p \notin Configured
    BY <2>2 DEF Attempts
  <2> QED
    BY <2>1, <2>2
<1>2. PICK g \in Seq(Providers), a \in Seq(Providers), o \in Seq(Providers) :
        /\ g = Attempts("gemini", 2) /\ a = Attempts("anthropic", 1) /\ o = Attempts("openai", 1)
        /\ Len(g) \in 0..2 /\ Len(a) \in 0..1 /\ Len(o) \in 0..1
  BY <1>1 DEF Providers
<1>3. PICK d \in Seq(Providers), c \in Seq(Providers) :
        /\ d = Attempts("deepgram", 3) /\ c = Attempts("cartesia", 3)
        /\ Len(d) \in 0..3 /\ Len(c) \in 0..3
  BY <1>1 DEF Providers
<1>4. Len((g \o a) \o o) = Len(g) + Len(a) + Len(o)
  BY ConcatProperties
<1>5. Len(d \o c) = Len(d) + Len(c)
  BY ConcatProperties
<1>6. WritingChain = (g \o a) \o o
  BY <1>2 DEF WritingChain
<1>7. SpeechChain = d \o c
  BY <1>3 DEF SpeechChain
<1>8. Len(WritingChain) = Len(g) + Len(a) + Len(o)
  BY <1>4, <1>6
<1>9. Len(SpeechChain) = Len(d) + Len(c)
  BY <1>5, <1>7
<1>10. Len(WritingChain) \in 0..4
  <2>1. \A x \in 0..2, y \in 0..1, z \in 0..1 : x + y + z \in 0..4
    OBVIOUS
  <2>2. Len(g) \in 0..2 /\ Len(a) \in 0..1 /\ Len(o) \in 0..1
    BY <1>2
  <2> QED
    BY <1>8, <2>1, <2>2
<1>11. Len(SpeechChain) \in 0..6
  <2>1. \A x, y \in 0..3 : x + y \in 0..6
    OBVIOUS
  <2>2. Len(d) \in 0..3 /\ Len(c) \in 0..3
    BY <1>3
  <2> QED
    BY <1>9, <2>1, <2>2
<1> QED
  BY <1>10, <1>11

\* What Append does, with its domain.
LEMMA Appended ==
  ASSUME NEW S, NEW s \in Seq(S), NEW e \in S
  PROVE  /\ Len(s) \in Nat /\ DOMAIN s = 1..Len(s)
         /\ Append(s, e) \in Seq(S)
         /\ Len(Append(s, e)) = Len(s) + 1 /\ DOMAIN Append(s, e) = 1..(Len(s) + 1)
         /\ Append(s, e)[Len(s) + 1] = e
         /\ \A k \in 1..Len(s) : Append(s, e)[k] = s[k]
<1>1. PICK r \in Seq(S) : r = Append(s, e)
  BY AppendProperties
<1>2. Len(r) = Len(s) + 1 /\ r[Len(s) + 1] = e /\ \A k \in 1..Len(s) : r[k] = s[k]
  BY <1>1, AppendProperties
<1>3. DOMAIN r = 1..Len(r) /\ Len(s) \in Nat /\ DOMAIN s = 1..Len(s)
  OBVIOUS
<1> QED
  BY <1>1, <1>2, <1>3

\* The pieces of speech, with their turns.
LEMMA PartsTyped ==
  ASSUME TypeOK, NEW t \in Tasks
  PROVE  /\ parts[t] \in Seq(Part) /\ Len(parts[t]) \in Nat
         /\ DOMAIN parts[t] = 1..Len(parts[t])
         /\ \A k \in DOMAIN parts[t] : parts[t][k] \in Part /\ parts[t][k].turn \in Nat
<1>1. PICK s \in Seq(Part) : s = parts[t]
  BY DEF TypeOK
<1>2. Len(s) \in Nat /\ DOMAIN s = 1..Len(s) /\ \A k \in 1..Len(s) : s[k] \in Part
  BY ElementOfSeq
<1>3. \A p \in Part : p.turn \in Nat
  BY DEF Part
<1> QED
  BY <1>1, <1>2, <1>3

-----------------------------------------------------------------------------
\* The inductive invariant holds at first.
LEMMA InitInd == Init => IndInv
<1> SUFFICES ASSUME Init PROVE IndInv
  OBVIOUS
<1>1. TypeOK
  <2>1. <<>> \in Seq(Question) /\ <<>> \in Seq(Part)
    OBVIOUS
  <2> QED
    BY <2>1, TurnsAssumption DEF Init, TypeOK
<1> QED
  BY <1>1 DEF Init, IndInv, AnswerFollowsQuestion, ArcKept, AskedInv, PartsInv

\* Steps that add neither a question nor a piece of speech.
LEMMA Moves ==
  ASSUME IndInv, NEW t \in Tasks, NEW st, stage' = [stage EXCEPT ![t] = st],
         UNCHANGED <<turnCount, asked, parts>>, TypeOK',
         \/ /\ turn' = turn
            /\ \/ st = stage[t]
               \/ stage[t] = "waiting" /\ st \in {"voicing_host", "failed"}
               \/ /\ stage[t] \in {"voicing_host", "voicing_guest", "stitching", "titling"}
                  /\ st \in {"stitching", "titling"} \cup Ended
         \/ /\ turn' = [turn EXCEPT ![t] = turn[t] + 1]
            /\ stage[t] \in {"voicing_host", "voicing_guest"} /\ st = "thinking"
  PROVE  IndInv'
<1> USE DEF IndInv
<1>1. AnswerFollowsQuestion' /\ ArcKept'
  BY DEF AnswerFollowsQuestion, ArcKept
<1>2. \A u \in Tasks :
        /\ stage'[u] = IF u = t THEN st ELSE stage[u]
        /\ turn'[u] \in Nat /\ turn[u] \in Nat
        /\ u # t => turn'[u] = turn[u]
  <2>1. \A u \in Tasks : stage'[u] = IF u = t THEN st ELSE stage[u]
    BY DEF TypeOK
  <2>2. \A u \in Tasks : turn[u] \in Nat /\ turn'[u] \in Nat
    <3>1. \A m \in 1..MaxTurns : m \in Nat
      BY TurnsAssumption
    <3>2. turn \in [Tasks -> 1..MaxTurns] /\ turn' \in [Tasks -> 1..MaxTurns]
      BY DEF TypeOK
    <3> QED
      BY <3>1, <3>2
  <2>3. \A u \in Tasks : u # t => turn'[u] = turn[u]
    BY DEF TypeOK
  <2> QED
    BY <2>1, <2>2, <2>3
<1>3. \A u \in Tasks : \A k \in DOMAIN parts[u] : parts[u][k].turn \in Nat
  BY PartsTyped
<1>4. AskedInv'
  <2>1. ASSUME NEW u \in Tasks
        PROVE  /\ Len(asked[u]) = IF stage'[u] = "thinking" THEN turn'[u] - 1 ELSE turn'[u]
               /\ turnCount[u] = Len(asked[u])
    <3>1. CASE u # t
      BY <1>2, <3>1 DEF AskedInv
    <3>2. CASE /\ u = t /\ turn' = turn
               /\ (st = "thinking") <=> (stage[t] = "thinking")
      BY <1>2, <3>2 DEF AskedInv
    <3>3. CASE /\ u = t /\ turn' = [turn EXCEPT ![t] = turn[t] + 1]
               /\ stage[t] \in {"voicing_host", "voicing_guest"} /\ st = "thinking"
      <4>1. turn'[u] = turn[u] + 1 /\ stage'[u] = "thinking"
        BY <1>2, <3>3 DEF TypeOK
      <4>2. Len(asked[u]) = turn[u] /\ turnCount[u] = Len(asked[u])
        BY <3>3 DEF AskedInv
      <4> QED
        BY <1>2, <4>1, <4>2
    <3> QED
      BY <3>1, <3>2, <3>3 DEF Ended
  <2> QED
    BY <2>1 DEF AskedInv
<1>5. ASSUME NEW u \in Tasks
      PROVE  /\ \A k \in DOMAIN parts[u] :
                  /\ parts[u][k].turn <= turn'[u]
                  /\ stage'[u] \in {"thinking", "waiting", "voicing_host"} =>
                       parts[u][k].turn < turn'[u]
             /\ stage'[u] = "voicing_guest" =>
                  parts[u] # <<>> /\ parts[u][Len(parts[u])] = [turn |-> turn'[u], voice |-> "host"]
  <2>1. CASE u # t
    BY <1>2, <2>1 DEF PartsInv
  <2>2. CASE u = t /\ turn' = turn
    <3>1. \A k \in DOMAIN parts[u] : parts[u][k].turn <= turn[u] /\ turn'[u] = turn[u]
      BY <1>2, <2>2 DEF PartsInv
    <3>2. CASE st = stage[t]
      BY <1>2, <2>2, <3>1, <3>2 DEF PartsInv
    <3>3. CASE stage[t] = "waiting" /\ st \in {"voicing_host", "failed"}
      <4>1. \A k \in DOMAIN parts[u] : parts[u][k].turn < turn[u]
        BY <2>2, <3>3 DEF PartsInv
      <4> QED
        BY <1>2, <2>2, <3>1, <3>3, <4>1
    <3>4. CASE st \in {"stitching", "titling"} \cup Ended
      BY <1>2, <2>2, <3>1, <3>4 DEF Ended
    <3>5. CASE turn' = [turn EXCEPT ![t] = turn[t] + 1]
      BY <2>2, <3>5 DEF TypeOK
    <3> QED
      BY <3>2, <3>3, <3>4, <3>5
  <2>3. CASE u = t /\ turn' = [turn EXCEPT ![t] = turn[t] + 1] /\ st = "thinking"
    <3>1. turn'[u] = turn[u] + 1
      BY <2>3 DEF TypeOK
    <3>2. stage'[u] = "thinking" /\ turn[u] \in Nat
      BY <1>2, <2>3
    <3>3. \A k \in DOMAIN parts[u] : parts[u][k].turn <= turn[u] /\ parts[u][k].turn \in Nat
      BY <1>3 DEF PartsInv
    <3> QED
      BY <3>1, <3>2, <3>3
  <2> QED
    BY <2>1, <2>2, <2>3
<1>6. PartsInv'
  BY <1>5 DEF PartsInv
<1> QED
  BY <1>1, <1>4, <1>6

\* The opening question finds the counter as it was at the start.
LEMMA OpeningResets ==
  ASSUME IndInv, NEW t \in Tasks, StartThinking(t)
  PROVE  turnCount' = turnCount
<1>1. turn[t] = 1 => turnCount[t] = 0
  BY DEF StartThinking, IndInv, AskedInv
<1>2. turnCount \in [Tasks -> 0..MaxTurns]
  BY DEF IndInv, TypeOK
<1> QED
  BY <1>1, <1>2 DEF StartThinking

\* Calls to the providers.
LEMMA CallStep ==
  ASSUME IndInv, NEW t \in Tasks,
         \/ StartThinking(t) \/ ThinkingFails(t)
         \/ SpeechFails(t) \/ StartTitle(t) \/ TitleCallFails(t),
         loop' \in Tasks \cup {Free}
  PROVE  IndInv'
<1>1. UNCHANGED <<stage, turn, turnCount, asked, parts>>
  BY OpeningResets DEF StartThinking, ThinkingFails, SpeechFails, StartTitle, TitleCallFails
<1>2. attempt' \in [Tasks -> 0..6]
  <2>1. PICK w \in 0..4, v \in 0..6 : w = Len(WritingChain) /\ v = Len(SpeechChain)
    BY Chains
  <2>2. attempt[t] \in 0..6
    BY DEF IndInv, TypeOK
  <2>3. \/ attempt' = attempt
        \/ /\ attempt' = [attempt EXCEPT ![t] = attempt[t] + 1]
           /\ attempt[t] < w \/ attempt[t] < v
    BY <2>1 DEF StartThinking, ThinkingFails, SpeechFails, StartTitle, TitleCallFails, CallsLeft
  <2>4. attempt' = attempt \/ attempt[t] + 1 \in 0..6
    BY <2>2, <2>3
  <2> QED
    BY <2>3, <2>4 DEF IndInv, TypeOK
<1>3. TypeOK'
  BY <1>1, <1>2 DEF IndInv, TypeOK
<1>4. stage' = [stage EXCEPT ![t] = stage[t]]
  BY <1>1 DEF IndInv, TypeOK
<1> QED
  BY <1>1, <1>3, <1>4, Moves

\* From one stage to the next.
LEMMA StageStep ==
  ASSUME IndInv, NEW t \in Tasks,
         HearAnswer(t) \/ GiveUp(t) \/ Stitch(t) \/ Title(t)
  PROVE  IndInv'
<1>1. PICK st \in {"voicing_host", "titling"} \cup Ended :
        /\ stage' = [stage EXCEPT ![t] = st] /\ attempt' = [attempt EXCEPT ![t] = 0]
        /\ \/ stage[t] = "waiting" /\ st \in {"voicing_host", "failed"}
           \/ stage[t] \in {"stitching", "titling"} /\ st \in {"titling"} \cup Ended
        /\ UNCHANGED <<turn, turnCount, asked, parts>> /\ loop' \in Tasks \cup {Free}
  BY DEF HearAnswer, GiveUp, Stitch, Title, TitleCalled, Resume, Enter, Ended, IndInv, TypeOK
<1>2. TypeOK'
  BY <1>1 DEF IndInv, TypeOK, Ended
<1> QED
  BY <1>1, <1>2, Moves DEF Ended

\* What NextTurn does.
LEMMA TurnEnds ==
  ASSUME TypeOK, NEW t \in Tasks, NextTurn(t)
  PROVE  \E st \in {"stitching", "thinking"} :
           /\ stage' = [stage EXCEPT ![t] = st] /\ attempt' = [attempt EXCEPT ![t] = 0]
           /\ turn' \in [Tasks -> 1..MaxTurns]
           /\ \/ turn' = turn /\ st = "stitching"
              \/ turn' = [turn EXCEPT ![t] = turn[t] + 1] /\ st = "thinking"
<1>1. CASE turn[t] = MaxTurns
  BY <1>1 DEF NextTurn, Enter, TypeOK
<1>2. CASE turn[t] # MaxTurns
  <2>1. turn[t] + 1 \in 1..MaxTurns
    BY <1>2, TurnsAssumption DEF TypeOK
  <2> QED
    BY <1>2, <2>1 DEF NextTurn, Enter, TypeOK
<1> QED
  BY <1>1, <1>2

\* No provider is left.
LEMMA SkipSpeechStep ==
  ASSUME IndInv, NEW t \in Tasks, SkipSpeech(t)
  PROVE  IndInv'
<1>1. PICK st \in {"stitching", "thinking"} :
        /\ stage' = [stage EXCEPT ![t] = st] /\ attempt' = [attempt EXCEPT ![t] = 0]
        /\ turn' \in [Tasks -> 1..MaxTurns]
        /\ \/ turn' = turn /\ st = "stitching"
           \/ turn' = [turn EXCEPT ![t] = turn[t] + 1] /\ st = "thinking"
  BY TurnEnds DEF SkipSpeech, IndInv
<1>2. stage[t] \in {"voicing_host", "voicing_guest"} /\ UNCHANGED <<loop, turnCount, asked, parts>>
  BY DEF SkipSpeech, Resume
<1>3. TypeOK'
  BY <1>1, <1>2 DEF IndInv, TypeOK
<1> QED
  BY <1>1, <1>2, <1>3, Moves

\* The counter has counted the questions so far, so the next is on the theme
\* of its turn, and is counted.
LEMMA AskStep ==
  ASSUME IndInv, NEW t \in Tasks, AskGenerated(t) \/ AskFixed(t)
  PROVE  IndInv'
<1> USE DEF IndInv
<1>1. PICK n \in Nat :
        /\ n = Len(asked[t]) /\ n = turn[t] - 1 /\ n < ArcLength /\ n + 1 \in 1..MaxTurns
        /\ n = turnCount[t] /\ asked[t] \in Seq(Question)
  <2>1. asked[t] \in Seq(Question) /\ turn[t] \in 1..MaxTurns
    BY DEF TypeOK
  <2>2. Len(asked[t]) = turn[t] - 1 /\ turnCount[t] = Len(asked[t])
    BY DEF AskedInv, AskGenerated, AskFixed
  <2> QED
    BY <2>1, <2>2, ArcAssumption, TurnsAssumption
<1>2. PICK q \in Question : q = n /\ ArcIndex(t) = q
  <2>1. ArcIndex(t) = n /\ n \in 0..ArcLength - 1
    BY <1>1, ArcAssumption DEF ArcIndex, Smaller
  <2> QED
    BY <2>1 DEF Question
<1>a. /\ Ask(t)
      /\ turnCount' = [turnCount EXCEPT ![t] = n + 1]
  <2>1. (IF turn[t] = 1 THEN 1 ELSE turnCount[t] + 1) = n + 1
    BY <1>1 DEF TypeOK
  <2>2. Ask(t)
    BY DEF AskGenerated, AskFixed
  <2> QED
    BY <2>1, <2>2 DEF Ask
<1>3. asked' = [asked EXCEPT ![t] = Append(asked[t], q)]
  BY <1>a, <1>2 DEF Ask
<1>4. PICK s \in Seq(Question) :
        /\ s = Append(asked[t], q) /\ DOMAIN asked[t] = 1..n
        /\ Len(s) = n + 1 /\ s[n + 1] = q /\ DOMAIN s = 1..(n + 1)
        /\ \A k \in 1..n : s[k] = asked[t][k]
  <2>1. PICK r \in Seq(Question) : r = asked[t]
    BY <1>1
  <2>2. PICK s \in Seq(Question) : s = Append(r, q)
    BY Appended
  <2>3. /\ Len(s) = Len(r) + 1 /\ DOMAIN s = 1..(Len(r) + 1) /\ DOMAIN r = 1..Len(r)
        /\ s[Len(r) + 1] = q
        /\ \A k \in 1..Len(r) : s[k] = r[k]
    BY <2>2, Appended
  <2>4. n = Len(r)
    BY <1>1, <2>1
  <2> QED
    BY <2>1, <2>2, <2>3, <2>4
<1>5. stage[t] = "thinking" /\ stage' = [stage EXCEPT ![t] = "waiting"]
  BY <1>a DEF AskGenerated, AskFixed, Ask, Enter
<1>6. UNCHANGED <<turn, parts>> /\ loop' = Free /\ attempt' = [attempt EXCEPT ![t] = 0]
  BY <1>a DEF Ask, Enter
<1>7. TypeOK'
  <2>1. turnCount' \in [Tasks -> 0..MaxTurns]
    <3>1. n + 1 \in 0..MaxTurns
      BY <1>1
    <3> QED
      BY <1>a, <3>1 DEF TypeOK
  <2>2. asked' \in [Tasks -> Seq(Question)]
    BY <1>3, <1>4 DEF TypeOK
  <2>3. /\ loop' \in Tasks \cup {Free}
        /\ stage' \in [Tasks -> {"thinking", "waiting", "voicing_host", "voicing_guest",
                                 "stitching", "titling"} \cup Ended]
    BY <1>5, <1>6 DEF TypeOK
  <2>4. attempt' \in [Tasks -> 0..6]
    BY <1>6 DEF TypeOK
  <2>5. turn' \in [Tasks -> 1..MaxTurns] /\ parts' \in [Tasks -> Seq(Part)]
    BY <1>6 DEF TypeOK
  <2> QED
    BY <2>1, <2>2, <2>3, <2>4, <2>5 DEF TypeOK
<1>8. ArcKept'
  <2>1. \A k \in DOMAIN s : s[k] = k - 1
    <3>1. \A k \in 1..(n + 1) : k \in 1..n \/ (k = n + 1 /\ k - 1 = n)
      OBVIOUS
    <3> QED
      BY <1>2, <1>4, <3>1 DEF ArcKept
  <2>2. \A u \in Tasks : asked'[u] = IF u = t THEN s ELSE asked[u]
    BY <1>3, <1>4 DEF TypeOK
  <2> QED
    BY <2>1, <2>2 DEF ArcKept
<1>9. AskedInv'
  <2>1. \A u \in Tasks \ {t} : 
        /\ asked'[u] = asked[u] /\ stage'[u] = stage[u] /\ turn'[u] = turn[u]
        /\ turnCount'[u] = turnCount[u]
    BY <1>a, <1>3, <1>5, <1>6 DEF TypeOK
  <2>2. /\ asked'[t] = s /\ stage'[t] = "waiting"
        /\ turn'[t] = n + 1 /\ turnCount'[t] = n + 1
    BY <1>a, <1>1, <1>3, <1>4, <1>5, <1>6 DEF TypeOK
  <2> QED
    BY <1>4, <2>1, <2>2 DEF AskedInv
<1>10. PartsInv'
  BY <1>5, <1>6 DEF PartsInv, TypeOK
<1>11. AnswerFollowsQuestion'
  BY <1>6 DEF AnswerFollowsQuestion
<1> QED
  BY <1>7, <1>8, <1>9, <1>10, <1>11

\* One more piece of speech, as the two steps that voice one need it.
LEMMA Voiced ==
  ASSUME IndInv, NEW t \in Tasks, NEW v \in {"host", "guest"}, AddPart(t, v)
  PROVE  \E s \in Seq(Part), n \in Nat :
           /\ parts' = [parts EXCEPT ![t] = s]
           /\ n = Len(parts[t]) /\ DOMAIN parts[t] = 1..n
           /\ Len(s) = n + 1 /\ DOMAIN s = 1..(n + 1)
           /\ s[n + 1] = [turn |-> turn[t], voice |-> v]
           /\ \A k \in 1..n : s[k] = parts[t][k]
<1>1. PICK r \in Seq(Part) : r = parts[t]
  BY PartsTyped DEF IndInv
<1>2. PICK p \in Part : p = [turn |-> turn[t], voice |-> v]
  BY DEF IndInv, TypeOK, Part
<1>3. Len(r) \in Nat /\ DOMAIN r = 1..Len(r)
  BY Appended
<1>4. PICK s \in Seq(Part) : s = Append(r, p)
  BY Appended
<1>5. /\ Len(s) = Len(r) + 1 /\ DOMAIN s = 1..(Len(r) + 1)
      /\ s[Len(r) + 1] = p
      /\ \A k \in 1..Len(r) : s[k] = r[k]
  BY <1>4, Appended
<1>6. parts' = [parts EXCEPT ![t] = s]
  BY <1>1, <1>2, <1>4 DEF AddPart
<1>7. PICK n \in Nat : n = Len(r)
  BY <1>3
<1>8. Len(s) = n + 1 /\ DOMAIN s = 1..(n + 1) /\ s[n + 1] = p /\ \A k \in 1..n : s[k] = r[k]
  BY <1>7, <1>5
<1>9. n = Len(parts[t]) /\ DOMAIN parts[t] = 1..n /\ \A k \in 1..n : s[k] = parts[t][k]
  BY <1>1, <1>3, <1>7, <1>8
<1>10. /\ Len(s) = n + 1 /\ DOMAIN s = 1..(n + 1) /\ s[n + 1] = [turn |-> turn[t], voice |-> v]
       /\ n = Len(parts[t]) /\ DOMAIN parts[t] = 1..n /\ \A k \in 1..n : s[k] = parts[t][k]
  BY <1>2, <1>8, <1>9
<1> QED
  BY <1>6, <1>10

\* A question is voiced in a turn of which nothing is heard yet.
LEMMA VoiceQuestionStep ==
  ASSUME IndInv, NEW t \in Tasks, VoiceQuestion(t)
  PROVE  IndInv'
<1> USE DEF IndInv
<1>1. PICK s \in Seq(Part), n \in Nat :
        /\ parts' = [parts EXCEPT ![t] = s]
        /\ n = Len(parts[t]) /\ DOMAIN parts[t] = 1..n
        /\ Len(s) = n + 1 /\ DOMAIN s = 1..(n + 1)
        /\ s[n + 1] = [turn |-> turn[t], voice |-> "host"]
        /\ \A k \in 1..n : s[k] = parts[t][k]
  BY Voiced DEF VoiceQuestion
<1>2. /\ stage[t] = "voicing_host" /\ stage' = [stage EXCEPT ![t] = "voicing_guest"]
      /\ attempt' = [attempt EXCEPT ![t] = 0] /\ UNCHANGED <<loop, turn, turnCount, asked>>
  BY DEF VoiceQuestion, Resume, Enter, AddPart
<1>3. TypeOK'
  BY <1>1, <1>2 DEF TypeOK
<1>4. ArcKept' /\ AskedInv'
  BY <1>2 DEF ArcKept, AskedInv, TypeOK
<1>5. \A u \in Tasks :
        /\ parts'[u] = IF u = t THEN s ELSE parts[u]
        /\ stage'[u] = IF u = t THEN "voicing_guest" ELSE stage[u]
  BY <1>1, <1>2 DEF TypeOK
<1>6. \A k \in 1..n : parts[t][k].turn < turn[t]
  BY <1>1, <1>2 DEF PartsInv
<1>7. AnswerFollowsQuestion'
  <2>1. \A k \in 1..(n + 1) : k \in 1..n \/ k = n + 1
    OBVIOUS
  <2>2. ASSUME NEW k \in 1..n
        PROVE  /\ s[k].voice = "guest" => k > 1 /\ s[k - 1] = [s[k] EXCEPT !.voice = "host"]
               /\ s[k].voice = "host" /\ k > 1 => s[k - 1].turn < s[k].turn
    <3>1. k > 1 => k - 1 \in 1..n
      OBVIOUS
    <3>2. s[k] = parts[t][k] /\ (k > 1 => s[k - 1] = parts[t][k - 1])
      BY <1>1, <3>1
    <3>3. k \in DOMAIN parts[t]
      BY <1>1
    <3>4. /\ parts[t][k].voice = "guest" =>
               k > 1 /\ parts[t][k - 1] = [parts[t][k] EXCEPT !.voice = "host"]
          /\ parts[t][k].voice = "host" /\ k > 1 => parts[t][k - 1].turn < parts[t][k].turn
      BY <3>3 DEF AnswerFollowsQuestion
    <3> QED
      BY <3>2, <3>4
  <2>3. s[n + 1].voice = "host" /\ s[n + 1].turn = turn[t]
    BY <1>1
  <2>4. n + 1 > 1 => s[n + 1 - 1].turn < s[n + 1].turn
    <3>1. n + 1 > 1 => n \in 1..n /\ n + 1 - 1 = n
      OBVIOUS
    <3> QED
      BY <1>1, <1>6, <2>3, <3>1
  <2>5. \A k \in DOMAIN s :
          /\ s[k].voice = "guest" => k > 1 /\ s[k - 1] = [s[k] EXCEPT !.voice = "host"]
          /\ s[k].voice = "host" /\ k > 1 => s[k - 1].turn < s[k].turn
    BY <1>1, <2>1, <2>2, <2>3, <2>4
  <2> QED
    <3>1. ASSUME NEW u \in Tasks, NEW k \in DOMAIN parts'[u]
          PROVE  /\ parts'[u][k].voice = "guest" =>
                      k > 1 /\ parts'[u][k - 1] = [parts'[u][k] EXCEPT !.voice = "host"]
                 /\ parts'[u][k].voice = "host" /\ k > 1 =>
                      parts'[u][k - 1].turn < parts'[u][k].turn
      <4>1. CASE u = t
        BY <1>5, <2>5, <4>1
      <4>2. CASE u # t
        BY <1>5, <4>2 DEF AnswerFollowsQuestion
      <4> QED
        BY <4>1, <4>2
    <3> QED
      BY <3>1 DEF AnswerFollowsQuestion
<1>8. PartsInv'
  <2>1. \A k \in DOMAIN s : s[k].turn <= turn[t]
    <3>1. \A k \in 1..(n + 1) : k \in 1..n \/ k = n + 1
      OBVIOUS
    <3>2. turn[t] \in Nat
      BY DEF TypeOK
    <3>3. \A k \in 1..n : parts[t][k].turn <= turn[t]
      BY <1>1 DEF PartsInv
    <3> QED
      BY <1>1, <3>1, <3>2, <3>3
  <2>2. s # <<>> /\ s[Len(s)] = [turn |-> turn[t], voice |-> "host"]
    BY <1>1
  <2> QED
    BY <1>2, <1>5, <2>1, <2>2 DEF PartsInv
<1> QED
  BY <1>3, <1>4, <1>7, <1>8

\* An answer is voiced when its question is the last piece there is.
LEMMA VoiceAnswerStep ==
  ASSUME IndInv, NEW t \in Tasks, VoiceAnswer(t)
  PROVE  IndInv'
<1> USE DEF IndInv
<1>1. PICK s \in Seq(Part), n \in Nat :
        /\ parts' = [parts EXCEPT ![t] = s]
        /\ n = Len(parts[t]) /\ DOMAIN parts[t] = 1..n
        /\ Len(s) = n + 1 /\ DOMAIN s = 1..(n + 1)
        /\ s[n + 1] = [turn |-> turn[t], voice |-> "guest"]
        /\ \A k \in 1..n : s[k] = parts[t][k]
  BY Voiced DEF VoiceAnswer
<1>2. PICK st \in {"stitching", "thinking"} :
        /\ stage' = [stage EXCEPT ![t] = st] /\ attempt' = [attempt EXCEPT ![t] = 0]
        /\ turn' \in [Tasks -> 1..MaxTurns]
        /\ \/ turn' = turn /\ st = "stitching"
           \/ turn' = [turn EXCEPT ![t] = turn[t] + 1] /\ st = "thinking"
  BY TurnEnds DEF VoiceAnswer
<1>3. stage[t] = "voicing_guest" /\ UNCHANGED <<loop, turnCount, asked>>
  BY DEF VoiceAnswer, Resume, AddPart
<1>4. TypeOK'
  BY <1>1, <1>2, <1>3 DEF TypeOK
<1>5. \A u \in Tasks :
        /\ parts'[u] = IF u = t THEN s ELSE parts[u]
        /\ stage'[u] = IF u = t THEN st ELSE stage[u]
        /\ u # t => turn'[u] = turn[u]
        /\ turn[u] \in Nat /\ turn'[u] \in Nat
  BY <1>1, <1>2 DEF TypeOK
<1>6. \/ turn'[t] = turn[t] /\ st = "stitching"
      \/ turn'[t] = turn[t] + 1 /\ st = "thinking"
  BY <1>2 DEF TypeOK
<1>7. ArcKept'
  BY <1>3 DEF ArcKept
<1>8. AskedInv'
  BY <1>3, <1>5, <1>6 DEF AskedInv
<1>9. n \in 1..n /\ parts[t][n] = [turn |-> turn[t], voice |-> "host"]
  <2>1. parts[t] # <<>> /\ parts[t][n] = [turn |-> turn[t], voice |-> "host"]
    BY <1>1, <1>3 DEF PartsInv
  <2>2. parts[t] \in Seq(Part)
    BY PartsTyped
  <2>3. n # 0
    BY <1>1, <2>1, <2>2
  <2> QED
    BY <2>1, <2>3
<1>10. AnswerFollowsQuestion'
  <2>1. \A k \in 1..(n + 1) : k \in 1..n \/ k = n + 1
    OBVIOUS
  <2>2. ASSUME NEW k \in 1..n
        PROVE  /\ s[k].voice = "guest" => k > 1 /\ s[k - 1] = [s[k] EXCEPT !.voice = "host"]
               /\ s[k].voice = "host" /\ k > 1 => s[k - 1].turn < s[k].turn
    <3>1. k > 1 => k - 1 \in 1..n
      OBVIOUS
    <3>2. s[k] = parts[t][k] /\ (k > 1 => s[k - 1] = parts[t][k - 1])
      BY <1>1, <3>1
    <3>3. k \in DOMAIN parts[t]
      BY <1>1
    <3>4. /\ parts[t][k].voice = "guest" =>
               k > 1 /\ parts[t][k - 1] = [parts[t][k] EXCEPT !.voice = "host"]
          /\ parts[t][k].voice = "host" /\ k > 1 => parts[t][k - 1].turn < parts[t][k].turn
      BY <3>3 DEF AnswerFollowsQuestion
    <3> QED
      BY <3>2, <3>4
  <2>3. /\ s[n + 1].voice = "guest"
        /\ [s[n + 1] EXCEPT !.voice = "host"] = [turn |-> turn[t], voice |-> "host"]
    BY <1>1
  <2>4. n + 1 > 1 /\ n + 1 - 1 = n /\ s[n] = [turn |-> turn[t], voice |-> "host"]
    BY <1>1, <1>9
  <2>5. \A k \in DOMAIN s :
          /\ s[k].voice = "guest" => k > 1 /\ s[k - 1] = [s[k] EXCEPT !.voice = "host"]
          /\ s[k].voice = "host" /\ k > 1 => s[k - 1].turn < s[k].turn
    BY <1>1, <2>1, <2>2, <2>3, <2>4
  <2> QED
    <3>1. ASSUME NEW u \in Tasks, NEW k \in DOMAIN parts'[u]
          PROVE  /\ parts'[u][k].voice = "guest" =>
                      k > 1 /\ parts'[u][k - 1] = [parts'[u][k] EXCEPT !.voice = "host"]
                 /\ parts'[u][k].voice = "host" /\ k > 1 =>
                      parts'[u][k - 1].turn < parts'[u][k].turn
      <4>1. CASE u = t
        BY <1>5, <2>5, <4>1
      <4>2. CASE u # t
        BY <1>5, <4>2 DEF AnswerFollowsQuestion
      <4> QED
        BY <4>1, <4>2
    <3> QED
      BY <3>1 DEF AnswerFollowsQuestion
<1>11. PartsInv'
  <2>1. \A k \in 1..n : parts[t][k].turn <= turn[t] /\ parts[t][k].turn \in Nat
    BY <1>1, PartsTyped DEF PartsInv
  <2>2. \A k \in DOMAIN s : s[k].turn <= turn[t] /\ s[k].turn \in Nat
    <3>1. \A k \in 1..(n + 1) : k \in 1..n \/ k = n + 1
      OBVIOUS
    <3> QED
      BY <1>1, <1>5, <2>1, <3>1
  <2>3. \A k \in DOMAIN s : s[k].turn <= turn'[t] /\ (st = "thinking" => s[k].turn < turn'[t])
    BY <1>5, <1>6, <2>2
  <2> QED
    BY <1>5, <1>6, <2>3 DEF PartsInv
<1> QED
  BY <1>4, <1>7, <1>8, <1>10, <1>11

\* The invariant is kept by every step.
LEMMA NextInd == IndInv /\ [Next]_vars => IndInv'
<1> SUFFICES ASSUME IndInv, [Next]_vars PROVE IndInv'
  OBVIOUS
<1>1. CASE UNCHANGED vars
  BY <1>1 DEF vars, IndInv, TypeOK, AnswerFollowsQuestion, ArcKept, AskedInv, PartsInv
<1>2. ASSUME NEW t \in Tasks, Step(t) PROVE IndInv'
  <2>1. CASE StartThinking(t) \/ StartTitle(t)
    <3>1. loop' = t
      BY <2>1 DEF StartThinking, StartTitle
    <3> QED
      BY <2>1, <3>1, CallStep
  <2>2. CASE ThinkingFails(t) \/ SpeechFails(t)
    <3>1. loop' \in Tasks \cup {Free}
      BY <2>2 DEF ThinkingFails, SpeechFails, IndInv, TypeOK
    <3> QED
      BY <2>2, <3>1, CallStep
  <2>3. CASE TitleFails(t) \/ TitleEmpty(t)
    <3>1. TitleCallFails(t) /\ loop' \in Tasks \cup {Free}
      BY <2>3 DEF TitleFails, TitleEmpty, IndInv, TypeOK
    <3> QED
      BY <3>1, CallStep
  <2>4. CASE HearAnswer(t) \/ GiveUp(t) \/ Stitch(t) \/ Title(t)
    BY <2>4, StageStep
  <2>5. CASE AskGenerated(t) \/ AskFixed(t)
    BY <2>5, AskStep
  <2>6. CASE SkipSpeech(t)
    BY <2>6, SkipSpeechStep
  <2>7. CASE VoiceQuestion(t)
    BY <2>7, VoiceQuestionStep
  <2>8. CASE VoiceAnswer(t)
    BY <2>8, VoiceAnswerStep
  <2> QED
    BY <1>2, <2>1, <2>2, <2>3, <2>4, <2>5, <2>6, <2>7, <2>8 DEF Step
<1> QED
  BY <1>1, <1>2 DEF Next

-----------------------------------------------------------------------------
\* The inductive invariant: a question a turn, all of them counted, and no
\* speech of a turn before its question.
THEOREM Invariance == Spec => []IndInv
<1> QED
  BY InitInd, NextInd, PTL DEF Spec

\* However many calls for speech fail, the episode is in the order of the
\* interview and has no answer without its question.
THEOREM EpisodeInOrder == Spec => []AnswerFollowsQuestion
<1>1. IndInv => AnswerFollowsQuestion
  BY DEF IndInv
<1> QED
  BY <1>1, Invariance, PTL

\* Whichever calls for a question fail, and whatever other interviews do in
\* between, the question of each turn is on the theme of that turn, so that no
\* theme comes twice.
THEOREM ArcIsKept == Spec => []ArcKept
<1>1. IndInv => ArcKept
  BY DEF IndInv
<1> QED
  BY <1>1, Invariance, PTL
=============================================================================
