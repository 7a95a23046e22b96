--------------------------- MODULE DashboardProofs ---------------------------
(***************************************************************************)
(* Proofs about Dashboard, for any number of agents, interviews, handlers  *)
(* that wait at once and requests that fail.                               *)
(***************************************************************************)
EXTENDS Dashboard, TLAPS

TableTyped ==
  /\ DOMAIN interview \subseteq Interviews
  /\ interview \in [DOMAIN interview -> [agent: Agents, status: Store!Live \cup Store!Done]]
  /\ conducted \cup audio \cup titled \subseteq Interviews

PageTyped ==
  /\ banner \in Views \cup {Closed}
  /\ polling \in BOOLEAN /\ blind \in BOOLEAN
  /\ failures \in 0..MaxFailures
  /\ call \in [Calls -> {Idle} \cup Waiting]

\* A view the page may show at any time from now on.
Playable(view) == view.status = "COMPLETED" => view.id \in audio

-----------------------------------------------------------------------------
\* What Looking and Loading build, and the parts of what a handler waits for.
LEMMA Forms ==
  /\ \A reply \in Views \cup {Awaited} :
       /\ Looking(reply) \in Waiting /\ Looking(reply).reply = reply
       /\ \A stop \in BOOLEAN :
            Loading(stop, reply) \in Waiting /\ Loading(stop, reply).reply = reply
  /\ \A w \in Waiting :
       /\ w # Idle /\ w.reply \in Views \cup {Awaited}
       /\ w.pc = "loading" => w.stop \in BOOLEAN
       /\ \A reply \in Views :
            [w EXCEPT !.reply = reply] \in Waiting /\ [w EXCEPT !.reply = reply].reply = reply
<1>1. ASSUME NEW reply \in Views \cup {Awaited}
      PROVE  /\ Looking(reply) \in Waiting /\ Looking(reply).reply = reply
             /\ \A stop \in BOOLEAN :
                  Loading(stop, reply) \in Waiting /\ Loading(stop, reply).reply = reply
  BY DEF Looking, Loading, Waiting
<1>2. ASSUME NEW w \in Waiting
      PROVE  /\ w # Idle /\ w.reply \in Views \cup {Awaited}
             /\ w.pc = "loading" => w.stop \in BOOLEAN
             /\ \A reply \in Views :
                  [w EXCEPT !.reply = reply] \in Waiting /\ [w EXCEPT !.reply = reply].reply = reply
  <2>1. CASE w \in [pc: {"looking"}, reply: Views \cup {Awaited}]
    BY <2>1 DEF Waiting, Idle
  <2>2. CASE w \in [pc: {"loading"}, stop: BOOLEAN, reply: Views \cup {Awaited}]
    BY <2>2 DEF Waiting, Idle
  <2> QED
    BY <1>2, <2>1, <2>2 DEF Waiting
<1> QED
  BY <1>1, <1>2

\* The reply of the backend can be shown when it is sent.
LEMMA ListIsPlayable ==
  ASSUME TableTyped
  PROVE  List \in Views /\ Playable(List)
<1>1. ASSUME NEW i \in ActiveOnes
      PROVE  Of(i) \in Views /\ Playable(Of(i))
  BY DEF TableTyped, ActiveOnes, StatusOf, Of, Views, Playable, Store!Existing, Store!Live
<1>2. ASSUME NEW i \in WithEpisode
      PROVE  Of(i) \in Views /\ Playable(Of(i))
  <2>1. i \in audio /\ i \in Interviews /\ StatusOf(i) = "COMPLETED"
    BY DEF WithEpisode, TableTyped
  <2>2. interview[i].status = "COMPLETED"
    BY <2>1 DEF StatusOf
  <2> QED
    BY <2>1, <2>2 DEF Of, Views, Playable
<1>3. Newest(ActiveOnes) \subseteq ActiveOnes /\ Newest(WithEpisode) \subseteq WithEpisode
  BY DEF Newest
<1>4. Nothing \in Views /\ Playable(Nothing)
  BY DEF Nothing, Views, Playable
<1>5. PICK first :
        /\ first = IF ActiveOnes # {} THEN Newest(ActiveOnes) ELSE Newest(WithEpisode)
        /\ first \subseteq ActiveOnes \/ first \subseteq WithEpisode
  BY <1>3
<1>6. CASE first = {}
  BY <1>4, <1>5, <1>6 DEF List
<1>7. CASE first # {}
  <2>1. PICK i : i = CHOOSE j \in first : TRUE
    OBVIOUS
  <2>2. i \in first
    BY <1>7, <2>1
  <2>3. List = Of(i)
    BY <1>5, <1>7, <2>1 DEF List
  <2> QED
    BY <1>1, <1>2, <1>5, <2>2, <2>3
<1> QED
  BY <1>6, <1>7

-----------------------------------------------------------------------------
\* A status is set.
LEMMA SetTyped ==
  ASSUME TableTyped, NEW ids, NEW st \in Store!Live \cup Store!Done, Store!Set(ids, st)
  PROVE  /\ DOMAIN interview' \subseteq Interviews
         /\ interview' \in
              [DOMAIN interview' -> [agent: Agents, status: Store!Live \cup Store!Done]]
<1>1. PICK f : f = interview
  OBVIOUS
<1>2. \A j \in DOMAIN f :
        /\ f[j] \in [agent: Agents, status: Store!Live \cup Store!Done]
        /\ [f[j] EXCEPT !.status = st] \in [agent: Agents, status: Store!Live \cup Store!Done]
  BY <1>1 DEF TableTyped
<1>3. interview' = [j \in DOMAIN f |-> IF j \in ids THEN [f[j] EXCEPT !.status = st] ELSE f[j]]
  BY <1>1 DEF Store!Set, Store!Existing
<1>4. DOMAIN interview' = DOMAIN f
  BY <1>3
<1>5. interview' \in [DOMAIN f -> [agent: Agents, status: Store!Live \cup Store!Done]]
  BY <1>2, <1>3
<1> QED
  BY <1>1, <1>4, <1>5 DEF TableTyped

\* An interview is added.
LEMMA RequestTyped ==
  ASSUME TableTyped, NEW i \in Interviews, NEW a \in Agents, Store!Request(i, a)
  PROVE  /\ DOMAIN interview' \subseteq Interviews
         /\ interview' \in
              [DOMAIN interview' -> [agent: Agents, status: Store!Live \cup Store!Done]]
<1>1. PICK f : f = interview
  OBVIOUS
<1>2. \A j \in DOMAIN f : f[j] \in [agent: Agents, status: Store!Live \cup Store!Done]
  BY <1>1 DEF TableTyped
<1>3. PICK q \in [agent: Agents, status: Store!Live \cup Store!Done] :
        q = [agent |-> a, status |-> "QUEUED"]
  BY DEF Store!Live
<1>4. interview' = [j \in DOMAIN f \cup {i} |-> IF j = i THEN q ELSE f[j]]
  BY <1>1, <1>3 DEF Store!Request, Store!Existing
<1>5. DOMAIN interview' = DOMAIN f \cup {i}
  BY <1>4
<1>6. interview' \in [DOMAIN f \cup {i} -> [agent: Agents, status: Store!Live \cup Store!Done]]
  BY <1>2, <1>4
<1> QED
  BY <1>1, <1>5, <1>6 DEF TableTyped

\* What happens to the interviews keeps the types, removes no file and does
\* not touch the page.
LEMMA TableStep ==
  ASSUME TableTyped, NEW i \in Interviews, Table(i)
  PROVE  TableTyped' /\ audio \subseteq audio' /\ UNCHANGED pageVars
<1>1. ASSUME NEW a \in Agents, RequestInterview(i, a)
      PROVE  TableTyped' /\ audio \subseteq audio' /\ UNCHANGED pageVars
  BY <1>1, RequestTyped DEF RequestInterview, TableTyped
<1>2. ASSUME NEW st \in Store!Live \cup Store!Done, Store!Set({i}, st),
             conducted' \subseteq Interviews, titled' = titled,
             audio' \in {audio, audio \cup {i}}, UNCHANGED pageVars
      PROVE  TableTyped' /\ audio \subseteq audio' /\ UNCHANGED pageVars
  BY <1>2, SetTyped DEF TableTyped
<1>3. CASE EndFromOutside(i) \/ Claim(i) \/ Fail(i) \/ Complete(i)
  <2>1. \E st \in Store!Live \cup Store!Done : Store!Set({i}, st)
    BY <1>3 DEF EndFromOutside, Claim, Fail, Complete, Store!Claim, Store!Finish,
                Store!Live, Store!Done
  <2>2. /\ conducted' \subseteq Interviews /\ titled' = titled
        /\ audio' \in {audio, audio \cup {i}} /\ UNCHANGED pageVars
    BY <1>3 DEF EndFromOutside, Claim, Fail, Complete, TableTyped
  <2> QED
    BY <1>2, <2>1, <2>2
<1>4. CASE SaveTitle(i)
  BY <1>4 DEF SaveTitle, TableTyped
<1> QED
  BY <1>1, <1>3, <1>4 DEF Table

-----------------------------------------------------------------------------
\* The invariant in the parts the steps change.
LEMMA Parts ==
  IndInv <=> /\ TableTyped /\ PageTyped /\ Playable(banner)
             /\ \A c \in Calls : call[c] # Idle => Playable(call[c].reply)
BY DEF IndInv, TypeOK, OfferedIsPlayable, RepliesArePlayable, TableTyped, PageTyped, Playable

\* The inductive invariant holds at first.
LEMMA InitInd == Init => IndInv
<1> SUFFICES ASSUME Init PROVE IndInv
  OBVIOUS
<1>1. TableTyped
  BY DEF Init, Store!Init, TableTyped
<1>2. PageTyped
  <2>1. failures \in 0..MaxFailures
    BY FailuresAssumption DEF Init
  <2>2. call \in [Calls -> {Idle} \cup Waiting]
    BY DEF Init
  <2> QED
    BY <2>1, <2>2 DEF Init, PageTyped
<1>3. Playable(banner) /\ \A c \in Calls : call[c] = Idle
  BY DEF Init, Playable, Closed
<1> QED
  BY <1>1, <1>2, <1>3, Parts

\* A handler of the page comes to wait for something else, the table and the
\* banner staying as they are.
LEMMA CallStep ==
  ASSUME IndInv, NEW c \in Calls, NEW w \in {Idle} \cup Waiting,
         call' = [call EXCEPT ![c] = w],
         w # Idle => Playable(w.reply),
         UNCHANGED tableVars,
         banner' \in Views \cup {Closed}, Playable(banner'),
         polling' \in BOOLEAN, blind' \in BOOLEAN, failures' \in 0..MaxFailures
  PROVE  IndInv'
<1>1. TableTyped' /\ audio' = audio
  BY Parts DEF TableTyped, tableVars
<1>2. call \in [Calls -> {Idle} \cup Waiting]
  BY Parts DEF PageTyped
<1>3. \A d \in Calls : call'[d] = IF d = c THEN w ELSE call[d]
  BY <1>2
<1>4. PageTyped'
  BY <1>2 DEF PageTyped
<1>5. \A d \in Calls : call'[d] # Idle => Playable(call'[d].reply)
  BY <1>3, Parts
<1>6. Playable(banner)'
  BY <1>1 DEF Playable
<1>7. (\A d \in Calls : call[d] # Idle => Playable(call[d].reply))'
  BY <1>1, <1>5 DEF Playable
<1>8. (TypeOK /\ OfferedIsPlayable)'
  BY <1>1, <1>4, <1>6 DEF TypeOK, OfferedIsPlayable, TableTyped, PageTyped, Playable
<1>9. RepliesArePlayable'
  BY <1>7 DEF RepliesArePlayable, Playable
<1> QED
  BY <1>8, <1>9 DEF IndInv

\* The handlers of the page.
LEMMA PageStep ==
  ASSUME IndInv, NEW c \in Calls, Open(c) \/ Page(c) \/ RequestFails(c)
  PROVE  IndInv'
<1>1. /\ TableTyped /\ PageTyped /\ Playable(banner)
      /\ \A d \in Calls : call[d] # Idle => Playable(call[d].reply)
  BY Parts
<1>2. /\ call[c] \in {Idle} \cup Waiting /\ banner \in Views \cup {Closed}
      /\ polling \in BOOLEAN /\ blind \in BOOLEAN /\ failures \in 0..MaxFailures
  BY <1>1 DEF PageTyped
<1>3. /\ Playable(Awaited) /\ Playable(Nothing) /\ Nothing \in Views
      /\ Awaited \in Views \cup {Awaited}
  BY DEF Playable, Awaited, Nothing, Views
<1>4. CASE Open(c)
  <2>1. PICK w \in Waiting : w = Loading(FALSE, Awaited) /\ w.reply = Awaited
    BY <1>3, Forms
  <2>2. /\ call' = [call EXCEPT ![c] = w] /\ banner' = Nothing
        /\ UNCHANGED <<tableVars, polling, failures, blind>>
    BY <1>4, <2>1 DEF Open
  <2>3. banner' \in Views \cup {Closed} /\ Playable(banner')
    BY <1>3, <2>2
  <2> QED
    BY <1>2, <1>3, <2>1, <2>2, <2>3, CallStep
<1>5. CASE Tick(c)
  <2>1. PICK w \in Waiting : w = Looking(Awaited) /\ w.reply = Awaited
    BY <1>3, Forms
  <2>2. /\ call' = [call EXCEPT ![c] = w]
        /\ UNCHANGED <<tableVars, banner, polling, failures, blind>>
    BY <1>5, <2>1 DEF Tick
  <2>3. banner' \in Views \cup {Closed} /\ Playable(banner')
    BY <1>1, <1>2, <2>2
  <2> QED
    BY <1>2, <1>3, <2>1, <2>2, <2>3, CallStep
<1>6. CASE Reply(c)
  <2>1. PICK view \in Views : view = List /\ Playable(view)
    BY <1>1, ListIsPlayable
  <2>2. call[c] \in Waiting
    BY <1>2, <1>6 DEF Reply
  <2>3. PICK w \in Waiting : w = [call[c] EXCEPT !.reply = view] /\ w.reply = view
    <3>1. PICK v \in Waiting : v = call[c]
      BY <2>2
    <3>2. PICK w : w = [v EXCEPT !.reply = view]
      OBVIOUS
    <3>3. w \in Waiting /\ w.reply = view
      BY <3>2, Forms
    <3> QED
      BY <3>1, <3>2, <3>3
  <2>4. /\ call' = [call EXCEPT ![c] = w]
        /\ UNCHANGED <<tableVars, banner, polling, failures, blind>>
    BY <1>6, <2>1, <2>3 DEF Reply
  <2>5. banner' \in Views \cup {Closed} /\ Playable(banner')
    BY <1>1, <1>2, <2>4
  <2> QED
    BY <1>2, <2>1, <2>3, <2>4, <2>5, CallStep
<1>7. CASE Look(c)
  <2>1. PICK stop \in BOOLEAN : stop = ~IsActive(call[c].reply)
    OBVIOUS
  <2>2. PICK w \in Waiting : w = Loading(stop, Awaited) /\ w.reply = Awaited
    BY <1>3, Forms
  <2>3. /\ call' = [call EXCEPT ![c] = w]
        /\ UNCHANGED <<tableVars, banner, polling, failures, blind>>
    BY <1>7, <2>1, <2>2 DEF Look
  <2>4. banner' \in Views \cup {Closed} /\ Playable(banner')
    BY <1>1, <1>2, <2>3
  <2> QED
    BY <1>2, <1>3, <2>2, <2>3, <2>4, CallStep
<1>8. CASE Load(c)
  <2>1. call[c] # Idle /\ call[c].pc = "loading" /\ call[c].reply # Awaited
    BY <1>8 DEF Load, Idle
  <2>2. call[c].reply \in Views /\ call[c].stop \in BOOLEAN
    BY <1>2, <2>1, Forms
  <2>3. /\ banner' = call[c].reply
        /\ blind' = (IF IsActive(call[c].reply) THEN call[c].stop ELSE FALSE)
        /\ call' = [call EXCEPT ![c] = Idle]
        /\ UNCHANGED <<tableVars, failures>>
        /\ polling' = (IsActive(call[c].reply) /\ ~call[c].stop)
    BY <1>8 DEF Load, Show
  <2>4. banner' \in Views \cup {Closed} /\ Playable(banner')
    BY <1>1, <2>1, <2>2, <2>3
  <2>5. polling' \in BOOLEAN /\ blind' \in BOOLEAN
    BY <2>2, <2>3
  <2> QED
    BY <1>2, <2>3, <2>4, <2>5, CallStep
<1>9. CASE RequestFails(c)
  <2>1. PICK stops : stops = IF call[c].pc = "loading" THEN call[c].stop ELSE FALSE
    OBVIOUS
  <2>2. /\ polling' = (polling /\ ~stops)
        /\ blind' = (blind \/ (stops /\ IsActive(banner)))
        /\ call' = [call EXCEPT ![c] = Idle]
        /\ UNCHANGED <<tableVars, banner>>
    BY <1>9, <2>1 DEF RequestFails
  <2>3. failures' \in 0..MaxFailures
    BY <1>2, <1>9, FailuresAssumption DEF RequestFails
  <2>4. polling' \in BOOLEAN /\ blind' \in BOOLEAN
    BY <2>2
  <2>5. banner' \in Views \cup {Closed} /\ Playable(banner')
    BY <1>1, <1>2, <2>2
  <2> QED
    BY <2>2, <2>3, <2>4, <2>5, CallStep
<1> QED
  BY <1>4, <1>5, <1>6, <1>7, <1>8, <1>9 DEF Page

\* The invariant is kept by every step.
LEMMA NextInd == IndInv /\ [Next]_vars => IndInv'
<1> SUFFICES ASSUME IndInv, [Next]_vars PROVE IndInv'
  OBVIOUS
<1>1. CASE UNCHANGED vars
  <2>1. UNCHANGED <<interview, conducted, audio, titled, banner, polling, call, failures, blind>>
    BY <1>1 DEF vars, tableVars, pageVars
  <2>2. TypeOK'
    BY <2>1 DEF IndInv, TypeOK
  <2>3. OfferedIsPlayable' /\ RepliesArePlayable'
    BY <2>1 DEF IndInv, OfferedIsPlayable, RepliesArePlayable
  <2> QED
    BY <2>2, <2>3 DEF IndInv
<1>2. ASSUME NEW i \in Interviews, Table(i) PROVE IndInv'
  <2>1. TableTyped' /\ audio \subseteq audio' /\ UNCHANGED pageVars
    BY <1>2, Parts, TableStep
  <2>2. UNCHANGED <<banner, polling, call, failures, blind>>
    BY <2>1 DEF pageVars
  <2>3. TypeOK'
    BY <2>1, <2>2 DEF IndInv, TypeOK, TableTyped
  <2>4. OfferedIsPlayable'
    BY <2>1, <2>2 DEF IndInv, OfferedIsPlayable
  <2>5. RepliesArePlayable'
    BY <2>1, <2>2 DEF IndInv, RepliesArePlayable
  <2> QED
    BY <2>3, <2>4, <2>5 DEF IndInv
<1> QED
  BY <1>1, <1>2, PageStep DEF Next

-----------------------------------------------------------------------------
\* The inductive invariant: also what a late reply will show can be played.
THEOREM Invariance == Spec => []IndInv
<1> QED
  BY InitInd, NextInd, PTL DEF Spec

\* The banner links only to an episode that can be played, whatever has
\* failed or been overtaken.
THEOREM LinksArePlayable == Spec => []OfferedIsPlayable
<1>1. IndInv => OfferedIsPlayable
  BY DEF IndInv
<1> QED
  BY <1>1, Invariance, PTL
=============================================================================
