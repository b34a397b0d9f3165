-------------------------- MODULE VoiceMoveProofs --------------------------
(***************************************************************************)
(* For any number of instances, tabs, channels and requests: the types,    *)
(* and, when the moderators share an instance that none of the member's    *)
(* tabs is on, that an instance whose request was answered is about to     *)
(* drop it.                                                                *)
(***************************************************************************)
EXTENDS VoiceMove, SequenceTheorems, TLAPS

-----------------------------------------------------------------------------
(* Types *)

LEMMA OneIsList ==
    ASSUME NEW S, NEW x \in S PROVE <<x>> \in Seq(S)
  OBVIOUS

LEMMA TwoIsList ==
    ASSUME NEW S, NEW x \in S, NEW y \in S PROVE <<x, y>> \in Seq(S)
  OBVIOUS

LEMMA MessageTypes ==
    ASSUME NEW m \in Moves, NEW ok \in BOOLEAN
    PROVE  /\ <<Started(m)>> \in Seq(Messages) /\ <<Finished(m)>> \in Seq(Messages)
           /\ <<Requested(m)>> \in Seq(Messages) /\ <<Result(m, ok)>> \in Seq(Messages)
           /\ <<Finished(m), Result(m, ok)>> \in Seq(Messages)
  <1>1. /\ Started(m) \in Messages /\ Finished(m) \in Messages
        /\ Requested(m) \in Messages /\ Result(m, ok) \in Messages
    BY DEF Started, Finished, Requested, Result, Messages
  <1> QED
    BY <1>1, OneIsList, TwoIsList

LEMMA PublishedTypes ==
    ASSUME inbox \in [Instances -> Seq(Messages)], NEW i \in Instances,
           NEW messages \in Seq(Messages)
    PROVE  Published(i, messages) \in [Instances -> Seq(Messages)]
  BY DEF Published

LEMMA TookTypes ==
    ASSUME inbox \in [Instances -> Seq(Messages)], NEW i \in Instances, inbox[i] # <<>>,
           Took(i)
    PROVE  /\ inbox' \in [Instances -> Seq(Messages)] /\ Head(inbox[i]) \in Messages
           /\ inbox'[i] = Tail(inbox[i])
           /\ \A j \in Instances \ {i} : inbox'[j] = inbox[j]
  <1>1. inbox[i] \in Seq(Messages)
    OBVIOUS
  <1>2. Tail(inbox[i]) \in Seq(Messages) /\ Head(inbox[i]) \in Messages
    BY <1>1
  <1> QED
    BY <1>2 DEF Took

LEMMA AskingTypes ==
    ASSUME tab \in [Tabs -> TabStates], NEW i, NEW m \in Moves
    PROVE  Asking(i, m) \in [Tabs -> TabStates]
  <1>1. ASSUME NEW t \in Tabs
        PROVE  [tab[t] EXCEPT !.asked = @ \cup {m}] \in TabStates
    <2>1. tab[t] \in TabStates
      OBVIOUS
    <2> QED
      BY <2>1 DEF TabStates
  <1> QED
    BY <1>1 DEF Asking

LEMMA AnsweredTypes ==
    ASSUME answers \in [Moves -> SUBSET BOOLEAN], NEW i, NEW m \in Moves, NEW ok \in BOOLEAN
    PROVE  Answered(i, m, ok) \in [Moves -> SUBSET BOOLEAN]
  BY DEF Answered

LEMMA SpendTypes ==
    ASSUME spent \in [Budgets -> Nat], NEW b \in Budgets, Spend(b)
    PROVE  spent' \in [Budgets -> Nat]
  BY DEF Spend

LEMMA JobTypes ==
    ASSUME job \in [Tabs -> {None} \cup Jobs], NEW t \in Tabs, job[t] # None
    PROVE  /\ job[t] \in Jobs /\ job[t].move \in Moves /\ job[t].ok \in BOOLEAN
           /\ [job EXCEPT ![t] = None] \in [Tabs -> {None} \cup Jobs]
           /\ \A s \in {"finish", "verify", "cleanup", "audit", "report"} :
                 Goes(t, s) => /\ job' \in [Tabs -> {None} \cup Jobs]
                               /\ job'[t].move = job[t].move /\ job'[t].step = s
                               /\ \A u \in Tabs \ {t} : job'[u] = job[u]
           /\ Fails(t) => /\ job' \in [Tabs -> {None} \cup Jobs]
                          /\ job'[t].move = job[t].move /\ job'[t].step = "report"
                          /\ \A u \in Tabs \ {t} : job'[u] = job[u]
  <1>1. job[t] \in Jobs
    OBVIOUS
  <1>2. job[t].move \in Moves /\ job[t].ok \in BOOLEAN
    BY <1>1 DEF Jobs
  <1>3. ASSUME NEW s \in {"finish", "verify", "cleanup", "audit", "report"}, Goes(t, s)
        PROVE  /\ job' \in [Tabs -> {None} \cup Jobs]
               /\ job'[t].move = job[t].move /\ job'[t].step = s
               /\ \A u \in Tabs \ {t} : job'[u] = job[u]
    <2> DEFINE r == [job[t] EXCEPT !.step = s]
    <2>1. r \in Jobs /\ r.move = job[t].move /\ r.step = s
      BY <1>1 DEF Jobs
    <2>2. job' = [job EXCEPT ![t] = r]
      BY <1>3 DEF Goes
    <2> HIDE DEF r
    <2> QED
      BY <2>1, <2>2
  <1>4. ASSUME Fails(t)
        PROVE  /\ job' \in [Tabs -> {None} \cup Jobs]
               /\ job'[t].move = job[t].move /\ job'[t].step = "report"
               /\ \A u \in Tabs \ {t} : job'[u] = job[u]
    <2> DEFINE r == [[job[t] EXCEPT !.step = "report"] EXCEPT !.ok = FALSE]
    <2>1. r \in Jobs /\ r.move = job[t].move /\ r.step = "report"
      BY <1>1 DEF Jobs
    <2>2. job' = [job EXCEPT ![t] = r]
      BY <1>4 DEF Fails
    <2> HIDE DEF r
    <2> QED
      BY <2>1, <2>2
  <1> QED
    BY <1>1, <1>2, <1>3, <1>4

LEMMA GoToTypes ==
    ASSUME TypeOK, NEW t \in Tabs, NEW ch \in {None} \cup Channels, NEW moves \in SUBSET Moves,
           GoTo(t, ch, moves)
    PROVE  /\ tab' \in [Tabs -> TabStates] /\ room' \subseteq Channels
           /\ voice' \in [Instances -> {None} \cup Channels]
           /\ inbox' \in [Instances -> Seq(Messages)]
           /\ TabAt[t] \in Instances
           /\ inbox' = Published(TabAt[t], <<Voice(ch)>>)
  <1>1. TabAt[t] \in Instances
    BY MovesAssumption
  <1>2. tab' \in [Tabs -> TabStates]
    <2>1. ASSUME NEW s \in Tabs
          PROVE  /\ [tab[s] EXCEPT !.joined = ch, !.asked = @ \ moves,
                                   !.switched = @ \cup moves] \in TabStates
                 /\ [tab[s] EXCEPT !.joined = None] \in TabStates
      <3>1. tab[s] \in TabStates
        BY DEF TypeOK
      <3> QED
        BY <3>1 DEF TabStates
    <2> QED
      BY <2>1 DEF GoTo
  <1>3. <<Voice(ch)>> \in Seq(Messages)
    BY DEF Voice, Messages
  <1>4. inbox' = Published(TabAt[t], <<Voice(ch)>>)
    BY DEF GoTo
  <1>5. inbox' \in [Instances -> Seq(Messages)]
    BY <1>1, <1>3, <1>4, PublishedTypes DEF TypeOK
  <1>6. room' \subseteq Channels /\ voice' \in [Instances -> {None} \cup Channels]
    BY <1>1 DEF GoTo, TypeOK
  <1> QED
    BY <1>1, <1>2, <1>4, <1>5, <1>6

LEMMA TypeInit == Init => TypeOK
  <1> SUFFICES ASSUME Init PROVE TypeOK
    OBVIOUS
  <1>1. tab \in [Tabs -> TabStates]
    BY DEF Init, TabStates
  <1>2. inbox \in [Instances -> Seq(Messages)]
    BY DEF Init
  <1>3. request \in [Moves -> Requests]
    BY DEF Init, Requests
  <1> QED
    BY <1>1, <1>2, <1>3 DEF Init, TypeOK

LEMMA TypeStep == TypeOK /\ [Next]_vars => TypeOK'
  <1> SUFFICES ASSUME TypeOK, [Next]_vars PROVE TypeOK'
    OBVIOUS
  <1>1. /\ pending \in [Instances -> {None} \cup Moves]
        /\ voice \in [Instances -> {None} \cup Channels]
        /\ room \subseteq Channels
        /\ request \in [Moves -> Requests]
        /\ source \in [Moves -> {None} \cup Channels]
        /\ tab \in [Tabs -> TabStates]
        /\ job \in [Tabs -> {None} \cup Jobs]
        /\ inbox \in [Instances -> Seq(Messages)]
        /\ audited \subseteq Moves
        /\ answers \in [Moves -> SUBSET BOOLEAN]
        /\ cut \subseteq Moves
        /\ spent \in [Budgets -> Nat]
    BY DEF TypeOK
  <1> USE <1>1
  <1>2. \A m \in Moves : ActorAt[m] \in Instances /\ Destination[m] \in Channels
    BY MovesAssumption
  <1>3. \A t \in Tabs : TabAt[t] \in Instances
    BY MovesAssumption
  <1>4. CASE UNCHANGED vars
    BY <1>4 DEF vars, TypeOK
  <1>21. \A m \in Moves : \A s \in Requests :
            [request EXCEPT ![m] = s] \in [Moves -> Requests]
    OBVIOUS
  <1>22. \A m \in Moves : \A ok \in BOOLEAN :
            [answers EXCEPT ![m] = @ \cup {ok}] \in [Moves -> SUBSET BOOLEAN]
    OBVIOUS
  <1>23. {"none", "checked", "inserted", "announced", "waiting", "expired", "over",
          "aborted"} \subseteq Requests
    BY DEF Requests
  <1>5. ASSUME NEW m \in Moves, Ask(m) PROVE TypeOK'
    <2>1. request' \in [Moves -> Requests]
      BY <1>5, <1>21, <1>23 DEF Ask
    <2>2. answers' \in [Moves -> SUBSET BOOLEAN]
      BY <1>5, <1>22 DEF Ask
    <2>3. source' \in [Moves -> {None} \cup Channels]
      BY <1>2, <1>5 DEF Ask
    <2> QED
      BY <1>5, <2>1, <2>2, <2>3 DEF Ask, TypeOK
  <1>6. ASSUME NEW m \in Moves, Accept(m) \/ Refuse(m) \/ Timeout(m) PROVE TypeOK'
    <2>1. request' \in [Moves -> Requests]
      <3>1. CASE Accept(m)
        BY <3>1, <1>21, <1>23 DEF Accept
      <3>2. CASE Refuse(m)
        BY <3>2, <1>21, <1>23 DEF Refuse
      <3>3. CASE Timeout(m)
        BY <3>3, <1>21, <1>23 DEF Timeout
      <3> QED
        BY <1>6, <3>1, <3>2, <3>3
    <2>2. answers' \in [Moves -> SUBSET BOOLEAN]
      <3>1. answers' = answers \/ answers' = [answers EXCEPT ![m] = @ \cup {FALSE}]
        BY <1>6 DEF Accept, Refuse, Timeout
      <3>2. [answers EXCEPT ![m] = @ \cup {FALSE}] \in [Moves -> SUBSET BOOLEAN]
        OBVIOUS
      <3> QED
        BY <3>1, <3>2
    <2>3. pending' \in [Instances -> {None} \cup Moves]
      BY <1>2, <1>6 DEF Accept, Refuse, Timeout
    <2> QED
      BY <1>6, <2>1, <2>2, <2>3 DEF Accept, Refuse, Timeout, TypeOK
  <1>7. ASSUME NEW m \in Moves, Announce(m) PROVE TypeOK'
    <2>1. <<Started(m)>> \in Seq(Messages)
      BY FALSE \in BOOLEAN, MessageTypes
    <2>2. inbox' \in [Instances -> Seq(Messages)]
      BY <1>2, <1>7, <2>1, PublishedTypes DEF Announce
    <2>9. request' \in [Moves -> Requests]
      BY <1>7, <1>21, <1>23 DEF Announce
    <2> QED
      BY <1>7, <2>2, <2>9 DEF Announce, TypeOK
  <1>8. ASSUME NEW m \in Moves, AskMember(m) PROVE TypeOK'
    <2>1. <<Requested(m)>> \in Seq(Messages)
      BY FALSE \in BOOLEAN, MessageTypes
    <2>2. inbox' \in [Instances -> Seq(Messages)] /\ tab' \in [Tabs -> TabStates]
      BY <1>2, <1>8, <2>1, PublishedTypes, AskingTypes DEF AskMember
    <2>9. request' \in [Moves -> Requests]
      BY <1>8, <1>21, <1>23 DEF AskMember
    <2> QED
      BY <1>8, <2>2, <2>9 DEF AskMember, TypeOK
  <1>9. ASSUME NEW m \in Moves, ReportTimeout(m) PROVE TypeOK'
    <2>2. ExpiryMessages(m) \in Seq(Messages)
      BY FALSE \in BOOLEAN, MessageTypes DEF ExpiryMessages
    <2>3. inbox' \in [Instances -> Seq(Messages)] /\ answers' \in [Moves -> SUBSET BOOLEAN]
      BY <1>2, <1>9, <2>2, PublishedTypes, AnsweredTypes DEF ReportTimeout
    <2>9. request' \in [Moves -> Requests]
      BY <1>9, <1>21, <1>23 DEF ReportTimeout
    <2> QED
      BY <1>9, <2>3, <2>9 DEF ReportTimeout, TypeOK
  <1>10. ASSUME NEW m \in Moves, CloseActor(m) PROVE TypeOK'
    <2>1. spent' \in [Budgets -> Nat]
      BY <1>10, SpendTypes DEF CloseActor, Budgets
    <2>9. request' \in [Moves -> Requests]
      BY <1>10, <1>21, <1>23 DEF CloseActor
    <2> QED
      BY <1>10, <2>1, <2>9 DEF CloseActor, TypeOK
  <1>11. ASSUME NEW t \in Tabs, NEW ch \in {None} \cup Channels, JoinOrLeave(t, ch) PROVE TypeOK'
    <2>1. spent' \in [Budgets -> Nat]
      BY <1>11, SpendTypes DEF JoinOrLeave, Budgets
    <2>2. GoTo(t, ch, {}) /\ {} \in SUBSET Moves
      BY <1>11 DEF JoinOrLeave
    <2>3. /\ tab' \in [Tabs -> TabStates] /\ room' \subseteq Channels
          /\ voice' \in [Instances -> {None} \cup Channels]
          /\ inbox' \in [Instances -> Seq(Messages)]
      BY <2>2, GoToTypes
    <2> QED
      BY <1>11, <2>1, <2>3 DEF JoinOrLeave, TypeOK
  <1>12. ASSUME NEW t \in Tabs, NEW m \in Moves, Switch(t, m) PROVE TypeOK'
    <2>1. GoTo(t, Destination[m], {m}) /\ {m} \in SUBSET Moves
          /\ Destination[m] \in {None} \cup Channels
      BY <1>2, <1>12 DEF Switch
    <2>2. /\ tab' \in [Tabs -> TabStates] /\ room' \subseteq Channels
          /\ voice' \in [Instances -> {None} \cup Channels]
          /\ inbox' \in [Instances -> Seq(Messages)]
      BY <2>1, GoToTypes
    <2> QED
      BY <1>12, <2>2 DEF Switch, TypeOK
  <1>13. ASSUME NEW t \in Tabs, CloseTab(t) PROVE TypeOK'
    <2>1. spent' \in [Budgets -> Nat]
      BY <1>13, SpendTypes DEF CloseTab, Budgets
    <2>2. tab' \in [Tabs -> TabStates]
      <3> DEFINE r == [[[tab[t] EXCEPT !.open = FALSE] EXCEPT !.asked = {}] EXCEPT !.switched = {}]
      <3>1. tab[t] \in TabStates
        OBVIOUS
      <3>2. r \in TabStates
        BY <3>1 DEF TabStates
      <3>3. tab' = [tab EXCEPT ![t] = r]
        BY <1>13 DEF CloseTab
      <3> HIDE DEF r
      <3> QED
        BY <3>2, <3>3
    <2>3. job' \in [Tabs -> {None} \cup Jobs] /\ cut' \subseteq Moves
      BY <1>13, JobTypes DEF CloseTab
    <2>4. /\ voice' \in [Instances -> {None} \cup Channels]
          /\ inbox' \in [Instances -> Seq(Messages)]
      <3>1. CASE tab[t].joined = None
        BY <1>13, <3>1 DEF CloseTab
      <3>2. CASE tab[t].joined # None
        <4>1. <<Voice(None)>> \in Seq(Messages)
          BY DEF Voice, Messages
        <4>2. inbox' = Published(TabAt[t], <<Voice(None)>>)
              /\ voice' = [voice EXCEPT ![TabAt[t]] = None]
          BY <1>13, <3>2 DEF CloseTab
        <4> QED
          BY <1>3, <4>1, <4>2, PublishedTypes
      <3> QED
        BY <3>1, <3>2
    <2> QED
      BY <1>13, <2>1, <2>2, <2>3, <2>4 DEF CloseTab, TypeOK
  <1>14. ASSUME NEW t \in Tabs, ConnectTab(t) PROVE TypeOK'
    <2>1. spent' \in [Budgets -> Nat]
      BY <1>14, SpendTypes DEF ConnectTab, Budgets
    <2>2. tab' \in [Tabs -> TabStates]
      <3> DEFINE r == [[tab[t] EXCEPT !.open = TRUE] EXCEPT !.asked = Replayed(TabAt[t])]
      <3>1. tab[t] \in TabStates /\ Replayed(TabAt[t]) \subseteq Moves
        BY <1>3 DEF Replayed
      <3>2. r \in TabStates
        BY <3>1 DEF TabStates
      <3>3. tab' = [tab EXCEPT ![t] = r]
        BY <1>14 DEF ConnectTab
      <3> HIDE DEF r
      <3> QED
        BY <3>2, <3>3
    <2> QED
      BY <1>14, <2>1, <2>2 DEF ConnectTab, TypeOK
  <1>15. ASSUME NEW t \in Tabs, NEW m \in Moves, Acknowledge(t, m) PROVE TypeOK'
    <2>1. tab' \in [Tabs -> TabStates]
      <3> DEFINE r == [[tab[t] EXCEPT !.asked = @ \ {m}] EXCEPT !.switched = @ \ {m}]
      <3>1. tab[t] \in TabStates
        OBVIOUS
      <3>2. r \in TabStates
        BY <3>1 DEF TabStates
      <3>3. tab' = [tab EXCEPT ![t] = r]
        BY <1>15 DEF Acknowledge
      <3> HIDE DEF r
      <3> QED
        BY <3>2, <3>3
    <2>2. [move |-> m, step |-> "finish", ok |-> tab[t].joined = Destination[m]] \in Jobs
      BY DEF Jobs
    <2>3. job' \in [Tabs -> {None} \cup Jobs]
      <3> DEFINE j == [move |-> m, step |-> "finish", ok |-> tab[t].joined = Destination[m]]
      <3>1. job' \in {job, [job EXCEPT ![t] = j]}
        BY <1>15 DEF Acknowledge
      <3> HIDE DEF j
      <3> QED
        BY <1>3, <2>2, <3>1 DEF j
    <2>4. pending' \in [Instances -> {None} \cup Moves]
      <3>1. pending' = pending \/ pending' = [pending EXCEPT ![TabAt[t]] = None]
        BY <1>15 DEF Acknowledge
      <3> QED
        BY <1>3, <3>1
    <2> QED
      BY <1>15, <2>1, <2>3, <2>4 DEF Acknowledge, TypeOK
  <1>16. ASSUME NEW t \in Tabs, Finish(t) PROVE TypeOK'
    <2>1. job[t] # None
      BY <1>16 DEF Finish, Step
    <2>2. job[t].move \in Moves /\ job' \in [Tabs -> {None} \cup Jobs]
      BY <1>16, <2>1, JobTypes DEF Finish
    <2>3. FinishMessages(t) \in Seq(Messages)
      BY <2>2, FALSE \in BOOLEAN, MessageTypes DEF FinishMessages
    <2>4. inbox' \in [Instances -> Seq(Messages)]
      BY <1>3, <1>16, <2>3, PublishedTypes DEF Finish
    <2> QED
      BY <1>16, <2>2, <2>4 DEF Finish, TypeOK
  <1>17. ASSUME NEW t \in Tabs, Verify(t) \/ Cleanup(t) \/ Audit(t) \/ GiveUp(t) PROVE TypeOK'
    <2>1. job[t] # None
      BY <1>17 DEF Verify, Cleanup, Audit, GiveUp, Step
    <2>2. job[t].move \in Moves /\ job' \in [Tabs -> {None} \cup Jobs]
      BY <1>17, <2>1, JobTypes DEF Verify, Cleanup, Audit, GiveUp
    <2> QED
      BY <1>17, <2>2 DEF Verify, Cleanup, Audit, GiveUp, TypeOK
  <1>18. ASSUME NEW t \in Tabs, Report(t) PROVE TypeOK'
    <2>1. job[t] # None
      BY <1>18 DEF Report, Step
    <2>2. job[t].move \in Moves /\ job[t].ok \in BOOLEAN /\ job' \in [Tabs -> {None} \cup Jobs]
      BY <1>18, <2>1, JobTypes DEF Report
    <2>3. <<Result(job[t].move, job[t].ok)>> \in Seq(Messages)
      BY <2>2, MessageTypes
    <2>4. inbox' \in [Instances -> Seq(Messages)] /\ answers' \in [Moves -> SUBSET BOOLEAN]
      BY <1>3, <1>18, <2>2, <2>3, PublishedTypes, AnsweredTypes DEF Report
    <2> QED
      BY <1>18, <2>2, <2>4 DEF Report, TypeOK
  <1>19. ASSUME NEW i \in Instances, Apply(i) PROVE TypeOK'
    <2>1. inbox[i] # <<>> /\ Took(i)
      BY <1>19 DEF Apply, ApplyStarted, ApplyFinished, ApplyRequested, ApplyResult, ApplyVoice,
         Arrived
    <2>2. inbox' \in [Instances -> Seq(Messages)] /\ Head(inbox[i]) \in Messages
      BY <2>1, TookTypes
    <2>3. CASE ApplyStarted(i) \/ ApplyFinished(i)
      <3>1. Head(inbox[i]).move \in Moves
        BY <2>2, <2>3 DEF ApplyStarted, ApplyFinished, Arrived, Messages
      <3> QED
        BY <2>2, <2>3, <3>1 DEF ApplyStarted, ApplyFinished, Message, TypeOK
    <2>4. CASE ApplyRequested(i)
      <3>1. Head(inbox[i]).move \in Moves
        BY <2>2, <2>4 DEF ApplyRequested, Arrived, Messages
      <3>2. tab' \in [Tabs -> TabStates]
        BY <2>4, <3>1, AskingTypes DEF ApplyRequested, Message
      <3> QED
        BY <2>2, <2>4, <3>2 DEF ApplyRequested, TypeOK
    <2>5. CASE ApplyResult(i)
      <3>1. Head(inbox[i]).move \in Moves /\ Head(inbox[i]).ok \in BOOLEAN
        BY <2>2, <2>5 DEF ApplyResult, Arrived, Messages
      <3>2. answers' \in [Moves -> SUBSET BOOLEAN]
        BY <2>5, <3>1, AnsweredTypes DEF ApplyResult, Message
      <3> QED
        BY <2>2, <2>5, <3>2 DEF ApplyResult, TypeOK
    <2>6. CASE ApplyVoice(i)
      <3>1. Head(inbox[i]).channel \in {None} \cup Channels
        BY <2>2, <2>6 DEF ApplyVoice, Arrived, Messages
      <3> QED
        BY <2>2, <2>6, <3>1 DEF ApplyVoice, Message, TypeOK
    <2> QED
      BY <1>19, <2>3, <2>4, <2>5, <2>6 DEF Apply
  <1> QED
    BY <1>4, <1>5, <1>6, <1>7, <1>8, <1>9, <1>10, <1>11, <1>12, <1>13, <1>14, <1>15, <1>16,
       <1>17, <1>18, <1>19 DEF Next, Handle, Complete

\* Every instance's entry, session and inbox, the requests, the clients and
\* their completions keep their types, wherever moderators and tabs are.
THEOREM TypeCorrect == Spec => []TypeOK
  BY TypeInit, TypeStep, PTL DEF Spec

-----------------------------------------------------------------------------
(* What an inbox q says of a request *)

Says(e, kind, m) == e.kind = kind /\ e.move = m

Has(q, kind, m) == \E k \in 1 .. Len(q) : Says(q[k], kind, m)

\* After q, the entry of m is gone, if there was one before or q puts one there.
Clears(q, m) ==
    \E k \in 1 .. Len(q) :
        /\ Says(q[k], "finished", m)
        /\ \A j \in 1 .. Len(q) : Says(q[j], "started", m) => j < k

StartsOnce(q, m) ==
    \A j, k \in 1 .. Len(q) :
        Says(q[j], "started", m) /\ Says(q[k], "started", m) => j = k

\* No result of m comes before m is finished.
Ordered(q, m) ==
    \A k \in 1 .. Len(q) :
        Says(q[k], "result", m)
            => \E j \in 1 .. Len(q) : j < k /\ Says(q[j], "finished", m)

-----------------------------------------------------------------------------
(* The inductive invariant, with the moderators on home *)

Early == {"none", "checked", "inserted"}
Kinds == {"started", "finished", "result"}

Works(t, m) == job[t] # None /\ job[t].move = m
Told(t, m) == Works(t, m) /\ job[t].step # "finish"

\* Until a request is announced, only home knows of it.
Fresh(home) ==
    \A m \in Moves : request[m] \in Early =>
        /\ answers[m] = {}
        /\ \A i \in Instances, kind \in Kinds : ~Has(inbox[i], kind, m)
        /\ \A t \in Tabs : ~Works(t, m)
        /\ \A i \in Instances \ {home} : pending[i] # m

\* While home has the entry, the moderator got no result and gets none before
\* home hears that the request is finished.
AtHome(home) ==
    \A m \in Moves : pending[home] = m =>
        /\ request[m] \in {"inserted", "announced", "waiting", "aborted"}
        /\ answers[m] = {}
        /\ Ordered(inbox[home], m)
        /\ \A t \in Tabs : Told(t, m) => Has(inbox[home], "finished", m)

\* Nobody starts a request at home.
NotStarted(home) == \A m \in Moves : ~Has(inbox[home], "started", m)

\* An instance starts a request once.
Single(home) ==
    \A i \in Instances \ {home}, m \in Moves :
        /\ StartsOnce(inbox[i], m)
        /\ pending[i] = m => ~Has(inbox[i], "started", m)

\* Where a completion runs, the entry is gone for good.
Mine ==
    \A t \in Tabs, m \in Moves : Works(t, m) =>
        /\ pending[TabAt[t]] # m
        /\ ~Has(inbox[TabAt[t]], "started", m)

\* Once a result exists or is about to, the entries elsewhere are cleared.
Cleared(home) ==
    \A i \in Instances \ {home}, m \in Moves :
        /\ \/ answers[m] # {}
           \/ Has(inbox[home], "result", m)
           \/ \E t \in Tabs : Told(t, m)
        /\ pending[i] = m \/ Has(inbox[i], "started", m)
        => Clears(inbox[i], m)

IInv(home) ==
    /\ Fresh(home) /\ AtHome(home) /\ NotStarted(home) /\ Single(home) /\ Mine
    /\ Cleared(home)

-----------------------------------------------------------------------------
(* Publishing a message to an inbox, and taking one from it *)

LEMMA AppendElements ==
    ASSUME NEW S, NEW q \in Seq(S), NEW e \in S
    PROVE  /\ q \o <<e>> \in Seq(S)
           /\ Len(q) \in Nat
           /\ Len(q \o <<e>>) = Len(q) + 1
           /\ \A k \in 1 .. Len(q) : (q \o <<e>>)[k] = q[k]
           /\ (q \o <<e>>)[Len(q) + 1] = e
  OBVIOUS

LEMMA TailElements ==
    ASSUME NEW S, NEW q \in Seq(S), q # <<>>
    PROVE  /\ Tail(q) \in Seq(S)
           /\ Len(Tail(q)) \in Nat
           /\ Len(q) = Len(Tail(q)) + 1
           /\ \A k \in 1 .. Len(Tail(q)) : q[k + 1] = Tail(q)[k]
           /\ q[1] = Head(q)
  OBVIOUS

LEMMA TwoInTurn ==
    ASSUME NEW S, NEW q \in Seq(S), NEW f \in S, NEW r \in S
    PROVE  q \o <<f>> \in Seq(S) /\ q \o <<f, r>> = (q \o <<f>>) \o <<r>>
  <1> DEFINE a == q \o <<f, r>>
             b == (q \o <<f>>) \o <<r>>
             c == q \o <<f>>
             n == Len(q)
  <1>1. /\ c \in Seq(S) /\ Len(c) = n + 1 /\ c[n + 1] = f
        /\ \A k \in 1 .. n : c[k] = q[k]
    OBVIOUS
  <1>2. a \in Seq(S) /\ b \in Seq(S) /\ n \in Nat
    OBVIOUS
  <1>3. Len(a) = n + 2 /\ Len(b) = n + 2
    OBVIOUS
  <1>4. \A k \in 1 .. n : a[k] = q[k] /\ b[k] = q[k]
    OBVIOUS
  <1>5. a[n + 1] = f /\ a[n + 2] = r
    OBVIOUS
  <1>6. b[n + 1] = f /\ b[n + 2] = r
    <2> HIDE DEF c
    <2>1. b = c \o <<r>>
      BY DEF c
    <2> QED
      BY <1>1, <2>1
  <1> HIDE DEF a, b, n
  <1>7. \A k \in 1 .. Len(a) : k \in 1 .. n \/ k = n + 1 \/ k = n + 2
    BY <1>2, <1>3
  <1>8. \A k \in 1 .. Len(a) : a[k] = b[k]
    BY <1>4, <1>5, <1>6, <1>7
  <1>9. a = b
    BY <1>2, <1>3, <1>8, SeqEqual
  <1> QED
    BY <1>1, <1>9 DEF a, b

LEMMA Appended ==
    ASSUME NEW S, NEW q \in Seq(S), NEW e \in S, NEW m
    PROVE  /\ \A kind : Has(q \o <<e>>, kind, m) <=> (Has(q, kind, m) \/ Says(e, kind, m))
           /\ Clears(q, m) /\ ~Says(e, "started", m) => Clears(q \o <<e>>, m)
           /\ Says(e, "finished", m) => Clears(q \o <<e>>, m)
           /\ StartsOnce(q, m) /\ (~Says(e, "started", m) \/ ~Has(q, "started", m))
              => StartsOnce(q \o <<e>>, m)
           /\ Ordered(q, m) /\ (~Says(e, "result", m) \/ Has(q, "finished", m))
              => Ordered(q \o <<e>>, m)
  <1> DEFINE p == q \o <<e>>
             n == Len(q)
  <1>1. /\ n \in Nat /\ Len(p) = n + 1
        /\ \A k \in 1 .. n : p[k] = q[k]
        /\ p[n + 1] = e
    BY AppendElements
  <1> HIDE DEF p
  <1>2. /\ 1 .. Len(p) = (1 .. n) \cup {n + 1}
        /\ \A k \in 1 .. n : k \in 1 .. Len(p) /\ k < n + 1
        /\ n + 1 \in 1 .. Len(p)
    BY <1>1
  <1>3. ASSUME NEW kind
        PROVE  Has(p, kind, m) <=> (Has(q, kind, m) \/ Says(e, kind, m))
    <2>1. ASSUME Has(p, kind, m) PROVE Has(q, kind, m) \/ Says(e, kind, m)
      <3>1. PICK k \in 1 .. Len(p) : Says(p[k], kind, m)
        BY <2>1 DEF Has
      <3> QED
        BY <3>1, <1>1, <1>2 DEF Has
    <2>2. ASSUME Has(q, kind, m) PROVE Has(p, kind, m)
      <3>1. PICK k \in 1 .. n : Says(q[k], kind, m)
        BY <2>2 DEF Has
      <3> QED
        BY <3>1, <1>1, <1>2 DEF Has
    <2>3. ASSUME Says(e, kind, m) PROVE Has(p, kind, m)
      BY <2>3, <1>1, <1>2 DEF Has
    <2> QED
      BY <2>1, <2>2, <2>3
  <1>4. ASSUME Clears(q, m), ~Says(e, "started", m) PROVE Clears(p, m)
    <2>1. PICK k \in 1 .. n :
             /\ Says(q[k], "finished", m)
             /\ \A j \in 1 .. n : Says(q[j], "started", m) => j < k
      BY <1>4 DEF Clears
    <2>2. k \in 1 .. Len(p) /\ Says(p[k], "finished", m)
      BY <2>1, <1>1, <1>2
    <2>3. ASSUME NEW j \in 1 .. Len(p), Says(p[j], "started", m) PROVE j < k
      <3>1. j # n + 1
        BY <2>3, <1>4, <1>1
      <3> QED
        BY <3>1, <2>1, <2>3, <1>1, <1>2
    <2> QED
      BY <2>2, <2>3 DEF Clears
  <1>5. ASSUME Says(e, "finished", m) PROVE Clears(p, m)
    <2>1. ~Says(e, "started", m)
      BY <1>5 DEF Says
    <2>2. ASSUME NEW j \in 1 .. Len(p), Says(p[j], "started", m) PROVE j < n + 1
      BY <2>1, <2>2, <1>1, <1>2
    <2> QED
      BY <2>2, <1>1, <1>2, <1>5 DEF Clears
  <1>6. ASSUME StartsOnce(q, m), ~Says(e, "started", m) \/ ~Has(q, "started", m)
        PROVE  StartsOnce(p, m)
    <2> SUFFICES ASSUME NEW j \in 1 .. Len(p), NEW k \in 1 .. Len(p),
                        Says(p[j], "started", m), Says(p[k], "started", m)
                 PROVE  j = k
      BY DEF StartsOnce
    <2>1. CASE j \in 1 .. n /\ k \in 1 .. n
      BY <2>1, <1>1, <1>6 DEF StartsOnce
    <2>2. CASE j = n + 1 /\ k \in 1 .. n
      BY <2>2, <1>1, <1>6 DEF Has
    <2>3. CASE j \in 1 .. n /\ k = n + 1
      BY <2>3, <1>1, <1>6 DEF Has
    <2> QED
      BY <2>1, <2>2, <2>3, <1>2
  <1>7. ASSUME Ordered(q, m), ~Says(e, "result", m) \/ Has(q, "finished", m)
        PROVE  Ordered(p, m)
    <2> SUFFICES ASSUME NEW k \in 1 .. Len(p), Says(p[k], "result", m)
                 PROVE  \E j \in 1 .. Len(p) : j < k /\ Says(p[j], "finished", m)
      BY DEF Ordered
    <2>1. CASE k \in 1 .. n
      <3>1. PICK j \in 1 .. n : j < k /\ Says(q[j], "finished", m)
        BY <2>1, <1>1, <1>7 DEF Ordered
      <3> QED
        BY <3>1, <1>1, <1>2
    <2>2. CASE k = n + 1
      <3>1. PICK j \in 1 .. n : Says(q[j], "finished", m)
        BY <2>2, <1>1, <1>7 DEF Has
      <3> QED
        BY <3>1, <2>2, <1>1, <1>2
    <2> QED
      BY <2>1, <2>2, <1>2
  <1> QED
    BY <1>3, <1>4, <1>5, <1>6, <1>7 DEF p

LEMMA Taken ==
    ASSUME NEW S, NEW q \in Seq(S), q # <<>>, NEW m
    PROVE  /\ \A kind : Has(q, kind, m) <=> (Says(Head(q), kind, m) \/ Has(Tail(q), kind, m))
           /\ Clears(q, m) /\ (Says(Head(q), "finished", m) => Has(Tail(q), "started", m))
              => Clears(Tail(q), m)
           /\ StartsOnce(q, m) => /\ StartsOnce(Tail(q), m)
                                  /\ Says(Head(q), "started", m) => ~Has(Tail(q), "started", m)
           /\ Ordered(q, m) => ~Says(Head(q), "result", m)
           /\ Ordered(q, m) /\ ~Says(Head(q), "finished", m) => Ordered(Tail(q), m)
  <1> DEFINE p == Tail(q)
             n == Len(p)
             h == Head(q)
  <1>1. /\ n \in Nat /\ Len(q) = n + 1
        /\ \A k \in 1 .. n : q[k + 1] = p[k]
        /\ q[1] = h
    BY TailElements
  <1> HIDE DEF p, h
  <1>2. /\ \A k \in 1 .. n : k + 1 \in 1 .. Len(q)
        /\ 1 \in 1 .. Len(q)
        /\ \A k \in 1 .. Len(q) : k # 1 => k - 1 \in 1 .. n /\ q[k] = p[k - 1]
    <2>1. ASSUME NEW k \in 1 .. Len(q), k # 1 PROVE k - 1 \in 1 .. n /\ q[k] = p[k - 1]
      <3>1. k - 1 \in 1 .. n /\ (k - 1) + 1 = k
        BY <2>1, <1>1
      <3> QED
        BY <3>1, <1>1
    <2> QED
      BY <2>1, <1>1
  <1>3. ASSUME NEW kind
        PROVE  Has(q, kind, m) <=> (Says(h, kind, m) \/ Has(p, kind, m))
    <2>1. ASSUME Has(q, kind, m) PROVE Says(h, kind, m) \/ Has(p, kind, m)
      <3>1. PICK k \in 1 .. Len(q) : Says(q[k], kind, m)
        BY <2>1 DEF Has
      <3> QED
        BY <3>1, <1>1, <1>2 DEF Has
    <2>2. ASSUME Says(h, kind, m) PROVE Has(q, kind, m)
      BY <2>2, <1>1, <1>2 DEF Has
    <2>3. ASSUME Has(p, kind, m) PROVE Has(q, kind, m)
      <3>1. PICK k \in 1 .. n : Says(p[k], kind, m)
        BY <2>3 DEF Has
      <3>2. k + 1 \in 1 .. Len(q) /\ Says(q[k + 1], kind, m)
        BY <3>1, <1>1, <1>2
      <3> QED
        BY <3>2 DEF Has
    <2> QED
      BY <2>1, <2>2, <2>3
  <1>4. ASSUME Clears(q, m), Says(h, "finished", m) => Has(p, "started", m)
        PROVE  Clears(p, m)
    <2>1. PICK k \in 1 .. Len(q) :
             /\ Says(q[k], "finished", m)
             /\ \A j \in 1 .. Len(q) : Says(q[j], "started", m) => j < k
      BY <1>4 DEF Clears
    <2>2. k # 1
      <3> SUFFICES ASSUME k = 1 PROVE FALSE
        OBVIOUS
      <3>1. PICK j \in 1 .. n : Says(p[j], "started", m)
        BY <2>1, <1>1, <1>4 DEF Has
      <3>2. j + 1 \in 1 .. Len(q) /\ Says(q[j + 1], "started", m)
        BY <3>1, <1>1, <1>2
      <3> QED
        BY <3>2, <2>1, <1>1
    <2>3. k - 1 \in 1 .. n /\ Says(p[k - 1], "finished", m)
      BY <2>1, <2>2, <1>2
    <2>4. ASSUME NEW j \in 1 .. n, Says(p[j], "started", m) PROVE j < k - 1
      <3>1. j + 1 \in 1 .. Len(q) /\ Says(q[j + 1], "started", m)
        BY <2>4, <1>1, <1>2
      <3>2. j + 1 < k
        BY <3>1, <2>1
      <3> QED
        BY <3>2, <1>1
    <2> QED
      BY <2>3, <2>4 DEF Clears
  <1>5. ASSUME StartsOnce(q, m)
        PROVE  /\ StartsOnce(p, m)
               /\ Says(h, "started", m) => ~Has(p, "started", m)
    <2>1. ASSUME NEW j \in 1 .. n, NEW k \in 1 .. n,
                 Says(p[j], "started", m), Says(p[k], "started", m)
          PROVE  j = k
      <3>1. /\ j + 1 \in 1 .. Len(q) /\ Says(q[j + 1], "started", m)
            /\ k + 1 \in 1 .. Len(q) /\ Says(q[k + 1], "started", m)
        BY <2>1, <1>1, <1>2
      <3>2. j + 1 = k + 1
        BY <3>1, <1>5 DEF StartsOnce
      <3> QED
        BY <3>2
    <2>2. ASSUME Says(h, "started", m), NEW j \in 1 .. n, Says(p[j], "started", m)
          PROVE  FALSE
      <3>1. /\ j + 1 \in 1 .. Len(q) /\ Says(q[j + 1], "started", m)
            /\ Says(q[1], "started", m)
        BY <2>2, <1>1, <1>2
      <3>2. j + 1 = 1
        BY <3>1, <1>2, <1>5 DEF StartsOnce
      <3> QED
        BY <3>2
    <2> QED
      BY <2>1, <2>2 DEF StartsOnce, Has
  <1>6. ASSUME Ordered(q, m) PROVE ~Says(h, "result", m)
    <2> SUFFICES ASSUME Says(h, "result", m) PROVE FALSE
      OBVIOUS
    <2>1. PICK j \in 1 .. Len(q) : j < 1
      BY <1>1, <1>2, <1>6 DEF Ordered
    <2> QED
      BY <2>1
  <1>7. ASSUME Ordered(q, m), ~Says(h, "finished", m) PROVE Ordered(p, m)
    <2> SUFFICES ASSUME NEW k \in 1 .. n, Says(p[k], "result", m)
                 PROVE  \E j \in 1 .. n : j < k /\ Says(p[j], "finished", m)
      BY DEF Ordered
    <2>1. k + 1 \in 1 .. Len(q) /\ Says(q[k + 1], "result", m)
      BY <1>1, <1>2
    <2>2. PICK j \in 1 .. Len(q) : j < k + 1 /\ Says(q[j], "finished", m)
      BY <2>1, <1>7 DEF Ordered
    <2>3. j # 1
      BY <2>2, <1>1, <1>7
    <2>4. j - 1 \in 1 .. n /\ Says(p[j - 1], "finished", m) /\ j - 1 < k
      BY <2>2, <2>3, <1>2
    <2> QED
      BY <2>4
  <1> QED
    BY <1>3, <1>4, <1>5, <1>6, <1>7 DEF p, h

LEMMA Unheard ==
    ASSUME NEW q, NEW m
    PROVE  /\ ~Has(q, "result", m) => Ordered(q, m)
           /\ Clears(q, m) => Has(q, "finished", m)
  BY DEF Has, Ordered, Clears

-----------------------------------------------------------------------------
(* What a step does to the inboxes *)

\* The moderators are on home, and no tab of the member is.
Apart(home) ==
    /\ home \in Instances
    /\ \A m \in Moves : ActorAt[m] = home
    /\ \A t \in Tabs : TabAt[t] # home

\* p is q with e at its end.
Grew(q, e, p) ==
    \A m :
        /\ \A kind : Has(p, kind, m) <=> (Has(q, kind, m) \/ Says(e, kind, m))
        /\ Clears(q, m) /\ ~Says(e, "started", m) => Clears(p, m)
        /\ Says(e, "finished", m) => Clears(p, m)
        /\ StartsOnce(q, m) /\ (~Says(e, "started", m) \/ ~Has(q, "started", m))
           => StartsOnce(p, m)
        /\ Ordered(q, m) /\ (~Says(e, "result", m) \/ Has(q, "finished", m)) => Ordered(p, m)

\* p is q without e, its first.
Shrank(q, e, p) ==
    \A m :
        /\ \A kind : Has(q, kind, m) <=> (Says(e, kind, m) \/ Has(p, kind, m))
        /\ Clears(q, m) /\ (Says(e, "finished", m) => Has(p, "started", m)) => Clears(p, m)
        /\ StartsOnce(q, m) => /\ StartsOnce(p, m)
                               /\ Says(e, "started", m) => ~Has(p, "started", m)
        /\ Ordered(q, m) => ~Says(e, "result", m)
        /\ Ordered(q, m) /\ ~Says(e, "finished", m) => Ordered(p, m)

\* p says of every request what q says.
Alike(q, p) ==
    \A m :
        /\ \A kind \in Kinds : Has(p, kind, m) <=> Has(q, kind, m)
        /\ Clears(q, m) => Clears(p, m)
        /\ StartsOnce(q, m) => StartsOnce(p, m)
        /\ Ordered(q, m) => Ordered(p, m)

LEMMA GrewAppended ==
    ASSUME NEW S, NEW q \in Seq(S), NEW e \in S
    PROVE  Grew(q, e, q \o <<e>>)
  BY Appended DEF Grew

LEMMA ShrankTaken ==
    ASSUME NEW S, NEW q \in Seq(S), q # <<>>
    PROVE  Shrank(q, Head(q), Tail(q))
  BY Taken DEF Shrank

LEMMA GrewAlike ==
    ASSUME NEW q, NEW e, NEW p, Grew(q, e, p), e.kind \notin Kinds
    PROVE  Alike(q, p)
  <1>1. \A kind \in Kinds : \A m : ~Says(e, kind, m)
    BY DEF Says
  <1>2. "started" \in Kinds /\ "result" \in Kinds
    BY DEF Kinds
  <1> QED
    BY <1>1, <1>2 DEF Grew, Alike

LEMMA ShrankAlike ==
    ASSUME NEW q, NEW e, NEW p, Shrank(q, e, p), e.kind \notin Kinds
    PROVE  Alike(q, p)
  <1>1. \A kind \in Kinds : \A m : ~Says(e, kind, m)
    BY DEF Says
  <1>2. "finished" \in Kinds
    BY DEF Kinds
  <1> QED
    BY <1>1, <1>2 DEF Shrank, Alike

LEMMA SameAlike == \A q : Alike(q, q)
  BY DEF Alike

LEMMA PublishedOne ==
    ASSUME TypeOK, NEW i \in Instances, NEW e, <<e>> \in Seq(Messages),
           inbox' = Published(i, <<e>>)
    PROVE  /\ inbox'[i] = inbox[i]
           /\ \A j \in Instances \ {i} : Grew(inbox[j], e, inbox'[j])
  <1>1. e \in Messages
    <2>1. <<e>>[1] \in Messages
      OBVIOUS
    <2> QED
      BY <2>1
  <1>2. \A j \in Instances : inbox[j] \in Seq(Messages)
    BY DEF TypeOK
  <1>3. \A j \in Instances \ {i} : inbox'[j] = inbox[j] \o <<e>>
    BY DEF Published
  <1>4. inbox'[i] = inbox[i]
    BY DEF Published
  <1> QED
    BY <1>1, <1>2, <1>3, <1>4, GrewAppended

LEMMA TookOne ==
    ASSUME TypeOK, NEW i \in Instances, inbox[i] # <<>>, Took(i)
    PROVE  /\ Shrank(inbox[i], Head(inbox[i]), inbox'[i])
           /\ \A j \in Instances \ {i} : inbox'[j] = inbox[j]
  <1>1. inbox \in [Instances -> Seq(Messages)]
    BY DEF TypeOK
  <1>2. inbox[i] \in Seq(Messages)
    BY <1>1
  <1> QED
    BY <1>1, <1>2, TookTypes, ShrankTaken

LEMMA WhatIsSaid ==
    ASSUME NEW m, NEW ok, NEW n, NEW kind
    PROVE  /\ Says(Started(m), kind, n) <=> (kind = "started" /\ m = n)
           /\ Says(Finished(m), kind, n) <=> (kind = "finished" /\ m = n)
           /\ Says(Result(m, ok), kind, n) <=> (kind = "result" /\ m = n)
  BY DEF Says, Started, Finished, Result

-----------------------------------------------------------------------------
(* Steps that tell nobody anything of a request *)

LEMMA QuietKeeps ==
    ASSUME NEW home, Apart(home), IInv(home),
           \A i \in Instances : Alike(inbox[i], inbox'[i]),
           answers' = answers,
           \A i \in Instances, m \in Moves : pending'[i] = m => pending[i] = m,
           \A m \in Moves : request'[m] \in Early => request[m] \in Early,
           \A m \in Moves : pending'[home] = m
               => request'[m] \in {"inserted", "announced", "waiting", "aborted"},
           \A t \in Tabs, m \in Moves : Works(t, m)' => Works(t, m),
           \A t \in Tabs, m \in Moves : Told(t, m)' => Told(t, m)
    PROVE  IInv(home)'
  <1>1. /\ home \in Instances
        /\ \A t \in Tabs : TabAt[t] \in Instances \ {home}
    BY MovesAssumption DEF Apart
  <1>2. Kinds = {"started", "finished", "result"}
    BY DEF Kinds
  <1>3. Fresh(home)'
    BY <1>1 DEF IInv, Fresh, Alike
  <1>4. AtHome(home)'
    BY <1>1, <1>2 DEF IInv, AtHome, Alike
  <1>5. NotStarted(home)'
    BY <1>1, <1>2 DEF IInv, NotStarted, Alike
  <1>6. Single(home)'
    BY <1>1, <1>2 DEF IInv, Single, Alike
  <1>7. Mine'
    BY <1>1, <1>2 DEF IInv, Mine, Alike
  <1>8. Cleared(home)'
    BY <1>1, <1>2 DEF IInv, Cleared, Alike
  <1> QED
    BY <1>3, <1>4, <1>5, <1>6, <1>7, <1>8 DEF IInv

LEMMA AlikeOfPublished ==
    ASSUME TypeOK, NEW i \in Instances, NEW e, <<e>> \in Seq(Messages),
           inbox' = Published(i, <<e>>), e.kind \notin Kinds
    PROVE  \A j \in Instances : Alike(inbox[j], inbox'[j])
  BY PublishedOne, GrewAlike, SameAlike

LEMMA VoiceTypes ==
    ASSUME NEW ch \in {None} \cup Channels
    PROVE  <<Voice(ch)>> \in Seq(Messages) /\ Voice(ch).kind \notin Kinds
  <1>1. Voice(ch) \in Messages
    BY DEF Voice, Messages
  <1> QED
    BY <1>1, OneIsList DEF Voice, Kinds

LEMMA RequestSteps ==
    ASSUME NEW home, Apart(home), TypeOK, IInv(home), NEW m \in Moves,
           \/ Ask(m) /\ answers' = answers
           \/ AskMember(m) \/ Timeout(m) \/ CloseActor(m)
    PROVE  IInv(home)'
  <1>1. /\ home \in Instances /\ ActorAt[m] = home
        /\ request \in [Moves -> Requests]
        /\ pending \in [Instances -> {None} \cup Moves]
        /\ None \notin Moves
    BY NoneAssumption DEF Apart, TypeOK
  <1>2. \A n \in Moves : pending[home] = n
            => request[n] \in {"inserted", "announced", "waiting", "aborted"}
    BY DEF IInv, AtHome
  <1>3. CASE Ask(m) /\ answers' = answers
    <2>1. request[m] = "none" /\ request'[m] \in {"checked", "over"}
          /\ \A n \in Moves \ {m} : request'[n] = request[n]
      BY <1>1, <1>3 DEF Ask
    <2>2. pending' = pending /\ job' = job /\ inbox' = inbox
      BY <1>3 DEF Ask
    <2>3. \A n \in Moves : request'[n] \in Early => request[n] \in Early
      BY <2>1 DEF Early
    <2> QED
      BY <1>2, <1>3, <2>1, <2>2, <2>3, SameAlike, QuietKeeps DEF Works, Told
  <1>4. CASE AskMember(m)
    <2>1. request[m] = "announced" /\ request'[m] = "waiting"
          /\ \A n \in Moves \ {m} : request'[n] = request[n]
      BY <1>1, <1>4 DEF AskMember
    <2>2. /\ pending' = pending /\ job' = job /\ answers' = answers
          /\ inbox' = Published(home, <<Requested(m)>>)
      BY <1>1, <1>4 DEF AskMember
    <2>3. \A n \in Moves : request'[n] \in Early => request[n] \in Early
      BY <2>1 DEF Early
    <2>4. <<Requested(m)>> \in Seq(Messages) /\ Requested(m).kind \notin Kinds
      BY FALSE \in BOOLEAN, MessageTypes DEF Requested, Kinds
    <2>5. \A i \in Instances : Alike(inbox[i], inbox'[i])
      BY <1>1, <2>2, <2>4, AlikeOfPublished
    <2> QED
      BY <1>2, <2>1, <2>2, <2>3, <2>5, QuietKeeps DEF Works, Told
  <1>5. CASE Timeout(m)
    <2>1. /\ request[m] = "waiting"
          /\ request'[m] \in {"expired", "over"}
          /\ \A n \in Moves \ {m} : request'[n] = request[n]
      BY <1>1, <1>5 DEF Timeout
    <2>2. /\ job' = job /\ answers' = answers /\ inbox' = inbox
          /\ \A i \in Instances : pending'[i] = pending[i] \/ pending'[i] = None
          /\ pending'[home] # m
      BY <1>1, <1>5 DEF Timeout
    <2>3. \A n \in Moves : request'[n] \in Early => request[n] \in Early
      BY <2>1 DEF Early
    <2>4. \A i \in Instances, n \in Moves : pending'[i] = n => pending[i] = n
      BY <1>1, <2>2
    <2>5. \A n \in Moves : pending'[home] = n
              => request'[n] \in {"inserted", "announced", "waiting", "aborted"}
      BY <1>1, <1>2, <2>1, <2>2, <2>4
    <2> QED
      BY <2>2, <2>3, <2>4, <2>5, SameAlike, QuietKeeps DEF Works, Told
  <1>6. CASE CloseActor(m)
    <2>1. /\ request'[m] = "aborted"
          /\ \A n \in Moves \ {m} : request'[n] = request[n]
      BY <1>1, <1>6 DEF CloseActor
    <2>2. pending' = pending /\ job' = job /\ inbox' = inbox /\ answers' = answers
      BY <1>6 DEF CloseActor
    <2>3. \A n \in Moves : request'[n] \in Early => request[n] \in Early
      BY <2>1 DEF Early
    <2> QED
      BY <1>2, <2>1, <2>2, <2>3, SameAlike, QuietKeeps DEF Works, Told
  <1> QED
    BY <1>3, <1>4, <1>5, <1>6

\* What leaves requests, entries and answers alone, and completions where they
\* are, or ended, or further on.
LEMMA OtherKeeps ==
    ASSUME NEW home, Apart(home), IInv(home),
           \A i \in Instances : Alike(inbox[i], inbox'[i]),
           UNCHANGED <<answers, pending, request>>,
           \A t \in Tabs, m \in Moves : Works(t, m)' => Works(t, m),
           \A t \in Tabs, m \in Moves : Told(t, m)' => Told(t, m)
    PROVE  IInv(home)'
  <1>1. /\ answers' = answers /\ pending' = pending /\ request' = request
        /\ home \in Instances
    BY DEF Apart
  <1>2. \A m \in Moves : pending[home] = m
            => request[m] \in {"inserted", "announced", "waiting", "aborted"}
    BY DEF IInv, AtHome
  <1> QED
    BY <1>1, <1>2, QuietKeeps

LEMMA ClientSteps ==
    ASSUME NEW home, Apart(home), TypeOK, IInv(home), NEW t \in Tabs,
           \/ \E ch \in {None} \cup Channels : JoinOrLeave(t, ch)
           \/ \E m \in Moves : Switch(t, m)
           \/ CloseTab(t) \/ ConnectTab(t)
    PROVE  IInv(home)'
  <1>1. TabAt[t] \in Instances /\ job \in [Tabs -> {None} \cup Jobs]
    BY MovesAssumption DEF TypeOK
  <1>2. UNCHANGED <<answers, pending, request>>
    BY DEF JoinOrLeave, Switch, CloseTab, ConnectTab, GoTo
  <1>3. ASSUME inbox' = inbox
        PROVE  \A i \in Instances : Alike(inbox[i], inbox'[i])
    BY <1>3, SameAlike
  <1>4. ASSUME NEW ch \in {None} \cup Channels, inbox' = Published(TabAt[t], <<Voice(ch)>>)
        PROVE  \A i \in Instances : Alike(inbox[i], inbox'[i])
    BY <1>1, <1>4, VoiceTypes, AlikeOfPublished
  <1>5. ASSUME NEW ch \in {None} \cup Channels, JoinOrLeave(t, ch) PROVE IInv(home)'
    <2>1. job' = job /\ inbox' = Published(TabAt[t], <<Voice(ch)>>)
      BY <1>5 DEF JoinOrLeave, GoTo
    <2> QED
      BY <1>2, <1>4, <2>1, OtherKeeps DEF Works, Told
  <1>6. ASSUME NEW m \in Moves, Switch(t, m) PROVE IInv(home)'
    <2>1. /\ job' = job /\ inbox' = Published(TabAt[t], <<Voice(Destination[m])>>)
          /\ Destination[m] \in {None} \cup Channels
      BY <1>6, MovesAssumption DEF Switch, GoTo
    <2> QED
      BY <1>2, <1>4, <2>1, OtherKeeps DEF Works, Told
  <1>7. CASE CloseTab(t)
    <2>1. job'[t] = None /\ \A u \in Tabs \ {t} : job'[u] = job[u]
      BY <1>1, <1>7 DEF CloseTab
    <2>2. inbox' = inbox \/ inbox' = Published(TabAt[t], <<Voice(None)>>)
      BY <1>7 DEF CloseTab
    <2>3. \A i \in Instances : Alike(inbox[i], inbox'[i])
      BY <1>3, <1>4, <2>2
    <2>4. \A u \in Tabs, m \in Moves : /\ Works(u, m)' => Works(u, m)
                                       /\ Told(u, m)' => Told(u, m)
      BY <2>1 DEF Works, Told
    <2> QED
      BY <1>2, <2>3, <2>4, OtherKeeps
  <1>8. CASE ConnectTab(t)
    <2>1. job' = job /\ inbox' = inbox
      BY <1>8 DEF ConnectTab
    <2> QED
      BY <1>2, <1>3, <2>1, OtherKeeps DEF Works, Told
  <1> QED
    BY <1>5, <1>6, <1>7, <1>8

LEMMA WorkSteps ==
    ASSUME NEW home, Apart(home), TypeOK, IInv(home), NEW t \in Tabs,
           Verify(t) \/ Cleanup(t) \/ Audit(t) \/ GiveUp(t)
    PROVE  IInv(home)'
  <1>1. UNCHANGED <<answers, pending, request>> /\ inbox' = inbox
    BY DEF Verify, Cleanup, Audit, GiveUp
  <1>2. job[t] # None /\ job[t].step # "finish"
    BY DEF Verify, Cleanup, Audit, GiveUp, Step
  <1>3. \/ \E s \in {"finish", "verify", "cleanup", "audit", "report"} : Goes(t, s)
        \/ Fails(t)
    BY DEF Verify, Cleanup, Audit, GiveUp
  <1>4. /\ job'[t].move = job[t].move
        /\ \A u \in Tabs \ {t} : job'[u] = job[u]
    BY <1>2, <1>3, JobTypes DEF TypeOK
  <1>5. \A u \in Tabs, m \in Moves : /\ Works(u, m)' => Works(u, m)
                                     /\ Told(u, m)' => Told(u, m)
    BY <1>2, <1>4 DEF Works, Told
  <1> QED
    BY <1>1, <1>5, SameAlike, OtherKeeps

LEMMA QuietMessages ==
    ASSUME NEW home, Apart(home), TypeOK, IInv(home), NEW i \in Instances,
           ApplyRequested(i) \/ ApplyVoice(i)
    PROVE  IInv(home)'
  <1>1. /\ UNCHANGED <<answers, pending, request>> /\ job' = job
        /\ inbox[i] # <<>> /\ Took(i)
    BY DEF ApplyRequested, ApplyVoice, Arrived
  <1>2. Head(inbox[i]).kind \notin Kinds
    BY DEF ApplyRequested, ApplyVoice, Arrived, Kinds
  <1>3. \A j \in Instances : Alike(inbox[j], inbox'[j])
    BY <1>1, <1>2, TookOne, ShrankAlike, SameAlike
  <1> QED
    BY <1>1, <1>3, OtherKeeps DEF Works, Told

-----------------------------------------------------------------------------
(* The request's steps that others hear of *)

LEMMA TurnDownKeeps ==
    ASSUME NEW home, Apart(home), TypeOK, IInv(home), NEW m \in Moves,
           request[m] \in {"none", "checked"},
           request' = [request EXCEPT ![m] = "over"],
           answers' = [answers EXCEPT ![m] = @ \cup {FALSE}],
           pending' = pending, job' = job, inbox' = inbox
    PROVE  IInv(home)'
  <1>1. /\ home \in Instances
        /\ request'[m] = "over" /\ \A n \in Moves \ {m} : request'[n] = request[n]
        /\ \A n \in Moves \ {m} : answers'[n] = answers[n]
    BY DEF Apart, TypeOK
  <1>2. request[m] \in Early /\ "over" \notin Early /\ "started" \in Kinds
    BY DEF Early, Kinds
  <1>3. \A i \in Instances \ {home} : pending[i] # m /\ ~Has(inbox[i], "started", m)
    BY <1>2 DEF IInv, Fresh
  <1>4. pending[home] # m
    BY DEF IInv, AtHome
  <1>5. Fresh(home)'
    <2> SUFFICES ASSUME NEW n \in Moves, request'[n] \in Early
                 PROVE  /\ answers'[n] = {}
                        /\ \A i \in Instances, kind \in Kinds : ~Has(inbox[i], kind, n)
                        /\ \A t \in Tabs : ~Works(t, n)
                        /\ \A i \in Instances \ {home} : pending[i] # n
      BY DEF Fresh, Works
    <2>1. n # m /\ request[n] \in Early /\ answers'[n] = answers[n]
      BY <1>1, <1>2
    <2> QED
      BY <2>1 DEF IInv, Fresh
  <1>6. AtHome(home)'
    BY <1>1, <1>4 DEF IInv, AtHome, Told, Works
  <1>7. NotStarted(home)' /\ Single(home)' /\ Mine'
    BY DEF IInv, NotStarted, Single, Mine, Works
  <1>8. Cleared(home)'
    BY <1>1, <1>3 DEF IInv, Cleared, Told, Works
  <1> QED
    BY <1>5, <1>6, <1>7, <1>8 DEF IInv

LEMMA TakesEntryKeeps ==
    ASSUME NEW home, Apart(home), TypeOK, IInv(home), NEW m \in Moves,
           request[m] = "checked",
           request' = [request EXCEPT ![m] = "inserted"],
           pending' = [pending EXCEPT ![home] = m],
           answers' = answers, job' = job, inbox' = inbox
    PROVE  IInv(home)'
  <1>1. /\ home \in Instances
        /\ request'[m] = "inserted" /\ \A n \in Moves \ {m} : request'[n] = request[n]
        /\ pending'[home] = m /\ \A i \in Instances \ {home} : pending'[i] = pending[i]
        /\ \A t \in Tabs : TabAt[t] \in Instances \ {home}
    BY MovesAssumption DEF Apart, TypeOK
  <1>2. "checked" \in Early /\ "inserted" \in Early /\ "result" \in Kinds
    BY DEF Early, Kinds
  <1>3. /\ answers[m] = {}
        /\ ~Has(inbox[home], "result", m)
        /\ \A t \in Tabs : ~Works(t, m)
    BY <1>1, <1>2 DEF IInv, Fresh
  <1>4. Ordered(inbox[home], m)
    BY <1>3, Unheard
  <1>5. Fresh(home)'
    BY <1>1, <1>2 DEF IInv, Fresh, Works
  <1>6. AtHome(home)'
    BY <1>1, <1>3, <1>4 DEF IInv, AtHome, Told, Works
  <1>7. NotStarted(home)'
    BY DEF IInv, NotStarted
  <1>8. Single(home)'
    BY <1>1 DEF IInv, Single
  <1>9. Mine'
    BY <1>1 DEF IInv, Mine, Works
  <1>10. Cleared(home)'
    BY <1>1 DEF IInv, Cleared, Told, Works
  <1> QED
    BY <1>5, <1>6, <1>7, <1>8, <1>9, <1>10 DEF IInv

LEMMA DecisionSteps ==
    ASSUME NEW home, Apart(home), TypeOK, IInv(home), NEW m \in Moves,
           Ask(m) \/ Accept(m) \/ Refuse(m)
    PROVE  IInv(home)'
  <1>1. ActorAt[m] = home
    BY DEF Apart
  <1>2. CASE Ask(m)
    <2>1. CASE answers' = answers
      BY <1>2, <2>1, RequestSteps
    <2>2. CASE answers' # answers
      BY <1>2, <2>2, TurnDownKeeps DEF Ask
    <2> QED
      BY <2>1, <2>2
  <1>3. CASE Accept(m)
    <2>1. CASE IsFree(home)
      BY <1>1, <1>3, <2>1, TakesEntryKeeps DEF Accept
    <2>2. CASE ~IsFree(home)
      BY <1>1, <1>3, <2>2, TurnDownKeeps DEF Accept
    <2> QED
      BY <2>1, <2>2
  <1>4. CASE Refuse(m)
    BY <1>4, TurnDownKeeps DEF Refuse
  <1> QED
    BY <1>2, <1>3, <1>4

\* No message of m is under way when the others are told to start it.
LEMMA AnnounceKeeps ==
    ASSUME NEW home, Apart(home), TypeOK, IInv(home), NEW m \in Moves, Announce(m)
    PROVE  IInv(home)'
  <1>1. /\ home \in Instances /\ ActorAt[m] = home
        /\ \A t \in Tabs : TabAt[t] \in Instances \ {home}
        /\ Kinds = {"started", "finished", "result"}
    BY MovesAssumption DEF Apart, Kinds
  <1>2. /\ request[m] = "inserted" /\ request'[m] = "announced"
        /\ \A n \in Moves \ {m} : request'[n] = request[n]
    BY DEF Announce, TypeOK
  <1>3. /\ pending' = pending /\ job' = job /\ answers' = answers
        /\ inbox' = Published(home, <<Started(m)>>)
    BY <1>1 DEF Announce
  <1>4. "inserted" \in Early /\ "announced" \notin Early
    BY DEF Early
  <1>5. /\ answers[m] = {}
        /\ \A i \in Instances, kind \in Kinds : ~Has(inbox[i], kind, m)
        /\ \A t \in Tabs : ~Works(t, m)
        /\ \A i \in Instances \ {home} : pending[i] # m
    BY <1>2, <1>4 DEF IInv, Fresh
  <1>6. <<Started(m)>> \in Seq(Messages)
    BY FALSE \in BOOLEAN, MessageTypes
  <1>7. /\ inbox'[home] = inbox[home]
        /\ \A i \in Instances \ {home} : Grew(inbox[i], Started(m), inbox'[i])
    BY <1>1, <1>3, <1>6, PublishedOne
  <1>8. \A kind, n : Says(Started(m), kind, n) <=> (kind = "started" /\ m = n)
    BY WhatIsSaid
  <1>9. Fresh(home)'
    BY <1>1, <1>2, <1>3, <1>4, <1>7, <1>8 DEF IInv, Fresh, Works, Grew
  <1>10. AtHome(home)'
    BY <1>1, <1>2, <1>3, <1>7 DEF IInv, AtHome, Told, Works
  <1>11. NotStarted(home)'
    BY <1>1, <1>7 DEF IInv, NotStarted
  <1>12. Single(home)'
    BY <1>1, <1>3, <1>5, <1>7, <1>8 DEF IInv, Single, Grew
  <1>13. Mine'
    BY <1>1, <1>3, <1>5, <1>7, <1>8 DEF IInv, Mine, Works, Grew
  <1>14. Cleared(home)'
    <2> SUFFICES ASSUME NEW i \in Instances \ {home}, NEW n \in Moves,
                        \/ answers[n] # {} \/ Has(inbox[home], "result", n)
                        \/ \E t \in Tabs : Told(t, n),
                        pending[i] = n \/ Has(inbox'[i], "started", n)
                 PROVE  Clears(inbox'[i], n)
      BY <1>3, <1>7 DEF Cleared, Told, Works
    <2>1. n # m
      BY <1>1, <1>5 DEF Told
    <2>2. Has(inbox'[i], "started", n) <=> Has(inbox[i], "started", n)
      BY <1>7, <1>8, <2>1 DEF Grew
    <2>3. Clears(inbox[i], n)
      BY <2>2 DEF IInv, Cleared
    <2> QED
      BY <1>7, <1>8, <2>1, <2>3 DEF Grew
  <1> QED
    BY <1>9, <1>10, <1>11, <1>12, <1>13, <1>14 DEF IInv

\* The others are told that m is finished before they are told its result.
LEMMA ReportTimeoutKeeps ==
    ASSUME NEW home, Apart(home), TypeOK, IInv(home), NEW m \in Moves, ReportTimeout(m)
    PROVE  IInv(home)'
  <1>1. /\ home \in Instances /\ ActorAt[m] = home
        /\ \A t \in Tabs : TabAt[t] \in Instances \ {home}
        /\ Kinds = {"started", "finished", "result"}
    BY MovesAssumption DEF Apart, Kinds
  <1>2. /\ request[m] = "expired" /\ request'[m] = "over"
        /\ \A n \in Moves \ {m} : request'[n] = request[n]
    BY DEF ReportTimeout, TypeOK
  <1>3. /\ pending' = pending /\ job' = job
        /\ \A n \in Moves \ {m} : answers'[n] = answers[n]
    BY <1>1 DEF ReportTimeout, Answered, TypeOK
  <1>4. "expired" \notin Early /\ "over" \notin Early
    BY DEF Early
  <1>5. pending[home] # m
    BY <1>2 DEF IInv, AtHome
  <1>6. inbox'[home] = inbox[home]
    BY <1>1 DEF ReportTimeout, Published
  <1>7. /\ \A kind, n : Says(Finished(m), kind, n) <=> (kind = "finished" /\ m = n)
        /\ \A kind, n : Says(Result(m, FALSE), kind, n) <=> (kind = "result" /\ m = n)
    BY WhatIsSaid
  <1>8. ASSUME NEW i \in Instances \ {home}
        PROVE  \E q : Grew(inbox[i], Finished(m), q) /\ Grew(q, Result(m, FALSE), inbox'[i])
    <2> DEFINE f == Finished(m)
               r == Result(m, FALSE)
    <2>1. f \in Messages /\ r \in Messages /\ inbox[i] \in Seq(Messages)
      BY DEF Finished, Result, Messages, TypeOK
    <2>2. inbox'[i] = inbox[i] \o <<f, r>>
      BY <1>1 DEF ReportTimeout, Published, ExpiryMessages
    <2> HIDE DEF f, r
    <2>3. inbox[i] \o <<f>> \in Seq(Messages) /\ inbox'[i] = (inbox[i] \o <<f>>) \o <<r>>
      BY <2>1, <2>2, TwoInTurn
    <2>4. Grew(inbox[i], f, inbox[i] \o <<f>>) /\ Grew(inbox[i] \o <<f>>, r, inbox'[i])
      BY <2>1, <2>3, GrewAppended
    <2> QED
      BY <2>4 DEF f, r
  <1>9. ASSUME NEW i \in Instances \ {home}
        PROVE  /\ \A n \in Moves : Has(inbox'[i], "started", n) <=> Has(inbox[i], "started", n)
               /\ \A n \in Moves \ {m}, kind \in Kinds :
                     Has(inbox'[i], kind, n) <=> Has(inbox[i], kind, n)
               /\ \A n \in Moves : Clears(inbox[i], n) => Clears(inbox'[i], n)
               /\ \A n \in Moves : StartsOnce(inbox[i], n) => StartsOnce(inbox'[i], n)
               /\ Clears(inbox'[i], m)
    <2>1. PICK q : Grew(inbox[i], Finished(m), q) /\ Grew(q, Result(m, FALSE), inbox'[i])
      BY <1>8
    <2> QED
      BY <1>7, <2>1 DEF Grew
  <1>10. Fresh(home)'
    BY <1>1, <1>2, <1>3, <1>4, <1>6, <1>9 DEF IInv, Fresh, Works
  <1>11. AtHome(home)'
    BY <1>1, <1>2, <1>3, <1>5, <1>6 DEF IInv, AtHome, Told, Works
  <1>12. NotStarted(home)'
    BY <1>1, <1>6 DEF IInv, NotStarted
  <1>13. Single(home)'
    BY <1>1, <1>3, <1>9 DEF IInv, Single
  <1>14. Mine'
    BY <1>1, <1>3, <1>9 DEF IInv, Mine, Works
  <1>15. Cleared(home)'
    BY <1>1, <1>3, <1>6, <1>9 DEF IInv, Cleared, Told, Works
  <1> QED
    BY <1>10, <1>11, <1>12, <1>13, <1>14, <1>15 DEF IInv

-----------------------------------------------------------------------------
(* The completion's steps that others hear of *)

\* The entry that a completion takes out is not to come back.
LEMMA AcknowledgeKeeps ==
    ASSUME NEW home, Apart(home), TypeOK, IInv(home), NEW t \in Tabs, NEW m \in Moves,
           Acknowledge(t, m)
    PROVE  IInv(home)'
  <1>1. /\ home \in Instances
        /\ \A u \in Tabs : TabAt[u] \in Instances \ {home}
        /\ Kinds = {"started", "finished", "result"}
        /\ None \notin Moves
    BY MovesAssumption, NoneAssumption DEF Apart, Kinds
  <1>2. UNCHANGED <<answers, request>> /\ inbox' = inbox
    BY DEF Acknowledge
  <1>3. CASE pending[TabAt[t]] # m
    <2>1. pending' = pending /\ job' = job
      BY <1>3 DEF Acknowledge, IsAbout
    <2> QED
      BY <1>2, <2>1, SameAlike, OtherKeeps DEF Works, Told
  <1>4. CASE pending[TabAt[t]] = m
    <2>1. /\ pending' = [pending EXCEPT ![TabAt[t]] = None]
          /\ job' = [job EXCEPT ![t] = [move |-> m, step |-> "finish",
                                        ok |-> tab[t].joined = Destination[m]]]
      BY <1>4 DEF Acknowledge, IsAbout
    <2>2. /\ job'[t].move = m /\ job'[t].step = "finish"
          /\ \A u \in Tabs \ {t} : job'[u] = job[u]
      BY <2>1 DEF TypeOK
    <2>3. /\ pending'[TabAt[t]] = None
          /\ \A i \in Instances \ {TabAt[t]} : pending'[i] = pending[i]
      BY <1>1, <2>1 DEF TypeOK
    <2>4. /\ \A u \in Tabs, n \in Moves : Told(u, n)' => Told(u, n)
          /\ \A u \in Tabs, n \in Moves : Works(u, n)' => Works(u, n) \/ (u = t /\ n = m)
      BY <2>2 DEF Told, Works
    <2>5. request[m] \notin Early
      BY <1>1, <1>4 DEF IInv, Fresh
    <2>6. ~Has(inbox[TabAt[t]], "started", m)
      BY <1>1, <1>4 DEF IInv, Single
    <2>7. Fresh(home)'
      BY <1>1, <1>2, <2>3, <2>4, <2>5 DEF IInv, Fresh
    <2>8. AtHome(home)'
      BY <1>1, <1>2, <2>3, <2>4 DEF IInv, AtHome
    <2>9. NotStarted(home)'
      BY <1>2 DEF IInv, NotStarted
    <2>10. Single(home)'
      BY <1>1, <1>2, <2>3 DEF IInv, Single
    <2>11. Mine'
      BY <1>1, <1>2, <2>3, <2>4, <2>6 DEF IInv, Mine
    <2>12. Cleared(home)'
      BY <1>1, <1>2, <2>3, <2>4 DEF IInv, Cleared
    <2> QED
      BY <2>7, <2>8, <2>9, <2>10, <2>11, <2>12 DEF IInv
  <1> QED
    BY <1>3, <1>4

\* Everybody else is told; on the completion's own instance nothing is left to tell.
LEMMA FinishKeeps ==
    ASSUME NEW home, Apart(home), TypeOK, IInv(home), NEW t \in Tabs, Finish(t)
    PROVE  IInv(home)'
  <1> DEFINE m == job[t].move
             here == TabAt[t]
  <1>1. /\ home \in Instances
        /\ \A u \in Tabs : TabAt[u] \in Instances \ {home}
        /\ here \in Instances \ {home}
        /\ Kinds = {"started", "finished", "result"}
    BY MovesAssumption DEF Apart, Kinds
  <1>2. Goes(t, "verify") \/ Fails(t)
    BY DEF Finish
  <1>3. job[t] # None
    BY DEF Finish, Step
  <1>4. /\ m \in Moves /\ job'[t].move = m
        /\ \A u \in Tabs \ {t} : job'[u] = job[u]
    BY <1>2, <1>3, JobTypes DEF TypeOK
  <1>5. /\ UNCHANGED <<answers, pending, request>>
        /\ inbox' = Published(here, <<Finished(m)>>)
    BY DEF Finish, FinishMessages
  <1>6. <<Finished(m)>> \in Seq(Messages)
    BY <1>4, FALSE \in BOOLEAN, MessageTypes
  <1>7. /\ inbox'[here] = inbox[here]
        /\ \A i \in Instances \ {here} : Grew(inbox[i], Finished(m), inbox'[i])
    BY <1>1, <1>5, <1>6, PublishedOne
  <1>8. \A kind, n : Says(Finished(m), kind, n) <=> (kind = "finished" /\ m = n)
    BY WhatIsSaid
  <1>9. Works(t, m)
    BY <1>3 DEF Works
  <1> HIDE DEF m, here
  <1>10. /\ \A u \in Tabs, n \in Moves : Works(u, n)' => Works(u, n)
         /\ \A u \in Tabs, n \in Moves : Told(u, n)' => Told(u, n) \/ n = m
    BY <1>4, <1>9 DEF Works, Told
  <1>11. /\ request[m] \notin Early
         /\ pending[here] # m /\ ~Has(inbox[here], "started", m)
    BY <1>4, <1>9 DEF IInv, Fresh, Mine, here
  <1>12. ASSUME NEW i \in Instances
         PROVE  /\ \A n \in Moves : Has(inbox'[i], "started", n) <=> Has(inbox[i], "started", n)
                /\ \A n \in Moves : Has(inbox'[i], "result", n) <=> Has(inbox[i], "result", n)
                /\ \A n \in Moves \ {m}, kind \in Kinds :
                      Has(inbox'[i], kind, n) <=> Has(inbox[i], kind, n)
                /\ \A n \in Moves : Has(inbox[i], "finished", n) => Has(inbox'[i], "finished", n)
                /\ \A n \in Moves : Clears(inbox[i], n) => Clears(inbox'[i], n)
                /\ \A n \in Moves : StartsOnce(inbox[i], n) => StartsOnce(inbox'[i], n)
                /\ \A n \in Moves : Ordered(inbox[i], n) => Ordered(inbox'[i], n)
                /\ i # here => Clears(inbox'[i], m) /\ Has(inbox'[i], "finished", m)
    <2>1. CASE i = here
      BY <1>7, <2>1
    <2>2. CASE i # here
      <3>1. Grew(inbox[i], Finished(m), inbox'[i])
        BY <1>7, <2>2
      <3>2. ASSUME NEW n \in Moves
            PROVE  /\ \A kind : Has(inbox'[i], kind, n)
                         <=> (Has(inbox[i], kind, n) \/ (kind = "finished" /\ m = n))
                   /\ Clears(inbox[i], n) => Clears(inbox'[i], n)
                   /\ StartsOnce(inbox[i], n) => StartsOnce(inbox'[i], n)
                   /\ Ordered(inbox[i], n) => Ordered(inbox'[i], n)
        BY <1>8, <3>1 DEF Grew
      <3>3. Clears(inbox'[i], m)
        BY <1>8, <3>1 DEF Grew
      <3>4. Has(inbox'[i], "finished", m)
        BY <3>3, Unheard
      <3> QED
        BY <3>2, <3>3, <3>4
    <2> QED
      BY <2>1, <2>2
  <1>13. Fresh(home)'
    BY <1>1, <1>5, <1>10, <1>11, <1>12 DEF IInv, Fresh
  <1>14. AtHome(home)'
    BY <1>1, <1>5, <1>10, <1>12 DEF IInv, AtHome
  <1>15. NotStarted(home)'
    BY <1>1, <1>12 DEF IInv, NotStarted
  <1>16. Single(home)'
    BY <1>1, <1>5, <1>12 DEF IInv, Single
  <1>17. Mine'
    BY <1>1, <1>5, <1>10, <1>12 DEF IInv, Mine
  <1>18. Cleared(home)'
    <2> SUFFICES ASSUME NEW i \in Instances \ {home}, NEW n \in Moves,
                        \/ answers[n] # {} \/ Has(inbox[home], "result", n)
                        \/ \E u \in Tabs : Told(u, n)',
                        pending[i] = n \/ Has(inbox[i], "started", n)
                 PROVE  Clears(inbox'[i], n)
      BY <1>1, <1>5, <1>12 DEF Cleared
    <2>1. CASE n = m
      BY <1>11, <1>12, <2>1
    <2>2. CASE n # m
      BY <1>10, <1>12, <2>2 DEF IInv, Cleared
    <2> QED
      BY <2>1, <2>2
  <1> QED
    BY <1>13, <1>14, <1>15, <1>16, <1>17, <1>18 DEF IInv

\* The result of a completion follows its news that the request is finished.
LEMMA ReportKeeps ==
    ASSUME NEW home, Apart(home), TypeOK, IInv(home), NEW t \in Tabs, Report(t)
    PROVE  IInv(home)'
  <1> DEFINE m == job[t].move
             here == TabAt[t]
             e == Result(m, job[t].ok)
  <1>1. /\ home \in Instances
        /\ \A u \in Tabs : TabAt[u] \in Instances \ {home}
        /\ here \in Instances \ {home}
        /\ Kinds = {"started", "finished", "result"}
    BY MovesAssumption DEF Apart, Kinds
  <1>2. job[t] # None /\ job[t].step = "report"
    BY DEF Report, Step
  <1>3. m \in Moves /\ job[t].ok \in BOOLEAN
    BY <1>2, JobTypes DEF TypeOK
  <1>4. job'[t] = None /\ \A u \in Tabs \ {t} : job'[u] = job[u]
    BY DEF Report, TypeOK
  <1>5. UNCHANGED <<answers, pending, request>> /\ inbox' = Published(here, <<e>>)
    BY <1>1, <1>3 DEF Report, Answered, Apart
  <1>6. <<e>> \in Seq(Messages)
    BY <1>3, MessageTypes
  <1>7. \A kind, n : Says(e, kind, n) <=> (kind = "result" /\ m = n)
    BY WhatIsSaid
  <1>8. Works(t, m) /\ Told(t, m)
    BY <1>2 DEF Works, Told
  <1> HIDE DEF m, here, e
  <1>9. /\ inbox'[here] = inbox[here]
        /\ \A i \in Instances \ {here} : Grew(inbox[i], e, inbox'[i])
    BY <1>1, <1>5, <1>6, PublishedOne
  <1>10. /\ \A u \in Tabs, n \in Moves : Works(u, n)' => Works(u, n)
         /\ \A u \in Tabs, n \in Moves : Told(u, n)' => Told(u, n)
    BY <1>4 DEF Works, Told
  <1>11. /\ request[m] \notin Early
         /\ pending[home] = m => Has(inbox[home], "finished", m)
    BY <1>3, <1>8 DEF IInv, Fresh, AtHome
  <1>12. ASSUME NEW i \in Instances
         PROVE  /\ \A n \in Moves : Has(inbox'[i], "started", n) <=> Has(inbox[i], "started", n)
                /\ \A n \in Moves : Has(inbox'[i], "finished", n) <=> Has(inbox[i], "finished", n)
                /\ \A n \in Moves \ {m}, kind \in Kinds :
                      Has(inbox'[i], kind, n) <=> Has(inbox[i], kind, n)
                /\ \A n \in Moves : Clears(inbox[i], n) => Clears(inbox'[i], n)
                /\ \A n \in Moves : StartsOnce(inbox[i], n) => StartsOnce(inbox'[i], n)
                /\ \A n \in Moves : Ordered(inbox[i], n) /\ (n = m => Has(inbox[i], "finished", m))
                                    => Ordered(inbox'[i], n)
    <2>1. CASE i = here
      BY <1>9, <2>1
    <2>2. CASE i # here
      BY <1>7, <1>9, <2>2 DEF Grew
    <2> QED
      BY <2>1, <2>2
  <1>13. Fresh(home)'
    BY <1>1, <1>5, <1>10, <1>11, <1>12 DEF IInv, Fresh
  <1>14. AtHome(home)'
    BY <1>1, <1>5, <1>10, <1>11, <1>12 DEF IInv, AtHome
  <1>15. NotStarted(home)'
    BY <1>1, <1>12 DEF IInv, NotStarted
  <1>16. Single(home)'
    BY <1>1, <1>5, <1>12 DEF IInv, Single
  <1>17. Mine'
    BY <1>1, <1>5, <1>10, <1>12 DEF IInv, Mine
  <1>18. Cleared(home)'
    <2> SUFFICES ASSUME NEW i \in Instances \ {home}, NEW n \in Moves,
                        \/ answers[n] # {} \/ Has(inbox'[home], "result", n)
                        \/ \E u \in Tabs : Told(u, n),
                        pending[i] = n \/ Has(inbox[i], "started", n)
                 PROVE  Clears(inbox'[i], n)
      BY <1>1, <1>5, <1>10, <1>12 DEF Cleared
    <2>1. CASE n = m
      BY <1>8, <1>12, <2>1 DEF IInv, Cleared
    <2>2. CASE n # m
      BY <1>1, <1>12, <2>2 DEF IInv, Cleared
    <2> QED
      BY <2>1, <2>2
  <1> QED
    BY <1>13, <1>14, <1>15, <1>16, <1>17, <1>18 DEF IInv

-----------------------------------------------------------------------------
(* The messages an instance applies *)

\* Started once, the entry is not started again.
LEMMA ApplyStartedKeeps ==
    ASSUME NEW home, Apart(home), TypeOK, IInv(home), NEW i \in Instances, ApplyStarted(i)
    PROVE  IInv(home)'
  <1> DEFINE e == Head(inbox[i])
             m == e.move
  <1>1. /\ home \in Instances
        /\ \A u \in Tabs : TabAt[u] \in Instances \ {home}
        /\ Kinds = {"started", "finished", "result"}
    BY MovesAssumption DEF Apart, Kinds
  <1>2. inbox[i] # <<>> /\ Took(i) /\ e.kind = "started"
    BY DEF ApplyStarted, Arrived
  <1>3. m \in Moves
    BY <1>2, TookTypes DEF Messages, TypeOK
  <1>4. /\ UNCHANGED <<answers, request>> /\ job' = job
        /\ pending' = [pending EXCEPT ![i] = m]
    BY DEF ApplyStarted, Message
  <1>5. pending'[i] = m /\ \A j \in Instances \ {i} : pending'[j] = pending[j]
    BY <1>4 DEF TypeOK
  <1>6. /\ Shrank(inbox[i], e, inbox'[i])
        /\ \A j \in Instances \ {i} : inbox'[j] = inbox[j]
    BY <1>2, TookOne
  <1>7. \A kind, n : Says(e, kind, n) <=> (kind = "started" /\ m = n)
    BY <1>2 DEF Says
  <1> HIDE DEF e, m
  <1>8. Has(inbox[i], "started", m)
    BY <1>6, <1>7 DEF Shrank
  <1>9. i # home
    BY <1>3, <1>8 DEF IInv, NotStarted
  <1>10. ASSUME NEW n \in Moves
         PROVE  /\ Has(inbox'[i], "started", n) => Has(inbox[i], "started", n)
                /\ \A kind \in Kinds : Has(inbox'[i], kind, n) => Has(inbox[i], kind, n)
                /\ Clears(inbox[i], n) => Clears(inbox'[i], n)
                /\ StartsOnce(inbox'[i], n)
                /\ n = m => ~Has(inbox'[i], "started", n)
    <2>1. StartsOnce(inbox[i], n)
      BY <1>9 DEF IInv, Single
    <2> QED
      BY <1>6, <1>7, <2>1 DEF Shrank
  <1>11. request[m] \notin Early
    BY <1>1, <1>3, <1>8 DEF IInv, Fresh
  <1>12. \A t \in Tabs : TabAt[t] = i => ~Works(t, m)
    BY <1>3, <1>8 DEF IInv, Mine
  <1>13. Fresh(home)'
    <2> SUFFICES ASSUME NEW n \in Moves, request[n] \in Early
                 PROVE  /\ answers[n] = {}
                        /\ \A j \in Instances, kind \in Kinds : ~Has(inbox'[j], kind, n)
                        /\ \A t \in Tabs : ~Works(t, n)
                        /\ \A j \in Instances \ {home} : pending'[j] # n
      BY <1>4 DEF Fresh, Works
    <2>1. /\ answers[n] = {}
          /\ \A j \in Instances, kind \in Kinds : ~Has(inbox[j], kind, n)
          /\ \A t \in Tabs : ~Works(t, n)
          /\ \A j \in Instances \ {home} : pending[j] # n
      BY DEF IInv, Fresh
    <2>2. \A j \in Instances, kind \in Kinds : ~Has(inbox'[j], kind, n)
      BY <1>6, <1>10, <2>1
    <2>3. \A j \in Instances \ {home} : pending'[j] # n
      BY <1>5, <1>11, <2>1
    <2> QED
      BY <2>1, <2>2, <2>3
  <1>14. AtHome(home)'
    BY <1>1, <1>4, <1>5, <1>6, <1>9 DEF IInv, AtHome, Told, Works
  <1>15. NotStarted(home)'
    BY <1>1, <1>6, <1>9 DEF IInv, NotStarted
  <1>16. Single(home)'
    BY <1>5, <1>6, <1>10 DEF IInv, Single
  <1>17. Mine'
    <2> SUFFICES ASSUME NEW t \in Tabs, NEW n \in Moves, Works(t, n)
                 PROVE  /\ pending'[TabAt[t]] # n
                        /\ ~Has(inbox'[TabAt[t]], "started", n)
      BY <1>4 DEF Mine, Works
    <2>1. pending[TabAt[t]] # n /\ ~Has(inbox[TabAt[t]], "started", n)
      BY DEF IInv, Mine
    <2>2. CASE TabAt[t] = i
      BY <1>5, <1>10, <1>12, <2>1, <2>2
    <2>3. CASE TabAt[t] # i
      BY <1>1, <1>5, <1>6, <2>1, <2>3
    <2> QED
      BY <2>2, <2>3
  <1>18. Cleared(home)'
    <2> SUFFICES ASSUME NEW j \in Instances \ {home}, NEW n \in Moves,
                        \/ answers[n] # {} \/ Has(inbox[home], "result", n)
                        \/ \E u \in Tabs : Told(u, n),
                        pending'[j] = n \/ Has(inbox'[j], "started", n)
                 PROVE  Clears(inbox'[j], n)
      BY <1>1, <1>4, <1>6, <1>9 DEF Cleared, Told, Works
    <2>1. CASE j = i
      <3>1. pending[i] = n \/ Has(inbox[i], "started", n)
        BY <1>5, <1>8, <1>10, <2>1
      <3>2. Clears(inbox[i], n)
        BY <2>1, <3>1 DEF IInv, Cleared
      <3> QED
        BY <1>10, <2>1, <3>2
    <2>2. CASE j # i
      BY <1>5, <1>6, <2>2 DEF IInv, Cleared
    <2> QED
      BY <2>1, <2>2
  <1> QED
    BY <1>13, <1>14, <1>15, <1>16, <1>17, <1>18 DEF IInv

\* The entry goes with the message that clears it.
LEMMA ApplyFinishedKeeps ==
    ASSUME NEW home, Apart(home), TypeOK, IInv(home), NEW i \in Instances, ApplyFinished(i)
    PROVE  IInv(home)'
  <1> DEFINE e == Head(inbox[i])
             m == e.move
  <1>1. /\ home \in Instances
        /\ \A u \in Tabs : TabAt[u] \in Instances \ {home}
        /\ Kinds = {"started", "finished", "result"}
        /\ None \notin Moves
    BY MovesAssumption, NoneAssumption DEF Apart, Kinds
  <1>2. inbox[i] # <<>> /\ Took(i) /\ e.kind = "finished"
    BY DEF ApplyFinished, Arrived
  <1>3. m \in Moves
    BY <1>2, TookTypes DEF Messages, TypeOK
  <1>4. /\ UNCHANGED <<answers, request>> /\ job' = job
        /\ pending' = [pending EXCEPT ![i] = IF @ = m THEN None ELSE @]
    BY DEF ApplyFinished, Message
  <1>5. /\ pending'[i] # m
        /\ \A j \in Instances, n \in Moves : pending'[j] = n => pending[j] = n
    BY <1>1, <1>3, <1>4 DEF TypeOK
  <1>6. /\ Shrank(inbox[i], e, inbox'[i])
        /\ \A j \in Instances \ {i} : inbox'[j] = inbox[j]
    BY <1>2, TookOne
  <1>7. \A kind, n : Says(e, kind, n) <=> (kind = "finished" /\ m = n)
    BY <1>2 DEF Says
  <1> HIDE DEF e, m
  <1>8. ASSUME NEW j \in Instances, NEW n \in Moves
        PROVE  /\ Has(inbox'[j], "started", n) <=> Has(inbox[j], "started", n)
               /\ Has(inbox'[j], "result", n) <=> Has(inbox[j], "result", n)
               /\ Has(inbox'[j], "finished", n) => Has(inbox[j], "finished", n)
               /\ StartsOnce(inbox[j], n) => StartsOnce(inbox'[j], n)
               /\ j # i \/ n # m \/ Has(inbox[j], "started", n)
                  => (Clears(inbox[j], n) => Clears(inbox'[j], n))
               /\ j # i \/ n # m
                  => /\ Ordered(inbox[j], n) => Ordered(inbox'[j], n)
                     /\ Has(inbox[j], "finished", n) => Has(inbox'[j], "finished", n)
    <2>1. CASE j = i
      BY <1>6, <1>7, <2>1 DEF Shrank
    <2>2. CASE j # i
      BY <1>6, <2>2
    <2> QED
      BY <2>1, <2>2
  <1>9. Fresh(home)'
    BY <1>1, <1>4, <1>5, <1>8 DEF IInv, Fresh, Works
  <1>10. AtHome(home)'
    <2> SUFFICES ASSUME NEW n \in Moves, pending'[home] = n
                 PROVE  /\ request[n] \in {"inserted", "announced", "waiting", "aborted"}
                        /\ answers[n] = {}
                        /\ Ordered(inbox'[home], n)
                        /\ \A t \in Tabs : Told(t, n) => Has(inbox'[home], "finished", n)
      BY <1>4 DEF AtHome, Told, Works
    <2>1. pending[home] = n /\ (home # i \/ n # m)
      BY <1>1, <1>5
    <2> QED
      BY <1>1, <1>8, <2>1 DEF IInv, AtHome
  <1>11. NotStarted(home)'
    BY <1>1, <1>8 DEF IInv, NotStarted
  <1>12. Single(home)'
    BY <1>5, <1>8 DEF IInv, Single
  <1>13. Mine'
    BY <1>1, <1>4, <1>5, <1>8 DEF IInv, Mine, Works
  <1>14. Cleared(home)'
    <2> SUFFICES ASSUME NEW j \in Instances \ {home}, NEW n \in Moves,
                        \/ answers[n] # {} \/ Has(inbox'[home], "result", n)
                        \/ \E u \in Tabs : Told(u, n),
                        pending'[j] = n \/ Has(inbox'[j], "started", n)
                 PROVE  Clears(inbox'[j], n)
      BY <1>4 DEF Cleared, Told, Works
    <2>1. j # i \/ n # m \/ Has(inbox[j], "started", n)
      BY <1>5, <1>8
    <2>2. Clears(inbox[j], n)
      BY <1>1, <1>5, <1>8 DEF IInv, Cleared
    <2> QED
      BY <1>8, <2>1, <2>2
  <1> QED
    BY <1>9, <1>10, <1>11, <1>12, <1>13, <1>14 DEF IInv

\* The moderator gets a result that the others' entries do not outlive.
LEMMA ApplyResultKeeps ==
    ASSUME NEW home, Apart(home), TypeOK, IInv(home), NEW i \in Instances, ApplyResult(i)
    PROVE  IInv(home)'
  <1> DEFINE e == Head(inbox[i])
             m == e.move
  <1>1. /\ home \in Instances
        /\ \A u \in Tabs : TabAt[u] \in Instances \ {home}
        /\ Kinds = {"started", "finished", "result"}
    BY MovesAssumption DEF Apart, Kinds
  <1>2. inbox[i] # <<>> /\ Took(i) /\ e.kind = "result"
    BY DEF ApplyResult, Arrived
  <1>3. m \in Moves
    BY <1>2, TookTypes DEF Messages, TypeOK
  <1>4. UNCHANGED <<pending, request>> /\ job' = job
    BY DEF ApplyResult
  <1>5. \A n \in Moves : answers'[n] = answers[n] \/ (i = home /\ n = m)
    BY <1>3 DEF ApplyResult, Message, Answered, Apart, TypeOK
  <1>6. /\ Shrank(inbox[i], e, inbox'[i])
        /\ \A j \in Instances \ {i} : inbox'[j] = inbox[j]
    BY <1>2, TookOne
  <1>7. \A kind, n : Says(e, kind, n) <=> (kind = "result" /\ m = n)
    BY <1>2 DEF Says
  <1> HIDE DEF e, m
  <1>8. ASSUME NEW j \in Instances, NEW n \in Moves
        PROVE  /\ Has(inbox'[j], "started", n) <=> Has(inbox[j], "started", n)
               /\ Has(inbox'[j], "finished", n) <=> Has(inbox[j], "finished", n)
               /\ Has(inbox'[j], "result", n) => Has(inbox[j], "result", n)
               /\ StartsOnce(inbox[j], n) => StartsOnce(inbox'[j], n)
               /\ Clears(inbox[j], n) => Clears(inbox'[j], n)
               /\ Ordered(inbox[j], n) => Ordered(inbox'[j], n)
    <2>1. CASE j = i
      BY <1>6, <1>7, <2>1 DEF Shrank
    <2>2. CASE j # i
      BY <1>6, <2>2
    <2> QED
      BY <2>1, <2>2
  <1>9. Has(inbox[i], "result", m) /\ ~Ordered(inbox[i], m)
    BY <1>6, <1>7 DEF Shrank
  <1>10. request[m] \notin Early
    BY <1>1, <1>3, <1>9 DEF IInv, Fresh
  <1>11. i = home => pending[home] # m
    BY <1>3, <1>9 DEF IInv, AtHome
  <1>12. Fresh(home)'
    BY <1>1, <1>4, <1>5, <1>8, <1>10 DEF IInv, Fresh, Works
  <1>13. AtHome(home)'
    BY <1>1, <1>4, <1>5, <1>8, <1>11 DEF IInv, AtHome, Told, Works
  <1>14. NotStarted(home)'
    BY <1>1, <1>8 DEF IInv, NotStarted
  <1>15. Single(home)'
    BY <1>4, <1>8 DEF IInv, Single
  <1>16. Mine'
    BY <1>1, <1>4, <1>8 DEF IInv, Mine, Works
  <1>17. Cleared(home)'
    <2> SUFFICES ASSUME NEW j \in Instances \ {home}, NEW n \in Moves,
                        \/ answers'[n] # {} \/ Has(inbox'[home], "result", n)
                        \/ \E u \in Tabs : Told(u, n),
                        pending[j] = n \/ Has(inbox'[j], "started", n)
                 PROVE  Clears(inbox'[j], n)
      BY <1>4 DEF Cleared, Told, Works
    <2>1. \/ answers[n] # {} \/ Has(inbox[home], "result", n)
          \/ \E u \in Tabs : Told(u, n)
      BY <1>1, <1>5, <1>8, <1>9
    <2>2. Clears(inbox[j], n)
      BY <1>8, <2>1 DEF IInv, Cleared
    <2> QED
      BY <1>8, <2>2
  <1> QED
    BY <1>12, <1>13, <1>14, <1>15, <1>16, <1>17 DEF IInv

-----------------------------------------------------------------------------
(* The invariant *)

LEMMA InvInit ==
    ASSUME NEW home, Apart(home), Init
    PROVE  IInv(home)
  <1>1. /\ home \in Instances
        /\ \A i \in Instances : inbox[i] = <<>> /\ pending[i] = None
        /\ \A m \in Moves : answers[m] = {} /\ m # None
        /\ \A t \in Tabs : job[t] = None
    BY NoneAssumption DEF Apart, Init
  <1>2. \A kind, m : ~Has(<<>>, kind, m)
    BY DEF Has
  <1>3. \A m : StartsOnce(<<>>, m)
    BY DEF StartsOnce
  <1>4. \A t \in Tabs, m \in Moves : ~Works(t, m) /\ ~Told(t, m)
    BY <1>1 DEF Works, Told
  <1>5. Fresh(home)
    BY <1>1, <1>2, <1>4 DEF Fresh
  <1>6. AtHome(home)
    BY <1>1 DEF AtHome
  <1>7. NotStarted(home) /\ Single(home)
    BY <1>1, <1>2, <1>3 DEF NotStarted, Single
  <1>8. Mine
    BY <1>4 DEF Mine
  <1>9. Cleared(home)
    BY <1>1, <1>2, <1>4 DEF Cleared
  <1> QED
    BY <1>5, <1>6, <1>7, <1>8, <1>9 DEF IInv

LEMMA InvStep ==
    ASSUME NEW home, Apart(home), TypeOK, IInv(home), [Next]_vars
    PROVE  IInv(home)'
  <1>1. CASE UNCHANGED vars
    BY <1>1, SameAlike, OtherKeeps DEF vars, Works, Told
  <1>2. ASSUME NEW m \in Moves, Ask(m) \/ Handle(m) \/ CloseActor(m) PROVE IInv(home)'
    BY <1>2, DecisionSteps, RequestSteps, AnnounceKeeps, ReportTimeoutKeeps DEF Handle
  <1>3. ASSUME NEW t \in Tabs, Complete(t) \/ CloseTab(t) \/ ConnectTab(t) PROVE IInv(home)'
    BY <1>3, FinishKeeps, WorkSteps, ReportKeeps, ClientSteps DEF Complete
  <1>4. ASSUME NEW t \in Tabs, NEW ch \in {None} \cup Channels, JoinOrLeave(t, ch)
        PROVE  IInv(home)'
    BY <1>4, ClientSteps
  <1>5. ASSUME NEW t \in Tabs, NEW m \in Moves, Switch(t, m) \/ Acknowledge(t, m)
        PROVE  IInv(home)'
    BY <1>5, ClientSteps, AcknowledgeKeeps
  <1>6. ASSUME NEW i \in Instances, Apply(i) PROVE IInv(home)'
    BY <1>6, ApplyStartedKeeps, ApplyFinishedKeeps, QuietMessages, ApplyResultKeeps DEF Apply
  <1> QED
    BY <1>1, <1>2, <1>3, <1>4, <1>5, <1>6 DEF Next

LEMMA InvImplies ==
    ASSUME NEW home, Apart(home), TypeOK, IInv(home)
    PROVE  AnsweredIsClearing
  <1> SUFFICES ASSUME NEW i \in Instances, NEW m \in Moves, pending[i] = m, answers[m] # {}
               PROVE  \E k \in DOMAIN inbox[i] : inbox[i][k] = Finished(m)
    BY DEF AnsweredIsClearing
  <1>1. i # home
    BY DEF IInv, AtHome
  <1>2. Clears(inbox[i], m)
    BY <1>1 DEF IInv, Cleared
  <1>3. PICK k \in 1 .. Len(inbox[i]) : Says(inbox[i][k], "finished", m)
    BY <1>2, Unheard DEF Has
  <1>4. inbox[i] \in Seq(Messages)
    BY DEF TypeOK
  <1>5. k \in DOMAIN inbox[i] /\ inbox[i][k] \in Messages
    BY <1>3, <1>4
  <1>6. inbox[i][k] = Finished(m)
    BY <1>3, <1>5 DEF Says, Messages, Finished
  <1> QED
    BY <1>5, <1>6

\* For any number of instances, tabs and requests, if the moderators share an
\* instance that none of the member's tabs is on: an instance that still has a
\* request pending which its moderator already got a result for (from the
\* timer, from a completion, or a refusal) has VoiceMoveFinished on its way.
THEOREM AnsweredIsAlwaysClearing ==
    ASSUME NEW home, Apart(home)
    PROVE  Spec => []AnsweredIsClearing
  <1>1. Init => IInv(home)
    BY InvInit
  <1>2. TypeOK /\ IInv(home) /\ [Next]_vars => IInv(home)'
    BY InvStep
  <1>3. TypeOK /\ IInv(home) => AnsweredIsClearing
    BY InvImplies
  <1>4. Spec => []TypeOK
    BY TypeCorrect
  <1> QED
    BY <1>1, <1>2, <1>3, <1>4, PTL DEF Spec

=============================================================================
