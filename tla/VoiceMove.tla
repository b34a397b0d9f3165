----------------------------- MODULE VoiceMove -----------------------------
(***************************************************************************)
(* Moving a member to another voice channel: the moderator's request, the  *)
(* copies of pending_voice_moves on every instance, the member's clients   *)
(* and the completion (move_voice_member and complete_voice_member_move of *)
(* apps/server/src/ws/voice_commands.rs, their bus messages in             *)
(* ws/cluster.rs, the replay in ws/handler.rs, and the web client's        *)
(* webrtc/voiceMemberMove.ts).                                             *)
(*                                                                         *)
(* One member, and any number of requests to move them.  A handler runs to *)
(* its next await in one step, and a socket that closes ends the handler   *)
(* of its connection at the await it is at.                                *)
(*                                                                         *)
(* Not here: which connection holds the voice session (module              *)
(* VoiceCluster): a join is announced at once and takes the session over.  *)
(* Requests refused before the member's session is read, lost bus          *)
(* messages, and instances that stop.                                      *)
(***************************************************************************)
EXTENDS Naturals, Sequences, FiniteSets

CONSTANTS
    Instances,
    Moves,        \* request ids; a request is made once
    Tabs,         \* the member's connections
    Channels,     \* voice channels of one server
    ActorAt,      \* the instance a request's moderator is connected to
    Destination,  \* the channel a request is for
    TabAt,        \* the instance a tab connects to
    None,
    Limit,        \* bound: how often each of Budgets may happen
    MaxInbox      \* bound: undelivered bus messages of one instance

\* What users do only so often: the member's own joins, sockets of the member
\* that open after the start, sockets that close.
Budgets == {"join", "connect", "close"}

ASSUME MovesAssumption ==
    /\ ActorAt \in [Moves -> Instances]
    /\ Destination \in [Moves -> Channels]
    /\ TabAt \in [Tabs -> Instances]
ASSUME NoneAssumption == None \notin Moves \cup Channels
ASSUME BoundAssumption == Limit \in [Budgets -> Nat] /\ MaxInbox \in Nat

VARIABLES
    pending,   \* pending_voice_moves: each instance's entry for the member
    voice,     \* voice_sessions: the channel each instance has the member in
    room,      \* the LiveKit rooms the member has a participant in
    request,   \* where the request is: its handler, then its timer
    source,    \* source_channel_id of a request
    tab,       \* the member's clients
    job,       \* complete_voice_member_move, run by a tab's receive task
    inbox,     \* bus messages an instance has yet to apply
    audited,   \* moves with an entry in the audit log
    answers,   \* history: the results a request's moderator got
    cut,       \* history: requests whose completion ended with its socket
    spent      \* how much of each budget is used

vars == <<pending, voice, room, request, source, tab, job, inbox, audited,
          answers, cut, spent>>

-----------------------------------------------------------------------------
(* Types *)

Requests == {"none", "checked", "inserted", "announced", "waiting", "expired",
             "over", "aborted"}

\* A client: whether its socket is open, joinedVoiceChannelId, the requests
\* that reached it, and those it switched for and has yet to acknowledge.
TabStates == [open : BOOLEAN, joined : {None} \cup Channels, asked : SUBSET Moves,
              switched : SUBSET Moves]

Jobs == [move : Moves, step : {"finish", "verify", "cleanup", "audit", "report"},
         ok : BOOLEAN]

Messages == [kind : {"started", "finished", "requested"}, move : Moves]
            \cup [kind : {"result"}, move : Moves, ok : BOOLEAN]
            \cup [kind : {"voice"}, channel : {None} \cup Channels]

TypeOK ==
    /\ pending \in [Instances -> {None} \cup Moves]
    /\ voice \in [Instances -> {None} \cup Channels]
    /\ room \subseteq Channels
    /\ request \in [Moves -> Requests]
    /\ source \in [Moves -> {None} \cup Channels]
    /\ tab \in [Tabs -> TabStates]
    /\ job \in [Tabs -> {None} \cup Jobs]
    /\ inbox \in [Instances -> Seq(Messages)]
    /\ audited \subseteq Moves
    /\ answers \in [Moves -> SUBSET BOOLEAN]
    /\ cut \subseteq Moves
    /\ spent \in [Budgets -> Nat]

Init ==
    /\ pending = [i \in Instances |-> None]
    /\ voice = [i \in Instances |-> None]
    /\ room = {}
    /\ request = [m \in Moves |-> "none"]
    /\ source = [m \in Moves |-> None]
    /\ tab = [t \in Tabs |-> [open |-> TRUE, joined |-> None, asked |-> {},
                           switched |-> {}]]
    /\ job = [t \in Tabs |-> None]
    /\ inbox = [i \in Instances |-> <<>>]
    /\ audited = {}
    /\ answers = [m \in Moves |-> {}]
    /\ cut = {}
    /\ spent = [b \in Budgets |-> 0]

-----------------------------------------------------------------------------
(* The bus *)

Spend(budget) ==
    /\ spent[budget] < Limit[budget]
    /\ spent' = [spent EXCEPT ![budget] = @ + 1]

\* The inboxes after instance i published the messages, one after the other.
Published(i, messages) ==
    [j \in Instances |-> IF j = i THEN inbox[j] ELSE inbox[j] \o messages]

HasRoom(n) == \A j \in Instances : Len(inbox[j]) + n <= MaxInbox

Started(m) == [kind |-> "started", move |-> m]
Finished(m) == [kind |-> "finished", move |-> m]
Requested(m) == [kind |-> "requested", move |-> m]
Result(m, ok) == [kind |-> "result", move |-> m, ok |-> ok]
Voice(ch) == [kind |-> "voice", channel |-> ch]

\* The tabs after the open ones on instance i got the request.
Asking(i, m) ==
    [t \in Tabs |-> IF TabAt[t] = i /\ tab[t].open
                    THEN [tab[t] EXCEPT !.asked = @ \cup {m}]
                    ELSE tab[t]]

\* publish_voice_move_result on instance i: to the moderator's socket there, or
\* by the bus to the instance that has it.
Answered(i, m, ok) ==
    IF ActorAt[m] = i THEN [answers EXCEPT ![m] = @ \cup {ok}] ELSE answers

-----------------------------------------------------------------------------
(* move_voice_member, on the moderator's connection *)

\* The checks up to the member's session; without one, or with one in the
\* destination, the moderator is told at once.
Ask(m) ==
    LET ch == voice[ActorAt[m]] IN
    /\ request[m] = "none"
    /\ IF ch \in {None, Destination[m]}
       THEN /\ request' = [request EXCEPT ![m] = "over"]
            /\ answers' = [answers EXCEPT ![m] = @ \cup {FALSE}]
            /\ UNCHANGED source
       ELSE /\ request' = [request EXCEPT ![m] = "checked"]
            /\ source' = [source EXCEPT ![m] = ch]
            /\ UNCHANGED answers
    /\ UNCHANGED <<pending, voice, room, tab, job, inbox, audited, cut, spent>>

\* Slip: a new request takes the entry over.
IsFreeAlways(i) == TRUE

IsFree(i) == pending[i] = None

\* The member may join the destination: the entry is taken, if it is free.
Accept(m) ==
    /\ request[m] = "checked"
    /\ IF IsFree(ActorAt[m])
       THEN /\ pending' = [pending EXCEPT ![ActorAt[m]] = m]
            /\ request' = [request EXCEPT ![m] = "inserted"]
            /\ UNCHANGED answers
       ELSE /\ request' = [request EXCEPT ![m] = "over"]
            /\ answers' = [answers EXCEPT ![m] = @ \cup {FALSE}]
            /\ UNCHANGED pending
    /\ UNCHANGED <<voice, room, source, tab, job, inbox, audited, cut, spent>>

\* ... or may not.
Refuse(m) ==
    /\ request[m] = "checked"
    /\ request' = [request EXCEPT ![m] = "over"]
    /\ answers' = [answers EXCEPT ![m] = @ \cup {FALSE}]
    /\ UNCHANGED <<pending, voice, room, source, tab, job, inbox, audited, cut, spent>>

Announce(m) ==
    /\ request[m] = "inserted"
    /\ HasRoom(1)
    /\ request' = [request EXCEPT ![m] = "announced"]
    /\ inbox' = Published(ActorAt[m], <<Started(m)>>)
    /\ UNCHANGED <<pending, voice, room, source, tab, job, audited, answers, cut, spent>>

\* The member is asked, and the timer starts.
AskMember(m) ==
    /\ request[m] = "announced"
    /\ HasRoom(1)
    /\ request' = [request EXCEPT ![m] = "waiting"]
    /\ tab' = Asking(ActorAt[m], m)
    /\ inbox' = Published(ActorAt[m], <<Requested(m)>>)
    /\ UNCHANGED <<pending, voice, room, source, job, audited, answers, cut, spent>>

\* VOICE_MOVE_TIMEOUT: if the entry is still the request's, it is taken out.
Timeout(m) ==
    LET i == ActorAt[m] IN
    /\ request[m] = "waiting"
    /\ request' = [request EXCEPT ![m] = IF pending[i] = m THEN "expired" ELSE "over"]
    /\ pending' = [pending EXCEPT ![i] = IF @ = m THEN None ELSE @]
    /\ UNCHANGED <<voice, room, source, tab, job, inbox, audited, answers, cut, spent>>

\* Slip: the other instances are not told of a request that timed out.
ExpiryMessagesNone(m) == <<Result(m, FALSE)>>

ExpiryMessages(m) == <<Finished(m), Result(m, FALSE)>>

\* ... and the other instances and the moderator are told.
ReportTimeout(m) ==
    /\ request[m] = "expired"
    /\ HasRoom(2)
    /\ request' = [request EXCEPT ![m] = "over"]
    /\ inbox' = Published(ActorAt[m], ExpiryMessages(m))
    /\ answers' = Answered(ActorAt[m], m, FALSE)
    /\ UNCHANGED <<pending, voice, room, source, tab, job, audited, cut, spent>>

\* The moderator's socket closes while the request's handler runs.
CloseActor(m) ==
    /\ request[m] \in {"checked", "inserted", "announced"}
    /\ Spend("close")
    /\ request' = [request EXCEPT ![m] = "aborted"]
    /\ UNCHANGED <<pending, voice, room, source, tab, job, inbox, audited, answers, cut>>

-----------------------------------------------------------------------------
(* The member's clients *)

\* The member joins or leaves a channel in a tab: LiveKit's room first, then
\* JoinVoice or LeaveVoice.  A tab that was in voice is told that the session moved.
GoTo(t, ch, moves) ==
    /\ tab[t].open
    /\ job[t] = None
    /\ HasRoom(1)
    /\ tab' = [s \in Tabs |->
                 IF s = t
                 THEN [tab[s] EXCEPT !.joined = ch, !.asked = @ \ moves,
                                     !.switched = @ \cup moves]
                 ELSE [tab[s] EXCEPT !.joined = None]]
    /\ room' = IF ch = None THEN room \ {tab[t].joined} ELSE room \cup {ch}
    /\ voice' = [voice EXCEPT ![TabAt[t]] = ch]
    /\ inbox' = Published(TabAt[t], <<Voice(ch)>>)

JoinOrLeave(t, ch) ==
    /\ ch # tab[t].joined \/ ch # voice[TabAt[t]]
    /\ ch = None => tab[t].joined # None
    /\ GoTo(t, ch, {})
    /\ Spend("join")
    /\ UNCHANGED <<pending, request, source, job, audited, answers, cut>>

\* A request for the channel the tab is in makes it switch; the switch may
\* fail, and then the tab only acknowledges.
Switch(t, m) ==
    /\ m \in tab[t].asked
    /\ tab[t].joined = source[m]
    /\ GoTo(t, Destination[m], {m})
    /\ UNCHANGED <<pending, request, source, job, audited, answers, cut, spent>>

\* The socket closes: the session ends if the tab has it, and so does the
\* completion that runs on the socket's receive task.
CloseTab(t) ==
    /\ tab[t].open
    /\ HasRoom(1)
    /\ Spend("close")
    /\ tab' = [tab EXCEPT ![t].open = FALSE, ![t].asked = {}, ![t].switched = {}]
    /\ job' = [job EXCEPT ![t] = None]
    /\ cut' = IF job[t] = None THEN cut ELSE cut \cup {job[t].move}
    /\ IF tab[t].joined = None
       THEN UNCHANGED <<voice, inbox>>
       ELSE /\ voice' = [voice EXCEPT ![TabAt[t]] = None]
            /\ inbox' = Published(TabAt[t], <<Voice(None)>>)
    /\ UNCHANGED <<pending, room, request, source, audited, answers>>

\* Slip: an empty entry is replayed too.
ReplayedAlways(i) == {pending[i]}

Replayed(i) == {pending[i]} \ {None}

\* A new socket is asked again what is pending on its instance.
ConnectTab(t) ==
    /\ ~tab[t].open
    /\ Spend("connect")
    /\ tab' = [tab EXCEPT ![t].open = TRUE, ![t].asked = Replayed(TabAt[t])]
    /\ UNCHANGED <<pending, voice, room, request, source, job, inbox, audited, answers, cut>>

-----------------------------------------------------------------------------
(* complete_voice_member_move, on the connection that acknowledged *)

Step(t, step) == job[t] # None /\ job[t].step = step

Goes(t, step) == job' = [job EXCEPT ![t].step = step]
Fails(t) == job' = [job EXCEPT ![t].step = "report", ![t].ok = FALSE]

IsAbout(i, m) == pending[i] = m

\* A tab says whether it is in the destination.  An acknowledgement of another
\* request than the pending one is ignored.
Acknowledge(t, m) ==
    LET i == TabAt[t] IN
    /\ tab[t].open
    /\ job[t] = None
    /\ m \in tab[t].asked \cup tab[t].switched
    /\ tab' = [tab EXCEPT ![t].asked = @ \ {m}, ![t].switched = @ \ {m}]
    /\ IF IsAbout(i, m)
       THEN /\ pending' = [pending EXCEPT ![i] = None]
            /\ job' = [job EXCEPT ![t] = [move |-> m, step |-> "finish",
                                          ok |-> tab[t].joined = Destination[m]]]
       ELSE UNCHANGED <<pending, job>>
    /\ UNCHANGED <<voice, room, request, source, inbox, audited, answers, cut, spent>>

\* Slip: the other instances are told of a success only.
FinishMessagesOfSuccess(t) == IF job[t].ok THEN <<Finished(job[t].move)>> ELSE <<>>

FinishMessages(t) == <<Finished(job[t].move)>>

\* The other instances are told; then the session has to be in the destination.
Finish(t) ==
    LET i == TabAt[t]
        inPlace == voice[i] = Destination[job[t].move] IN
    /\ Step(t, "finish")
    /\ HasRoom(1)
    /\ inbox' = Published(i, FinishMessages(t))
    /\ IF job[t].ok /\ inPlace THEN Goes(t, "verify") ELSE Fails(t)
    /\ UNCHANGED <<pending, voice, room, request, source, tab, audited, answers, cut, spent>>

\* LiveKit has the participant, and the session still is in the destination.
Verify(t) ==
    LET to == Destination[job[t].move] IN
    /\ Step(t, "verify")
    /\ to \in room
    /\ IF voice[TabAt[t]] = to THEN Goes(t, "cleanup") ELSE Fails(t)
    /\ UNCHANGED <<pending, voice, room, request, source, tab, inbox, audited, answers, cut, spent>>

\* LiveKit removes the participant left in the source channel.
Cleanup(t) ==
    /\ Step(t, "cleanup")
    /\ room' = room \ {source[job[t].move]}
    /\ Goes(t, "audit")
    /\ UNCHANGED <<pending, voice, request, source, tab, inbox, audited, answers, cut, spent>>

Audit(t) ==
    /\ Step(t, "audit")
    /\ audited' = audited \cup {job[t].move}
    /\ Goes(t, "report")
    /\ UNCHANGED <<pending, voice, room, request, source, tab, inbox, answers, cut, spent>>

\* The verification ran into its deadline, or LiveKit or the audit log failed.
GiveUp(t) ==
    /\ Step(t, "verify") \/ Step(t, "cleanup") \/ Step(t, "audit")
    /\ Fails(t)
    /\ UNCHANGED <<pending, voice, room, request, source, tab, inbox, audited, answers, cut, spent>>

Report(t) ==
    LET m == job[t].move IN
    /\ Step(t, "report")
    /\ HasRoom(1)
    /\ answers' = Answered(TabAt[t], m, job[t].ok)
    /\ inbox' = Published(TabAt[t], <<Result(m, job[t].ok)>>)
    /\ job' = [job EXCEPT ![t] = None]
    /\ UNCHANGED <<pending, voice, room, request, source, tab, audited, cut, spent>>

Complete(t) ==
    Finish(t) \/ Verify(t) \/ Cleanup(t) \/ Audit(t) \/ GiveUp(t) \/ Report(t)

-----------------------------------------------------------------------------
(* Bus messages *)

Message(i) == Head(inbox[i])
Took(i) == inbox' = [inbox EXCEPT ![i] = Tail(@)]
Arrived(i, kind) == inbox[i] # <<>> /\ Head(inbox[i]).kind = kind

\* VoiceMoveStarted takes the entry over, whatever is in it.
ApplyStarted(i) ==
    /\ Arrived(i, "started")
    /\ Took(i)
    /\ pending' = [pending EXCEPT ![i] = Message(i).move]
    /\ UNCHANGED <<voice, room, request, source, tab, job, audited, answers, cut, spent>>

ApplyFinished(i) ==
    /\ Arrived(i, "finished")
    /\ Took(i)
    /\ pending' = [pending EXCEPT ![i] = IF @ = Message(i).move THEN None ELSE @]
    /\ UNCHANGED <<voice, room, request, source, tab, job, audited, answers, cut, spent>>

ApplyRequested(i) ==
    /\ Arrived(i, "requested")
    /\ Took(i)
    /\ tab' = Asking(i, Message(i).move)
    /\ UNCHANGED <<pending, voice, room, request, source, job, audited, answers, cut, spent>>

ApplyResult(i) ==
    /\ Arrived(i, "result")
    /\ Took(i)
    /\ answers' = Answered(i, Message(i).move, Message(i).ok)
    /\ UNCHANGED <<pending, voice, room, request, source, tab, job, audited, cut, spent>>

ApplyVoice(i) ==
    /\ Arrived(i, "voice")
    /\ Took(i)
    /\ voice' = [voice EXCEPT ![i] = Message(i).channel]
    /\ UNCHANGED <<pending, room, request, source, tab, job, audited, answers, cut, spent>>

Apply(i) ==
    ApplyStarted(i) \/ ApplyFinished(i) \/ ApplyRequested(i) \/ ApplyResult(i)
    \/ ApplyVoice(i)

-----------------------------------------------------------------------------
(* Specification *)

Handle(m) ==
    Accept(m) \/ Refuse(m) \/ Announce(m) \/ AskMember(m) \/ Timeout(m) \/ ReportTimeout(m)

Next ==
    \/ \E m \in Moves : Ask(m) \/ Handle(m) \/ CloseActor(m)
    \/ \E t \in Tabs : Complete(t) \/ CloseTab(t) \/ ConnectTab(t)
    \/ \E t \in Tabs, ch \in {None} \cup Channels : JoinOrLeave(t, ch)
    \/ \E t \in Tabs, m \in Moves : Switch(t, m) \/ Acknowledge(t, m)
    \/ \E i \in Instances : Apply(i)

Spec == Init /\ [][Next]_vars

\* Started handlers and timers go on, and instances apply what the bus brings.
\* Nothing is assumed of the clients.
Fairness ==
    /\ \A m \in Moves : WF_vars(Handle(m))
    /\ \A t \in Tabs : WF_vars(Complete(t))
    /\ \A i \in Instances : WF_vars(Apply(i))

FairSpec == Spec /\ Fairness

-----------------------------------------------------------------------------
(* Properties *)

\* An instance that still has a request pending which its moderator already
\* got a result for is about to drop it: VoiceMoveFinished is on its way, so
\* that no late acknowledgement completes a request that was reported over.
AnsweredIsClearing ==
    \A i \in Instances, m \in Moves :
        pending[i] = m /\ answers[m] # {}
            => \E k \in DOMAIN inbox[i] : inbox[i][k] = Finished(m)

\* A moderator who stays connected while the request is made gets a result,
\* unless the socket the completion runs on closes first (VOICE_SYSTEM.md:56:
\* client, LiveKit and timeout failures return an explicit result).
EveryMoveIsAnswered ==
    \A m \in Moves :
        (request[m] = "checked")
            ~> (answers[m] # {} \/ request[m] = "aborted" \/ m \in cut)

\* An entry does not stay for ever, which would refuse every later request for
\* the member on that instance; closed sockets of the moderator or of the
\* completion excepted, as above.
PendingEnds ==
    \A i \in Instances, m \in Moves :
        (pending[i] = m) ~> (pending[i] # m \/ request[m] = "aborted" \/ m \in cut)
=============================================================================
