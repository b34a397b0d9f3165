----------------------------- MODULE VoiceCall -----------------------------
(***************************************************************************)
(* One browser tab's voice call: the join button's joinWithPreflight       *)
(* (components/ActiveCallBar.tsx), the hook's joinVoice, moveVoice and     *)
(* leaveVoice (webrtc/useLiveKitVoice.ts), the microphone captures and     *)
(* LiveKit rooms a join opens on its way, and the voice messages the tab   *)
(* exchanges with the server.  A join is a chain of awaits; between two of *)
(* them the user may leave, the socket may drop, LiveKit may disconnect or *)
(* another device may take the session over.                               *)
(***************************************************************************)
EXTENDS Integers, Sequences, FiniteSets

CONSTANTS
    MaxJoins,   \* joins the user starts, a bound of the model
    Channels,   \* voice channels
    None,       \* no channel, no join, no room
    Limit       \* budgets of what the user, the network and others do

Joins == 1..MaxJoins
Spendable == {"leave", "navigate", "unplug", "fail", "lost", "drop", "elsewhere", "revoke"}

ASSUME JoinsAssumption == MaxJoins \in Nat
ASSUME NoneAssumption == None \notin Channels /\ None \notin Joins
ASSUME LimitAssumption == Limit \in [Spendable -> Nat]

VARIABLES
    tab,      \* the hook's refs and what they stand for (TabStates)
    join,     \* per join: the await it is suspended at, and its channel
    pending,  \* joinPendingRef
    mounted,  \* the call bar is mounted, a user is signed in
    down,     \* events on their way from the server to this tab
    session,  \* the account's voice session on the server: where, and channel
    rival,    \* another device of the account is connected to LiveKit
    spent

vars == <<tab, join, pending, mounted, down, session, rival, spent>>

\* A join's own resources carry its number: the capture of its microphone and
\* its Room.  The refs name the join whose resource they hold.
OrNone(S) == {None} \cup S
Notes == [type : {"join"}, channel : Channels] \cup [type : {"leave"}, channel : {None}]
RoomStates == {"none", "new", "connecting", "connected", "gone"}
TabStates ==
    [joined     : OrNone(Channels),   \* joinedChannelIdRef
     joining    : BOOLEAN,            \* isJoiningRef
     owner      : OrNone(Joins),      \* whose number joinAttemptRef still has
     room       : OrNone(Joins),      \* roomRef
     raw        : OrNone(Joins),      \* rawMicTrackRef
     cached     : OrNone(Joins),      \* cachedMicStreamRef
     capture    : OrNone(Joins),      \* whose capture request is the latest
     mirror     : OrNone(Channels),   \* joinedVoiceChannelId in the store
     reconciled : BOOLEAN,            \* finalMediaDisconnectReconciledRef
     live       : SUBSET Joins,       \* microphone captures that run
     media      : [Joins -> RoomStates],
     online     : BOOLEAN,            \* the socket is open
     up         : Seq(Notes)]         \* messages on their way to the server
Steps == {"idle", "prompt", "mic", "prepare", "build", "token", "turn", "connect",
          "publish", "closing", "releasing", "done"}
JoinStates == [step : Steps, channel : OrNone(Channels), current : BOOLEAN]
Sessions == [at : {"none", "here", "old", "elsewhere"}, channel : OrNone(Channels)]
NoSession == [at |-> "none", channel |-> None]

Spend(what) == /\ spent[what] < Limit[what]
               /\ spent' = [spent EXCEPT ![what] = @ + 1]

Active(j) == join[j].step \notin {"idle", "done"}
Suspended(j) == Active(j) /\ join[j].step # "prompt"

-----------------------------------------------------------------------------
(* The synchronous parts of the hook, as functions of the tab *)

\* send: dropped while the socket is not open.
Send(t, type, c) ==
    IF t.online THEN [t EXCEPT !.up = Append(@, [type |-> type, channel |-> c])] ELSE t

Closed(t, j) == IF j = None THEN t ELSE [t EXCEPT !.media[j] = "gone"]

\* leaveVoice: every suspended join is stale from here on.
LeaveVoice(t, skipServerLeave) ==
    LET told == IF skipServerLeave THEN t ELSE Send(t, "leave", None)
    IN  [Closed(told, t.room) EXCEPT
            !.owner = None, !.joining = FALSE, !.joined = None, !.mirror = None,
            !.room = None, !.raw = None, !.cached = None, !.capture = None,
            !.live = @ \ {t.raw, t.cached}]

\* Slip: the store is told which attempt joined, not which channel.
RegisteredAttempt(t, j, c) ==
    [Send(t, "join", c) EXCEPT !.joined = c, !.mirror = j, !.joining = FALSE]

\* The end of joinVoice, after its last await.
Registered(t, j, c) ==
    [Send(t, "join", c) EXCEPT !.joined = c, !.mirror = c, !.joining = FALSE]

-----------------------------------------------------------------------------
(* The steps of one join *)

At(j, step) == [join EXCEPT ![j].step = step]

\* A joinVoice that throws or returns ends joinWithPreflight.
Settle(j, t) ==
    /\ tab' = t
    /\ join' = At(j, "done")
    /\ pending' = FALSE

\* joinVoice up to its first await; stream says whether it was given one.
\* A join the hook ignores leaves the caller's stream alone.
JoinVoice(j, c, t, stream) ==
    IF ~t.online
    THEN Settle(j, [t EXCEPT !.live = @ \ {j}])
    ELSE IF t.joined = c \/ t.joining
    THEN Settle(j, t)
    ELSE /\ tab' = [t EXCEPT !.joining = TRUE, !.owner = j, !.reconciled = FALSE,
                             !.capture = IF stream THEN @ ELSE j]
         /\ join' = [join EXCEPT ![j] = [step |-> IF stream THEN "prepare" ELSE "mic",
                                         channel |-> c, current |-> TRUE]]
         /\ pending' = TRUE

\* Slip: a click while another join is suspended is not refused.
MayStartAlways == ~tab.joining

\* joinWithPreflight refuses a second join until the first has settled, even
\* one that a leave has cancelled.
MayStart == ~tab.joining /\ ~pending

\* joinWithPreflight outside a call: the permission prompt comes first.
AskMicrophone(j, c) ==
    /\ join[j].step = "idle"
    /\ \A i \in Joins : i < j => join[i].step # "idle"
    /\ mounted /\ MayStart
    /\ tab.joined = None
    /\ join' = [join EXCEPT ![j] = [step |-> "prompt", channel |-> c, current |-> TRUE]]
    /\ pending' = TRUE
    /\ UNCHANGED <<tab, mounted, down, session, rival, spent>>

\* joinWithPreflight inside a call, from a click or a moderator's move:
\* moveVoice clones the running microphone, leaves and joins.
MoveVoice(j, c) ==
    LET stream == tab.raw \in tab.live
        left == LeaveVoice(tab, FALSE)
    IN
    /\ join[j].step = "idle"
    /\ \A i \in Joins : i < j => join[i].step # "idle"
    /\ mounted /\ MayStart
    /\ tab.joined \notin {None, c}
    /\ JoinVoice(j, c, IF stream THEN [left EXCEPT !.live = @ \cup {j}] ELSE left, stream)
    /\ UNCHANGED <<mounted, down, session, rival, spent>>

\* The prompt is answered: the stream of an attempt that is no longer current
\* is stopped at once.
MicrophoneGranted(j) ==
    /\ join[j].step = "prompt"
    /\ IF join[j].current /\ mounted
       THEN JoinVoice(j, join[j].channel, [tab EXCEPT !.live = @ \cup {j}], TRUE)
       ELSE Settle(j, tab)
    /\ UNCHANGED <<mounted, down, session, rival, spent>>

MicrophoneDenied(j) ==
    /\ join[j].step = "prompt"
    /\ Spend("fail")
    /\ Settle(j, tab)
    /\ UNCHANGED <<mounted, down, session, rival>>

\* The failure path of joinVoice up to its await, for whatever room the ref
\* holds by then.
Release(j, t) ==
    /\ tab' = [Closed(t, t.room) EXCEPT !.room = None]
    /\ join' = At(j, "releasing")
    /\ UNCHANGED pending

\* A join that finds itself stale stops its own stream and closes its own
\* room; a newer join that is on its way owns the refs.
Cancel(j) ==
    LET t == [tab EXCEPT !.live = @ \ {j}] IN
    IF tab.media[j] # "none" /\ tab.room # j
    THEN /\ tab' = Closed(t, j)
         /\ join' = At(j, "closing")
         /\ UNCHANGED pending
    ELSE IF t.joining THEN Settle(j, t) ELSE Release(j, t)

\* ensureCurrentJoin after an await.
Continue(j, t, step) ==
    IF tab.owner = j
    THEN tab' = t /\ join' = At(j, step) /\ UNCHANGED pending
    ELSE Cancel(j)

\* getMicrophoneStream: a capture that is no longer wanted is stopped and
\* the join fails.
CaptureMicrophone(j) ==
    /\ join[j].step = "mic"
    /\ IF tab.capture = j
       THEN Continue(j, [tab EXCEPT !.cached = j, !.live = @ \cup {j}], "prepare")
       ELSE Release(j, tab)
    /\ UNCHANGED <<mounted, down, session, rival, spent>>

\* The audio context resumes and the constraints are applied; building the
\* send track starts by taking over the microphone ref.
Prepare(j) ==
    /\ join[j].step = "prepare"
    /\ Continue(j, [tab EXCEPT !.raw = j], "build")
    /\ UNCHANGED <<mounted, down, session, rival, spent>>

BuildTrack(j) ==
    /\ join[j].step = "build"
    /\ Continue(j, tab, "token")
    /\ UNCHANGED <<mounted, down, session, rival, spent>>

\* getLivekitToken answered: the Room exists from here on.
TokenReceived(j) ==
    /\ join[j].step = "token"
    /\ Continue(j, [tab EXCEPT !.room = j, !.media[j] = "new"], "turn")
    /\ UNCHANGED <<mounted, down, session, rival, spent>>

TurnReceived(j) ==
    /\ join[j].step = "turn"
    /\ Continue(j, [tab EXCEPT !.media[j] = "connecting"], "connect")
    /\ UNCHANGED <<mounted, down, session, rival, spent>>

RoomConnected(j) ==
    /\ join[j].step = "connect" /\ tab.media[j] = "connecting"
    /\ Continue(j, [tab EXCEPT !.media[j] = "connected"], "publish")
    /\ UNCHANGED <<mounted, down, session, rival, spent>>

\* Slip: the room's state is not looked at again after the track is published.
PublishedUnchecked(j) ==
    /\ join[j].step = "publish"
    /\ IF tab.owner # j
       THEN Cancel(j)
       ELSE Settle(j, Registered(tab, j, join[j].channel))
    /\ UNCHANGED <<mounted, down, session, rival, spent>>

\* The track is published; a room that has disconnected meanwhile fails the join.
Published(j) ==
    /\ join[j].step = "publish"
    /\ IF tab.owner # j
       THEN Cancel(j)
       ELSE IF tab.media[j] # "connected"
       THEN Release(j, tab)
       ELSE Settle(j, Registered(tab, j, join[j].channel))
    /\ UNCHANGED <<mounted, down, session, rival, spent>>

\* Slip: connecting has no timer, and a room lost meanwhile is not noticed.
JoinFailsUntimed(j) ==
    /\ join[j].step \in {"mic", "prepare", "build", "token", "publish"}
    /\ IF tab.media[j] = "gone" /\ join[j].step = "publish"
       THEN UNCHANGED spent ELSE Spend("fail")
    /\ Release(j, tab)
    /\ UNCHANGED <<mounted, down, session, rival>>

\* Any await of joinVoice may reject: permission, token, timeout, LiveKit.
\* connect rejects when its room was disconnected.
JoinFails(j) ==
    /\ join[j].step \in {"mic", "prepare", "build", "token", "connect", "publish"}
    /\ IF tab.media[j] = "gone" /\ join[j].step \in {"connect", "publish"}
       THEN UNCHANGED spent ELSE Spend("fail")
    /\ Release(j, tab)
    /\ UNCHANGED <<mounted, down, session, rival>>

\* The stale join's own room is closed.
CancelClosed(j) ==
    /\ join[j].step = "closing"
    /\ IF tab.joining THEN Settle(j, tab) ELSE Release(j, tab)
    /\ UNCHANGED <<mounted, down, session, rival, spent>>

\* Slip: the failure path leaves the join's own stream running.
ReleasedButStream(j) ==
    /\ join[j].step = "releasing"
    /\ Settle(j, [tab EXCEPT !.live = @ \ {tab.raw, tab.cached},
                             !.raw = None, !.cached = None, !.capture = None,
                             !.joining = IF tab.owner = j THEN FALSE ELSE @])
    /\ UNCHANGED <<mounted, down, session, rival, spent>>

\* The rest of the failure path: the refs' captures and the join's own stream
\* are stopped, and the join ends if it is still the latest.
Released(j) ==
    /\ join[j].step = "releasing"
    /\ Settle(j, [tab EXCEPT !.live = @ \ {tab.raw, tab.cached, j},
                             !.raw = None, !.cached = None, !.capture = None,
                             !.joining = IF tab.owner = j THEN FALSE ELSE @])
    /\ UNCHANGED <<mounted, down, session, rival, spent>>

-----------------------------------------------------------------------------
(* The user, LiveKit and the device *)

\* handleJoinLeave while connecting or connected.
Leave ==
    /\ mounted /\ (tab.joining \/ tab.joined # None)
    /\ Spend("leave")
    /\ tab' = LeaveVoice(tab, FALSE)
    /\ UNCHANGED <<join, pending, mounted, down, session, rival>>

\* Another channel is opened: an attempt at its prompt is no longer current.
Navigate ==
    /\ \E j \in Joins : join[j].step = "prompt" /\ join[j].current
    /\ Spend("navigate")
    /\ join' = [j \in Joins |-> [join[j] EXCEPT !.current = @ /\ join[j].step # "prompt"]]
    /\ UNCHANGED <<tab, pending, mounted, down, session, rival>>

\* The bar unmounts (logout): the call is left, whatever state it is in.
Unmount ==
    /\ mounted
    /\ mounted' = FALSE
    /\ tab' = IF tab.joined # None \/ tab.joining \/ tab.room # None
              THEN LeaveVoice(tab, FALSE) ELSE tab
    /\ UNCHANGED <<join, pending, down, session, rival, spent>>

\* The microphone's device goes away.
Unplug ==
    /\ Spend("unplug")
    /\ tab.raw \in tab.live
    /\ tab' = [tab EXCEPT !.live = @ \ {tab.raw}]
    /\ UNCHANGED <<join, pending, mounted, down, session, rival>>

\* voiceSessionMovedHandler: leave without ending the session of the other device.
MovedAway(t) ==
    IF t.joined = None /\ ~t.joining /\ t.room = None THEN t ELSE LeaveVoice(t, TRUE)

\* reconcileFinalMediaDisconnect.
FinalDisconnect(t, current) ==
    IF t.joined # None /\ ~t.reconciled /\ current
    THEN [LeaveVoice(t, FALSE) EXCEPT !.reconciled = TRUE] ELSE t

\* RoomEvent.Disconnected: this identity joined elsewhere, or the room is lost.
RoomDisconnected(j, duplicate) ==
    LET lost == Closed(tab, j)
        moved == IF duplicate /\ lost.room = j THEN MovedAway(lost) ELSE lost
    IN
    /\ tab.media[j] \in {"connecting", "connected"}
    /\ duplicate => rival
    /\ Spend("lost")
    /\ tab' = FinalDisconnect(moved, moved.room = j)
    /\ UNCHANGED <<join, pending, mounted, down, session, rival>>

-----------------------------------------------------------------------------
(* The events the tab receives *)

\* The server's VoiceStateUpdate without a channel for this account: the
\* store forgets the call; the hook follows in its effect.
MirrorDeparture ==
    /\ down # <<>> /\ Head(down) = "left"
    /\ down' = Tail(down)
    /\ tab' = [tab EXCEPT !.mirror = None]
    /\ UNCHANGED <<join, pending, mounted, session, rival, spent>>

FollowMirror ==
    /\ mounted /\ tab.joined # None /\ tab.mirror = None
    /\ tab' = LeaveVoice(tab, FALSE)
    /\ UNCHANGED <<join, pending, mounted, down, session, rival, spent>>

VoiceSessionMoved ==
    /\ down # <<>> /\ Head(down) = "moved"
    /\ down' = Tail(down)
    /\ tab' = IF mounted THEN MovedAway(tab) ELSE tab
    /\ UNCHANGED <<join, pending, mounted, session, rival, spent>>

SocketDrops ==
    /\ tab.online
    /\ Spend("drop")
    /\ tab' = [tab EXCEPT !.online = FALSE, !.up = <<>>]
    /\ down' = <<>>
    /\ session' = [session EXCEPT !.at = IF @ = "here" THEN "old" ELSE @]
    /\ UNCHANGED <<join, pending, mounted, rival>>

\* Slip: the call is not announced again on the new connection.
SocketReopensSilently ==
    /\ ~tab.online
    /\ tab' = [tab EXCEPT !.online = TRUE]
    /\ UNCHANGED <<join, pending, mounted, down, session, rival, spent>>

\* resyncVoiceStateAfterReconnect on the new connection.
SocketReopens ==
    LET open == [tab EXCEPT !.online = TRUE] IN
    /\ ~tab.online
    /\ tab' = IF mounted /\ tab.joined # None /\ tab.room # None /\ tab.media[tab.room] # "gone"
              THEN Send(open, "join", tab.joined) ELSE open
    /\ UNCHANGED <<join, pending, mounted, down, session, rival, spent>>

-----------------------------------------------------------------------------
(* The server, external to this module: see VoiceCluster *)

Tell(event) == down' = IF tab.online THEN Append(down, event) ELSE down

ServerReceives ==
    /\ tab.up # <<>>
    /\ tab' = [tab EXCEPT !.up = Tail(@)]
    /\ IF Head(tab.up).type = "join"
       THEN /\ session' = [at |-> "here", channel |-> Head(tab.up).channel]
            /\ UNCHANGED down
       ELSE IF session.at = "here"
       THEN /\ session' = NoSession
            /\ Tell("left")
       ELSE UNCHANGED <<session, down>>
    /\ UNCHANGED <<join, pending, mounted, rival, spent>>

\* The server notices that the old connection is gone.
ServerForgets ==
    /\ session.at = "old"
    /\ session' = NoSession
    /\ Tell("left")
    /\ UNCHANGED <<tab, join, pending, mounted, rival, spent>>

\* Another device of the account joins voice: LiveKit sees it first, then the
\* server, unless its join fails; it may leave again.
ElsewhereConnects ==
    /\ ~rival
    /\ Spend("elsewhere")
    /\ rival' = TRUE
    /\ UNCHANGED <<tab, join, pending, mounted, down, session>>

ElsewhereJoins(c) ==
    /\ rival /\ session.at # "elsewhere"
    /\ session' = [at |-> "elsewhere", channel |-> c]
    /\ IF session.at = "here" THEN Tell("moved") ELSE UNCHANGED down
    /\ UNCHANGED <<tab, join, pending, mounted, rival, spent>>

ElsewhereFails ==
    /\ rival /\ session.at # "elsewhere"
    /\ rival' = FALSE
    /\ UNCHANGED <<tab, join, pending, mounted, down, session, spent>>

ElsewhereLeaves ==
    /\ session.at = "elsewhere"
    /\ session' = NoSession
    /\ rival' = FALSE
    /\ Tell("left")
    /\ UNCHANGED <<tab, join, pending, mounted, spent>>

\* A moderator disconnects the member, or the channel goes away.
ServerRevokes ==
    /\ session.at = "here"
    /\ Spend("revoke")
    /\ session' = NoSession
    /\ Tell("left")
    /\ UNCHANGED <<tab, join, pending, mounted, rival>>

-----------------------------------------------------------------------------

Init ==
    /\ tab = [joined |-> None, joining |-> FALSE, owner |-> None, room |-> None,
              raw |-> None, cached |-> None, capture |-> None, mirror |-> None,
              reconciled |-> FALSE, live |-> {}, media |-> [j \in Joins |-> "none"],
              online |-> TRUE, up |-> <<>>]
    /\ join = [j \in Joins |-> [step |-> "idle", channel |-> None, current |-> FALSE]]
    /\ pending = FALSE
    /\ mounted = TRUE
    /\ down = <<>>
    /\ session = NoSession
    /\ rival = FALSE
    /\ spent = [what \in Spendable |-> 0]

\* What joinVoice does on its own once it has a stream or asked for one.
JoinStep(j) ==
    \/ CaptureMicrophone(j) \/ Prepare(j) \/ BuildTrack(j) \/ TokenReceived(j)
    \/ TurnReceived(j) \/ RoomConnected(j) \/ Published(j) \/ JoinFails(j)
    \/ CancelClosed(j) \/ Released(j)

User ==
    \/ \E j \in Joins, c \in Channels : AskMicrophone(j, c) \/ MoveVoice(j, c)
    \/ \E j \in Joins : MicrophoneGranted(j) \/ MicrophoneDenied(j)
    \/ Leave \/ Navigate \/ Unmount \/ Unplug

Events == MirrorDeparture \/ FollowMirror \/ VoiceSessionMoved \/ SocketDrops \/ SocketReopens

Server ==
    \/ ServerReceives \/ ServerForgets \/ ServerRevokes
    \/ ElsewhereConnects \/ ElsewhereFails \/ ElsewhereLeaves
    \/ \E c \in Channels : ElsewhereJoins(c)

Next ==
    \/ User
    \/ \E j \in Joins : JoinStep(j) \/ \E duplicate \in BOOLEAN : RoomDisconnected(j, duplicate)
    \/ Events
    \/ Server

Spec == Init /\ [][Next]_vars

\* Every await of joinVoice settles: LiveKit's connect has a timer, requests
\* have deadlines.  The permission prompt has none, and the user owes nothing.
Fairness == \A j \in Joins : WF_vars(JoinStep(j))
FairSpec == Spec /\ Fairness

-----------------------------------------------------------------------------
(* Properties *)

TypeOK ==
    /\ tab \in TabStates
    /\ join \in [Joins -> JoinStates]
    /\ pending \in BOOLEAN
    /\ mounted \in BOOLEAN
    /\ down \in Seq({"left", "moved"})
    /\ session \in Sessions
    /\ rival \in BOOLEAN
    /\ spent \in [Spendable -> Nat]

\* A microphone that runs belongs to the call the tab is in or to a join that
\* has not settled: no order of leaves, failures, late permissions and
\* takeovers leaves a capture running that nothing will stop.
MicrophoneIsOwned ==
    \A j \in tab.live : Suspended(j) \/ (tab.joined # None /\ j \in {tab.raw, tab.cached})

\* A tab that is in voice has its own LiveKit room, connected, and no other
\* room of the tab is: a join that settles late never takes the room of a
\* newer call down, or leaves one behind.
CallHasItsRoom ==
    /\ tab.joined # None => tab.room # None /\ tab.media[tab.room] = "connected"
    /\ \A j \in Joins : tab.media[j] = "connected" => tab.room = j

\* Everything sent has arrived and the hook has followed the store.
Quiet ==
    /\ tab.online /\ tab.up = <<>> /\ down = <<>>
    /\ mounted /\ tab.joined # None => tab.mirror # None

\* As long as no other device of the account joins voice, the server, once
\* everything sent has arrived, lists the account in this tab's channel
\* exactly when the tab is in a call.
ServerAgrees ==
    Quiet /\ mounted /\ spent["elsewhere"] = 0 =>
        IF tab.joined = None THEN session.at # "here"
        ELSE session = [at |-> "here", channel |-> tab.joined]

\* A tab that left without a word to the server left the account in voice on
\* the other device: once all is quiet, the server lists nobody who is in no
\* call.
NoGhost == Quiet /\ tab.joined = None /\ ~rival => session.at # "here"

\* The mirrored departure ends the call only when the server has ended the
\* session of that call.
DepartureIsOfThisCall ==
    [][FollowMirror => session # [at |-> "here", channel |-> tab.joined]]_vars

\* Every join settles, so the join button always becomes usable again.
JoinSettles == \A j \in Joins : Suspended(j) ~> join[j].step = "done"

\* The request as the user sees it: open until it is cancelled or fails.
Request ==
    IF \A j \in Joins : ~Active(j) THEN "none"
    ELSE IF \E j \in Joins : \/ join[j].step = "prompt" /\ join[j].current /\ mounted
                            \/ /\ Suspended(j) /\ tab.owner = j
                               /\ join[j].step \notin {"closing", "releasing"}
    THEN "open" ELSE "dropped"

\* Promise: what CallPromise says of a call, its request and the microphone.
Promise == INSTANCE CallPromise WITH
               call <- tab.joined, request <- Request, mic <- tab.live # {}

\* The tab's call implements CallPromise: whatever the order of answers,
\* leaves, disconnects and takeovers, a request that was dropped never turns
\* into a call, and an open microphone belongs to one or closes.
KeepsPromise == Promise!Spec
=============================================================================
