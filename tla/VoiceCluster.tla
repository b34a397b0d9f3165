---------------------------- MODULE VoiceCluster ----------------------------
(***************************************************************************)
(* Which connection holds a user's voice session, on every backend         *)
(* instance at once (apps/server/src/ws/cluster.rs, the voice half of      *)
(* ws/handler.rs, join_voice and leave_voice of ws/voice_commands.rs and   *)
(* clear_local_voice_session of services/voice_revoke.rs).                 *)
(*                                                                         *)
(* voice_sessions, voice_session_connections and Peers are three           *)
(* concurrent maps without a common lock, and the runtime has several      *)
(* threads: an access to one map is one step, and the tasks of an instance *)
(* interleave between any two.  apply_peer_event alone holds an entry of   *)
(* Peers while it writes the others.  A change is announced after awaits   *)
(* of Redis or PostgreSQL (Publish).  Redis Pub/Sub is one FIFO inbox per  *)
(* instance; a message is lost for an instance whose subscription is down. *)
(*                                                                         *)
(* Not here: the maps that only follow a session (controls, participant    *)
(* SIDs, screen-share viewers, channel start times) and LiveKit.           *)
(***************************************************************************)
EXTENDS Naturals, Sequences, FiniteSets

CONSTANTS
    Instances,    \* instance ids; one that stopped never comes back (a restart draws a new id)
    Initial,      \* the instances running at the start
    InitialAt,    \* the sockets open at the start: [Connections -> Instances \cup {None}]
    Users,
    Channels,
    Connections,  \* WebSocket connection ids
    Owner,        \* the account a connection is authenticated as
    None,
    Limit,        \* bound: how often each of Budgets may happen
    Syncing,      \* bound: the instances whose periodic sync falls due
    MaxInbox      \* bound: undelivered bus messages of one instance

\* What users, moderators, the network and the machines do only so often:
\* sockets opened, voice joins, removals by moderation or the LiveKit webhook,
\* bus deliveries lost, instances that stop, miss their heartbeats or cannot
\* reach Redis.
Budgets == {"connect", "join", "revoke", "loss", "failure"}

ASSUME OwnerAssumption == Owner \in [Connections -> Users]
ASSUME InstancesAssumption == IsFiniteSet(Instances)
ASSUME InitialAssumption ==
    /\ Initial \subseteq Instances
    /\ InitialAt \in [Connections -> Initial \cup {None}]
ASSUME NoneAssumption ==
    /\ None \notin Instances \cup Users \cup Channels \cup Connections
    /\ None \notin [Users -> Channels \cup {None}]
ASSUME BoundAssumption ==
    Limit \in [Budgets -> Nat] /\ MaxInbox \in Nat

VARIABLES
    up,          \* running instances
    dead,        \* instances that stopped
    at,          \* the instance a connection's socket is on
    sock,        \* where the connection's handler is in its life
    voice,       \* voice_sessions: the channel each instance believes the user is in
    holder,      \* voice_session_connections: the local connection holding the session
    peerVoice,   \* Peer::voice, per instance and peer
    absent,      \* Peer::absent_voice
    reported,    \* the peers whose Peer::reported is set
    removing,    \* users whose session was removed, whose holder not yet
    publishing,  \* announcements a handler has yet to make
    inbox,       \* bus messages an instance has yet to apply
    bridge,      \* where the bridge task is in the first of them
    snap,        \* the instance's snapshot in Redis (voice entries)
    sync,        \* where the instance's periodic sync is
    spent,       \* how much of each budget is used
    crossed      \* history: where two handlers of one user met between two accesses

vars == <<up, dead, at, sock, voice, holder, peerVoice, absent, reported, removing,
          publishing, inbox, bridge, snap, sync, spent, crossed>>

peers == <<peerVoice, absent, reported>>
machines == <<up, dead>>
sockets == <<at, sock>>
bus == <<publishing, inbox>>
redis == <<snap, sync>>

-----------------------------------------------------------------------------
(* Types *)

Sessions == [Users -> Channels \cup {None}]

\* VoiceStateUpdate.  why and by are history: what caused it, and whose
\* session it was about; only the task that owes the announcement is read
\* from them.
Events == [from : Instances, user : Users, channel : Channels \cup {None},
           why : {"join", "leave", "close", "revoke"},
           by : Connections \cup {None}]

\* Where a connection's handler is.  Its receive task: open (between two
\* messages or at an await), joining (session written, holder not), leaving
\* (holder asked), left (holder removed).  Its cleanup: closing, closing_last
\* (the user's last here), unheld (it held nothing), alone (nobody here did),
\* ending (the session is to be removed).
Running == {"open", "joining", "leaving", "left"}
Cleaning == {"closing", "closing_last", "unheld", "alone", "ending"}

\* Where sync_peers is.  own: the snapshot to write; todo: the instances yet
\* to read; alive: the snapshots read; gone: the peers to forget; peer: the
\* one being reconciled; users: those whose session is to be forgotten; user:
\* the one at hand; held: the part of Peer::voice taken out of the map.
SyncStages == {"idle", "write", "read", "next", "users", "ask", "remove", "unhold",
               "merge", "insert"}
SyncStates == [stage : SyncStages, own : Sessions, todo : SUBSET Instances,
               alive : [Instances -> Sessions \cup {None}], gone : SUBSET Instances,
               peer : Instances \cup {None}, users : SUBSET Users,
               user : Users \cup {None}, held : SUBSET Users]

NoSessions == [u \in Users |-> None]
NoPeers == [p \in Instances |-> {}]

SyncIdle == [stage |-> "idle", own |-> NoSessions, todo |-> {},
             alive |-> [p \in Instances |-> None], gone |-> {}, peer |-> None,
             users |-> {}, user |-> None, held |-> {}]

TypeOK ==
    /\ up \subseteq Instances
    /\ dead \subseteq Instances
    /\ at \in [Connections -> Instances \cup {None}]
    /\ sock \in [Connections -> {"none"} \cup Running \cup Cleaning]
    /\ voice \in [Instances -> Sessions]
    /\ holder \in [Instances -> [Users -> Connections \cup {None}]]
    /\ peerVoice \in [Instances -> [Instances -> SUBSET Users]]
    /\ absent \in [Instances -> [Instances -> SUBSET Users]]
    /\ reported \in [Instances -> SUBSET Instances]
    /\ removing \in [Instances -> SUBSET Users]
    /\ publishing \subseteq Events
    /\ inbox \in [Instances -> Seq(Events)]
    /\ bridge \in [Instances -> {"idle", "joined", "forgets", "forgot"}]
    /\ snap \in [Instances -> Sessions \cup {None}]
    /\ sync \in [Instances -> SyncStates]
    /\ spent \in [Budgets -> Nat]
    /\ crossed \subseteq Instances \X Users

Init ==
    /\ up = Initial
    /\ dead = {}
    /\ at = InitialAt
    /\ sock = [c \in Connections |-> IF InitialAt[c] = None THEN "none" ELSE "open"]
    /\ voice = [i \in Instances |-> NoSessions]
    /\ holder = [i \in Instances |-> NoSessions]
    /\ peerVoice = [i \in Instances |-> NoPeers]
    /\ absent = [i \in Instances |-> NoPeers]
    /\ reported = [i \in Instances |-> {}]
    /\ removing = [i \in Instances |-> {}]
    /\ publishing = {}
    /\ inbox = [i \in Instances |-> <<>>]
    /\ bridge = [i \in Instances |-> "idle"]
    /\ snap = [i \in Instances |-> None]
    /\ sync = [i \in Instances |-> SyncIdle]
    /\ spent = [b \in Budgets |-> 0]
    /\ crossed = {}

-----------------------------------------------------------------------------
(* Helpers *)

Spend(budget, n) ==
    /\ spent[budget] + n <= Limit[budget]
    /\ spent' = [spent EXCEPT ![budget] = @ + n]

\* state.sessions: the user's registered connections on the instance.
OpenAt(i, u) == {c \in Connections : Owner[c] = u /\ at[c] = i /\ sock[c] \in Running}

\* Peers::holds_voice.  The scan waits for an entry that is being written.
PeersHoldVoice(i, u) == \E p \in Instances : u \in peerVoice[i][p]

\* Nobody holds an entry of the instance's Peers.
PeersFree(i) == bridge[i] # "joined"

\* The connection's receive task handles one message at a time.
Busy(c) == \E e \in publishing : e.by = c /\ e.why \in {"join", "leave"}

\* Slip: any connection may end the session.
MayLeaveAlways(i, u, c) == TRUE

\* leave_voice's test: nobody on the instance holds the session, or c does.
MayLeave(i, u, c) == holder[i][u] \in {None, c}

\* Slip: voice ends with the last connection only.
HoldsLast(i, u, c) == holder[i][u] = c /\ sock[c] = "closing_last"

\* remove_if's test: c holds the session.
Holds(i, u, c) == holder[i][u] = c

\* The connection holding the user's session, unless none or several do.
SoleHolder(u) ==
    LET holders == {holder[i][u] : i \in up} \ {None}
    IN  IF Cardinality(holders) = 1 THEN CHOOSE c \in holders : TRUE ELSE None

\* A write or removal of one entry.
SetVoice(i, u, ch) == voice' = [voice EXCEPT ![i][u] = ch]
SetHolder(i, u, c) == holder' = [holder EXCEPT ![i][u] = c]

\* The announcement handler c (or None) owes.
Announce(i, u, ch, why, c) ==
    publishing' = publishing \cup {[from |-> i, user |-> u, channel |-> ch,
                                    why |-> why, by |-> c]}

-----------------------------------------------------------------------------
(* Instances *)

\* A process starts: empty maps, subscribed to the bus, first sync due.
Start(i) ==
    /\ i \notin up \cup dead
    /\ up' = up \cup {i}
    /\ UNCHANGED <<dead, sockets, voice, holder, peers, removing, bus, bridge, redis,
                   spent>>

\* A process stops without cleanup.  What it published is on its way; its
\* snapshot stays in Redis until it expires.
Crash(i) ==
    /\ i \in up
    /\ Spend("failure", 1)
    /\ up' = up \ {i}
    /\ dead' = dead \cup {i}
    /\ at' = [c \in Connections |-> IF at[c] = i THEN None ELSE at[c]]
    /\ sock' = [c \in Connections |-> IF at[c] = i THEN "none" ELSE sock[c]]
    /\ voice' = [voice EXCEPT ![i] = NoSessions]
    /\ holder' = [holder EXCEPT ![i] = NoSessions]
    /\ peerVoice' = [peerVoice EXCEPT ![i] = NoPeers]
    /\ absent' = [absent EXCEPT ![i] = NoPeers]
    /\ reported' = [reported EXCEPT ![i] = {}]
    /\ removing' = [removing EXCEPT ![i] = {}]
    /\ publishing' = {e \in publishing : e.from # i}
    /\ inbox' = [inbox EXCEPT ![i] = <<>>]
    /\ bridge' = [bridge EXCEPT ![i] = "idle"]
    /\ sync' = [sync EXCEPT ![i] = SyncIdle]
    /\ UNCHANGED snap

\* INSTANCE_EXPIRY passed since the instance wrote its snapshot: it stopped,
\* or it could not reach Redis for that long.  snap stands for the key and
\* for the instance's entry in the index, which age together.
Expire(i) ==
    /\ snap[i] # None
    /\ Spend("failure", IF i \in dead THEN 0 ELSE 1)
    /\ snap' = [snap EXCEPT ![i] = None]
    /\ UNCHANGED <<machines, sockets, voice, holder, peers, removing, bus, bridge, sync>>

-----------------------------------------------------------------------------
(* Connections *)

\* handle_socket registers the session.
Connect(c, i) ==
    /\ i \in up
    /\ sock[c] = "none"
    /\ Spend("connect", 1)
    /\ \A e \in publishing : e.by # c
    /\ at' = [at EXCEPT ![c] = i]
    /\ sock' = [sock EXCEPT ![c] = "open"]
    /\ UNCHANGED <<machines, voice, holder, peers, removing, bus, bridge, redis>>

\* The socket ends: both tasks are aborted at the await they are at (there is
\* none between two accesses), so an announcement of the receive task is never
\* made; the session leaves state.sessions and presence is published.
Disconnect(c) ==
    LET i == at[c] IN
    /\ sock[c] = "open"
    /\ sock' = [sock EXCEPT ![c] = IF OpenAt(i, Owner[c]) = {c}
                                   THEN "closing_last" ELSE "closing"]
    /\ publishing' = {e \in publishing : ~(e.by = c /\ e.why \in {"join", "leave"})}
    /\ UNCHANGED <<machines, at, voice, holder, peers, removing, inbox, bridge, redis,
                   spent>>

\* The handler is over; the connection id is not used again before its last
\* announcement is made.
Gone(c) ==
    /\ sock' = [sock EXCEPT ![c] = "none"]
    /\ at' = [at EXCEPT ![c] = None]

\* The second half of the cleanup, remove_if: a connection that holds the
\* session gives it up; only the user's last looks further.
EndHolder(c) ==
    LET i == at[c]
        u == Owner[c]
    IN
    /\ sock[c] \in {"closing", "closing_last"}
    /\ IF Holds(i, u, c)
       THEN /\ SetHolder(i, u, None)
            /\ sock' = [sock EXCEPT ![c] = "ending"]
            /\ UNCHANGED at
       ELSE /\ IF sock[c] = "closing"
               THEN Gone(c)
               ELSE sock' = [sock EXCEPT ![c] = "unheld"] /\ UNCHANGED at
            /\ UNCHANGED holder
    /\ UNCHANGED <<machines, voice, peers, removing, bus, bridge, redis, spent>>

\* contains_key: does another connection of this instance hold it?
AskHolder(c) ==
    LET i == at[c] IN
    /\ sock[c] = "unheld"
    /\ IF holder[i][Owner[c]] # None
       THEN Gone(c)
       ELSE sock' = [sock EXCEPT ![c] = "alone"] /\ UNCHANGED at
    /\ UNCHANGED <<machines, voice, holder, peers, removing, bus, bridge, redis, spent>>

\* holds_voice: does one of another instance?
AskPeers(c) ==
    LET i == at[c] IN
    /\ sock[c] = "alone"
    /\ PeersFree(i)
    /\ IF PeersHoldVoice(i, Owner[c])
       THEN Gone(c)
       ELSE sock' = [sock EXCEPT ![c] = "ending"] /\ UNCHANGED at
    /\ UNCHANGED <<machines, voice, holder, peers, removing, bus, bridge, redis, spent>>

\* Voice ends with the connection, and with a session its announcement.
EndVoice(c) ==
    LET i == at[c]
        u == Owner[c]
    IN
    /\ sock[c] = "ending"
    /\ Gone(c)
    /\ SetVoice(i, u, None)
    /\ IF voice[i][u] # None THEN Announce(i, u, None, "close", c) ELSE UNCHANGED publishing
    /\ UNCHANGED <<machines, holder, peers, removing, inbox, bridge, redis, spent>>

\* join_voice from its first insert on; the access checks before it are awaits
\* that change nothing.  The last join takes the session over.
JoinVoice(c, ch) ==
    LET i == at[c]
        u == Owner[c]
    IN
    /\ sock[c] = "open"
    /\ ~Busy(c)
    /\ Spend("join", 1)
    /\ SetVoice(i, u, ch)
    /\ sock' = [sock EXCEPT ![c] = "joining"]
    /\ Announce(i, u, ch, "join", c)
    /\ UNCHANGED <<machines, at, holder, peers, removing, inbox, bridge, redis>>

\* Its second insert: the connection holds the session.
JoinVoiceHolder(c) ==
    /\ sock[c] = "joining"
    /\ SetHolder(at[c], Owner[c], c)
    /\ sock' = [sock EXCEPT ![c] = "open"]
    /\ UNCHANGED <<machines, at, voice, peers, removing, bus, bridge, redis, spent>>

\* leave_voice asks for the holder, and is refused when another connection of
\* this instance holds the session.
LeaveVoice(c) ==
    /\ sock[c] = "open"
    /\ ~Busy(c)
    /\ MayLeave(at[c], Owner[c], c)
    /\ sock' = [sock EXCEPT ![c] = "leaving"]
    /\ UNCHANGED <<machines, at, voice, holder, peers, removing, bus, bridge, redis, spent>>

\* It removes the holder, whoever that is by now ...
LeaveVoiceHolder(c) ==
    /\ sock[c] = "leaving"
    /\ SetHolder(at[c], Owner[c], None)
    /\ sock' = [sock EXCEPT ![c] = "left"]
    /\ UNCHANGED <<machines, at, voice, peers, removing, bus, bridge, redis, spent>>

\* ... and the session, and announces it when there was one.
LeaveVoiceSession(c) ==
    LET i == at[c]
        u == Owner[c]
    IN
    /\ sock[c] = "left"
    /\ SetVoice(i, u, None)
    /\ sock' = [sock EXCEPT ![c] = "open"]
    /\ IF voice[i][u] # None THEN Announce(i, u, None, "leave", c) ELSE UNCHANGED publishing
    /\ UNCHANGED <<machines, at, holder, peers, removing, inbox, bridge, redis, spent>>

\* clear_local_voice_session on an instance that knows the session: a
\* moderator's disconnect (in the moderator's receive task), lost access or a
\* deleted channel (in a request's), LiveKit's participant_left (in the
\* webhook's).  remove_if takes the session of that channel; one such removal
\* of a user is under way at a time.  Aborted before its announcement, it is
\* one that every other instance loses (Publish).
ClearLocalVoiceSession(i, u) ==
    /\ i \in up
    /\ voice[i][u] # None
    /\ Spend("revoke", 1)
    /\ \A e \in publishing : ~(e.from = i /\ e.user = u /\ e.why = "revoke")
    /\ SetVoice(i, u, None)
    /\ removing' = [removing EXCEPT ![i] = @ \cup {u}]
    /\ Announce(i, u, None, "revoke", SoleHolder(u))
    /\ UNCHANGED <<machines, sockets, holder, peers, inbox, bridge, redis>>

\* ... and the holder with it.
ClearHolder(i, u) ==
    /\ u \in removing[i]
    /\ SetHolder(i, u, None)
    /\ removing' = [removing EXCEPT ![i] = @ \ {u}]
    /\ UNCHANGED <<machines, sockets, voice, peers, bus, bridge, redis, spent>>

-----------------------------------------------------------------------------
(* The bus *)

\* The handler that owes e is past its accesses.
Due(e) ==
    CASE e.why = "join" -> sock[e.by] # "joining"
      [] e.why = "revoke" -> e.user \notin removing[e.from]
      [] OTHER -> TRUE

\* publish_event: local clients at once, the other instances through Redis.
\* Those in cut have no subscription at that moment.
Publish(e) ==
    LET others == up \ {e.from} IN
    \E cut \in SUBSET others :
        /\ e \in publishing
        /\ Due(e)
        /\ \A j \in others \ cut : Len(inbox[j]) < MaxInbox
        /\ Spend("loss", Cardinality(cut))
        /\ publishing' = publishing \ {e}
        /\ inbox' = [j \in Instances |-> IF j \in others \ cut
                                         THEN Append(inbox[j], e) ELSE inbox[j]]
        /\ UNCHANGED <<machines, sockets, voice, holder, peers, removing, bridge, redis>>

\* The bridge task is done with the first event.
NextEvent(i) ==
    /\ inbox' = [inbox EXCEPT ![i] = Tail(@)]
    /\ bridge' = [bridge EXCEPT ![i] = "idle"]

\* apply_peer_event, VoiceStateUpdate with a channel: the session is the
\* peer's now ...
ApplyJoin(i) ==
    LET e == Head(inbox[i]) IN
    /\ i \in up
    /\ inbox[i] # <<>> /\ bridge[i] = "idle"
    /\ e.channel # None
    /\ SetVoice(i, e.user, e.channel)
    /\ bridge' = [bridge EXCEPT ![i] = "joined"]
    /\ UNCHANGED <<machines, sockets, holder, peers, removing, bus, redis, spent>>

\* ... and a local holder loses it.  The peer's entry, held since before the
\* first write, is released with what was written to it.
ApplyJoinHolder(i) ==
    LET e == Head(inbox[i]) IN
    /\ bridge[i] = "joined"
    /\ SetHolder(i, e.user, None)
    /\ peerVoice' = [peerVoice EXCEPT ![i][e.from] = @ \cup {e.user}]
    /\ absent' = [absent EXCEPT ![i][e.from] = @ \ {e.user}]
    /\ NextEvent(i)
    /\ UNCHANGED <<machines, sockets, voice, reported, removing, publishing, redis, spent>>

\* Slip: a departure from where the session was ends nothing, held here or not.
StaleOrigin(i, e) == e.user \in peerVoice[i][e.from]

\* The local holder keeps the session when the origin was known to hold one:
\* its departure is the old socket's.
Stale(i, e) == e.user \in peerVoice[i][e.from] /\ holder[i][e.user] # None

\* apply_peer_event, VoiceStateUpdate without a channel.  The bridge hands the
\* event to the local clients anyway.
ApplyDeparture(i) ==
    LET e == Head(inbox[i]) IN
    /\ i \in up
    /\ inbox[i] # <<>> /\ bridge[i] = "idle"
    /\ e.channel = None
    /\ peerVoice' = [peerVoice EXCEPT ![i][e.from] = @ \ {e.user}]
    /\ IF Stale(i, e) THEN NextEvent(i)
       ELSE bridge' = [bridge EXCEPT ![i] = "forgets"] /\ UNCHANGED inbox
    /\ UNCHANGED <<machines, sockets, voice, holder, absent, reported, removing, publishing,
                   redis, spent>>

\* forget_voice_session: without a session it ends there ...
ApplyForgetSession(i) ==
    LET u == Head(inbox[i]).user IN
    /\ bridge[i] = "forgets"
    /\ SetVoice(i, u, None)
    /\ IF voice[i][u] = None THEN NextEvent(i)
       ELSE bridge' = [bridge EXCEPT ![i] = "forgot"] /\ UNCHANGED inbox
    /\ UNCHANGED <<machines, sockets, holder, peers, removing, publishing, redis, spent>>

\* ... and with one it removes the holder too.
ApplyForgetHolder(i) ==
    /\ bridge[i] = "forgot"
    /\ SetHolder(i, Head(inbox[i]).user, None)
    /\ NextEvent(i)
    /\ UNCHANGED <<machines, sockets, voice, peers, removing, publishing, redis, spent>>

Bridge(i) ==
    \/ ApplyJoin(i) \/ ApplyJoinHolder(i)
    \/ ApplyDeparture(i) \/ ApplyForgetSession(i) \/ ApplyForgetHolder(i)

-----------------------------------------------------------------------------
(* The periodic sync *)

\* Slip: the snapshot carries the holder instead of the channel.
LocalSnapshotOfHolders(i) == [u \in Users |-> holder[i][u]]

\* local_snapshot: the sessions whose connection is here.  A holder's entry is
\* held while its session is read.
LocalSnapshot(i) ==
    [u \in Users |-> IF holder[i][u] # None THEN voice[i][u] ELSE None]

\* What the sync does next without another access: from a loop that is through
\* to the one after it, or to its end.
Rest(s) ==
    LET looped == s.stage = "users" /\ s.users = {}
        peersLeft == \/ s.stage = "next"
                     \/ s.stage = "read" /\ s.todo = {}
                     \/ looped /\ s.peer = None
    IN  IF peersLeft /\ s.gone = {} /\ (\A p \in Instances : s.alive[p] = None) THEN SyncIdle
        ELSE IF looped THEN [s EXCEPT !.stage = IF s.peer = None THEN "next" ELSE "merge"]
        ELSE s

\* The sync of the instance comes to s.
SetSync(i, s) == sync' = [sync EXCEPT ![i] = s]

\* sync_peers reads the own snapshot ...
SyncBegin(i) ==
    /\ i \in up \cap Syncing
    /\ sync[i].stage = "idle"
    /\ SetSync(i, [sync[i] EXCEPT !.stage = "write", !.own = LocalSnapshot(i)])
    /\ UNCHANGED <<machines, sockets, voice, holder, peers, removing, bus, bridge, snap,
                   spent>>

\* ... writes it ...
SyncWrite(i) ==
    /\ sync[i].stage = "write"
    /\ snap' = [snap EXCEPT ![i] = sync[i].own]
    /\ SetSync(i, Rest([SyncIdle EXCEPT !.stage = "read", !.todo = Instances \ {i}]))
    /\ UNCHANGED <<machines, sockets, voice, holder, peers, removing, bus, bridge, spent>>

\* Slip: a stopped peer is never forgotten.
GonePeersNone(i, alive, late) == {}

\* The peers to forget: no snapshot was read, and the peer reported once or
\* was first seen longer ago than the expiry.  A stopped instance without a
\* snapshot is that old; a running one writes its first on start, so only one
\* that could not (late) is.
GonePeers(i, alive, late) ==
    {p \in Instances \ {i} : alive[p] = None /\ p \in reported[i] \cup dead \cup late}

\* ... and reads the others', each when the answer of Redis comes.  With the
\* last it knows the peers that are gone: it alone writes their reported.
SyncRead(i, p) ==
    LET alive == [sync[i].alive EXCEPT ![p] = snap[p]] IN
    /\ sync[i].stage = "read" /\ p \in sync[i].todo
    /\ IF sync[i].todo # {p}
       THEN /\ SetSync(i, [sync[i] EXCEPT !.todo = @ \ {p}, !.alive = alive])
            /\ UNCHANGED spent
       ELSE \E late \in SUBSET (up \ (reported[i] \cup {i})) :
              /\ Spend("failure", Cardinality(late))
              /\ SetSync(i, Rest([sync[i] EXCEPT
                               !.stage = "next", !.todo = {}, !.alive = alive,
                               !.gone = GonePeers(i, alive, late)]))
    /\ UNCHANGED <<machines, sockets, voice, holder, peers, removing, bus, bridge, snap>>

\* Redis does not answer: the rest waits for the next interval.
SyncFails(i) ==
    /\ sync[i].stage \in {"write", "read"}
    /\ Spend("failure", 1)
    /\ SetSync(i, SyncIdle)
    /\ UNCHANGED <<machines, sockets, voice, holder, peers, removing, bus, bridge, snap>>

\* forget_peer takes the peer out of the map, and then looks at its sessions.
ForgetPeer(i, p) ==
    /\ sync[i].stage = "next" /\ p \in sync[i].gone
    /\ PeersFree(i)
    /\ peerVoice' = [peerVoice EXCEPT ![i][p] = {}]
    /\ absent' = [absent EXCEPT ![i][p] = {}]
    /\ reported' = [reported EXCEPT ![i] = @ \ {p}]
    /\ SetSync(i, Rest([sync[i] EXCEPT !.stage = "users", !.gone = @ \ {p},
                                       !.users = peerVoice[i][p]]))
    /\ UNCHANGED <<machines, sockets, voice, holder, removing, bus, bridge, snap, spent>>

\* The sessions the peer's snapshot misses, and those the last read missed too.
Missing(i, p) == {u \in peerVoice[i][p] : sync[i].alive[p][u] = None}

\* Slip: what a snapshot misses is never dropped.
GoneSessionsNone(i, p) == {}

GoneSessions(i, p) == Missing(i, p) \cap absent[i][p]

\* reconcile_peer: a session that two reads in a row missed is gone; what is
\* left of Peer::voice is taken out of the map.
ReconcileTake(i, p) ==
    LET gone == GoneSessions(i, p) IN
    /\ sync[i].stage = "next" /\ sync[i].gone = {}
    /\ sync[i].alive[p] # None
    /\ PeersFree(i)
    /\ reported' = [reported EXCEPT ![i] = @ \cup {p}]
    /\ absent' = [absent EXCEPT ![i][p] = Missing(i, p) \ gone]
    /\ peerVoice' = [peerVoice EXCEPT ![i][p] = {}]
    /\ SetSync(i, Rest([sync[i] EXCEPT !.stage = "users", !.peer = p, !.users = gone,
                                       !.held = peerVoice[i][p] \ gone]))
    /\ UNCHANGED <<machines, sockets, voice, holder, removing, bus, bridge, snap, spent>>

\* Both go through their users: one who holds the session here is passed over.
\* forget_peer (no peer at hand) asks the other peers too.
ForgetUser(i, u) ==
    /\ sync[i].stage = "users" /\ u \in sync[i].users
    /\ IF holder[i][u] # None
       THEN SetSync(i, Rest([sync[i] EXCEPT !.users = @ \ {u}]))
       ELSE SetSync(i, [sync[i] EXCEPT !.users = @ \ {u}, !.user = u,
                             !.stage = IF sync[i].peer = None THEN "ask" ELSE "remove"])
    /\ UNCHANGED <<machines, sockets, voice, holder, peers, removing, bus, bridge, snap,
                   spent>>

\* The user at hand is done with.
NextUser(i) == SetSync(i, Rest([sync[i] EXCEPT !.stage = "users", !.user = None]))

ForgetAsks(i) ==
    /\ sync[i].stage = "ask"
    /\ PeersFree(i)
    /\ IF PeersHoldVoice(i, sync[i].user)
       THEN NextUser(i)
       ELSE SetSync(i, [sync[i] EXCEPT !.stage = "remove"])
    /\ UNCHANGED <<machines, sockets, voice, holder, peers, removing, bus, bridge, snap,
                   spent>>

\* forget_voice_session, in its two accesses.
ForgetSession(i) ==
    LET u == sync[i].user IN
    /\ sync[i].stage = "remove"
    /\ SetVoice(i, u, None)
    /\ IF voice[i][u] = None
       THEN NextUser(i)
       ELSE SetSync(i, [sync[i] EXCEPT !.stage = "unhold"])
    /\ UNCHANGED <<machines, sockets, holder, peers, removing, bus, bridge, snap, spent>>

ForgetHolder(i) ==
    /\ sync[i].stage = "unhold"
    /\ SetHolder(i, sync[i].user, None)
    /\ NextUser(i)
    /\ UNCHANGED <<machines, sockets, voice, peers, removing, bus, bridge, snap, spent>>

\* The snapshots without the entry just handled.
Dropped(alive, p, u) == [alive EXCEPT ![p][u] = None]

\* The snapshot's next entry, unless the user holds the session here ...
MergeEntry(i, u) ==
    LET p == sync[i].peer IN
    /\ sync[i].stage = "merge" /\ sync[i].alive[p][u] # None
    /\ IF holder[i][u] # None
       THEN SetSync(i, [sync[i] EXCEPT !.alive = Dropped(@, p, u)])
       ELSE SetSync(i, [sync[i] EXCEPT !.stage = "insert", !.user = u, !.held = @ \cup {u}])
    /\ UNCHANGED <<machines, sockets, voice, holder, peers, removing, bus, bridge, snap,
                   spent>>

\* ... replaces what is known of the user.
MergeInsert(i) ==
    LET u == sync[i].user
        p == sync[i].peer
    IN
    /\ sync[i].stage = "insert"
    /\ SetVoice(i, u, sync[i].alive[p][u])
    /\ SetSync(i, [sync[i] EXCEPT !.stage = "merge", !.user = None,
                                  !.alive = Dropped(@, p, u)])
    /\ UNCHANGED <<machines, sockets, holder, peers, removing, bus, bridge, snap, spent>>

\* Slip: what was taken out of the map is not put back.
HeldByPeerNone(i) == {}

\* What reconcile_peer puts back into Peer::voice.
HeldByPeer(i) == sync[i].held

\* No entry is left: Peer::voice is put back.
MergeEnd(i) ==
    LET p == sync[i].peer IN
    /\ sync[i].stage = "merge" /\ sync[i].alive[p] = NoSessions
    /\ PeersFree(i)
    /\ peerVoice' = [peerVoice EXCEPT ![i][p] = @ \cup HeldByPeer(i)]
    /\ LET alive == [sync[i].alive EXCEPT ![p] = None] IN
       SetSync(i, Rest([sync[i] EXCEPT !.stage = "next", !.peer = None, !.held = {},
                                       !.alive = alive]))
    /\ UNCHANGED <<machines, sockets, voice, holder, absent, reported, removing, bus, bridge,
                   snap, spent>>

Sync(i) ==
    \/ SyncBegin(i) \/ SyncWrite(i)
    \/ \E p \in Instances : SyncRead(i, p) \/ ForgetPeer(i, p) \/ ReconcileTake(i, p)
    \/ \E u \in Users : ForgetUser(i, u) \/ MergeEntry(i, u)
    \/ ForgetAsks(i) \/ ForgetSession(i) \/ ForgetHolder(i)
    \/ MergeInsert(i) \/ MergeEnd(i)

-----------------------------------------------------------------------------
(* The specification *)

\* The handlers that are between two accesses to the user's entries.
Handling(i, u) ==
    {<<"socket", c>> : c \in {d \in Connections :
        /\ at[d] = i /\ Owner[d] = u
        /\ sock[d] \in {"joining", "leaving", "left", "unheld", "alone", "ending"}}}
    \cup {t \in {<<"clear", i>>} : u \in removing[i]}
    \cup {t \in {<<"bridge", i>>} : bridge[i] # "idle" /\ Head(inbox[i]).user = u}
    \cup {t \in {<<"sync", i>>} : sync[i].user = u}

\* Two handlers at once, until nothing is left of the user's session.
Crossing(i, u) == \E s, t \in Handling(i, u) : s # t
Cleared(i, u) == Handling(i, u) = {} /\ voice[i][u] = None /\ holder[i][u] = None

NoteCrossed ==
    crossed' = {k \in Instances \X Users :
                  \/ Crossing(k[1], k[2])'
                  \/ k \in crossed /\ ~Cleared(k[1], k[2])'}

\* The steps of one handler.
EndsSocket(c) == EndHolder(c) \/ AskHolder(c) \/ AskPeers(c) \/ EndVoice(c)
Leaves(c) == LeaveVoice(c) \/ LeaveVoiceHolder(c) \/ LeaveVoiceSession(c)

Step ==
    \/ \E i \in Instances : Start(i) \/ Crash(i) \/ Expire(i)
    \/ \E c \in Connections, i \in Instances : Connect(c, i)
    \/ \E c \in Connections :
        Disconnect(c) \/ EndsSocket(c) \/ JoinVoiceHolder(c) \/ Leaves(c)
    \/ \E c \in Connections, ch \in Channels : JoinVoice(c, ch)
    \/ \E i \in Instances, u \in Users : ClearLocalVoiceSession(i, u) \/ ClearHolder(i, u)
    \/ \E e \in publishing : Publish(e)
    \/ \E i \in Instances : Bridge(i) \/ Sync(i) \/ SyncFails(i)

Next == Step /\ NoteCrossed

Spec == Init /\ [][Next]_vars

\* Handlers run on, the bus delivers, every instance syncs and Redis expires
\* keys; users, moderators and failures owe nothing.
Fairness ==
    /\ \A c \in Connections :
        WF_vars(/\ \/ EndsSocket(c) \/ JoinVoiceHolder(c)
                   \/ LeaveVoiceHolder(c) \/ LeaveVoiceSession(c)
                /\ NoteCrossed)
    /\ \A i \in Instances, u \in Users : WF_vars(ClearHolder(i, u) /\ NoteCrossed)
    /\ WF_vars((\E e \in publishing : Publish(e)) /\ NoteCrossed)
    /\ \A i \in Instances :
        /\ WF_vars(i \in dead /\ Expire(i) /\ NoteCrossed)
        /\ WF_vars(Bridge(i) /\ NoteCrossed)
        /\ WF_vars(Sync(i) /\ NoteCrossed)

FairSpec == Spec /\ Fairness

-----------------------------------------------------------------------------
(* Properties *)

\* A recorded holder is a connection of that user on that instance whose
\* handler will still look at it: open, or with a cleanup that has not asked
\* for the holder yet.  However joins, takeovers, leaves, closing sockets and
\* removals interleave between the maps, no holder outlives its connection,
\* which would refuse every later leave and pass over every peer's snapshot.
HolderIsLive ==
    \A i \in Instances, u \in Users :
        LET c == holder[i][u] IN
        c # None => /\ at[c] = i /\ Owner[c] = u
                    /\ sock[c] \in {"open", "joining", "leaving", "closing", "closing_last"}

\* Every session an instance knows has somebody whose end will end it, a local
\* connection or a peer whose snapshots and expiry the instance watches, and
\* every holder has a session: otherwise the user would stay in the voice list
\* for ever, or hold nothing.  Handlers may take each other's place at every
\* await and between any two handlers; only where two met between two accesses
\* to the maps (crossed) does the code not restore it.
SessionIsBacked ==
    \A i \in Instances, u \in Users :
        Handling(i, u) = {} /\ <<i, u>> \notin crossed =>
            /\ voice[i][u] # None =>
                  \/ holder[i][u] # None
                  \/ PeersHoldVoice(i, u)
                  \/ u \in sync[i].held \cup sync[i].users
            /\ holder[i][u] # None => voice[i][u] # None

\* A leave or the end of c's socket takes nothing from another connection of
\* the same instance that holds the session.
TakesNothing(c) ==
    LET i == at[c]
        u == Owner[c]
    IN  (EndsSocket(c) \/ Leaves(c)) /\ holder[i][u] \notin {None, c} =>
            holder'[i][u] = holder[i][u] /\ voice'[i][u] = voice[i][u]

\* "Only the connection holding the session may end it" (leave_voice): neither
\* a second tab nor a new socket that joined before the old one was cleaned up
\* loses the session to the other.
OnlyHolderEndsIt == [][\A c \in Connections : TakesNothing(c)]_vars

\* It never does, except where two handlers met between two accesses to the
\* maps: awaits, aborts and messages in any order do not suffice.
OthersKeepSession ==
    [][\A c \in Connections :
          <<at[c], Owner[c]>> \notin crossed => TakesNothing(c)]_vars

\* "Only the connection holding the session may end it" (leave_voice): a
\* connection that holds nothing ends no session held on any instance.
OnlyHolderEnds ==
    [][\A c \in Connections :
          LeaveVoice(c) /\ holder[at[c]][Owner[c]] = None /\ voice[at[c]][Owner[c]] # None =>
            \A i \in up : holder[i][Owner[c]] = None]_vars

\* "The account joined from another instance: the session moved away from
\* here" (apply_peer_event): when a holder loses the session to a peer, the
\* peer holds it, or its own departure is still on the way.
MovedSomewhere ==
    [][\A i \in Instances :
          ApplyJoinHolder(i) =>
            LET e == Head(inbox[i])
                departures == publishing \cup
                              {Tail(inbox[i])[k] : k \in DOMAIN Tail(inbox[i])}
            IN  holder[i][e.user] # None =>
                  \/ holder[e.from][e.user] # None
                  \/ sock[e.by] # "open"
                  \/ \E d \in departures : d.from = e.from /\ d.channel = None]_vars

\* "Removal by another instance, such as moderation, does apply": after an
\* instance applied it, the connection it removed holds nothing there.
RemovalApplies ==
    [][\A i \in Instances :
          Bridge(i) /\ inbox'[i] # inbox[i] =>
            LET e == Head(inbox[i]) IN
            e.why = "revoke" /\ e.by # None => holder'[i][e.user] # e.by]_vars

\* "The old socket of a client that already rejoined here reports a departure
\* that no longer applies": a socket's end never ends a session that another
\* connection of the account holds on another instance.
OldSocketEndsNothing ==
    [][\A i \in Instances :
          ApplyDeparture(i) =>
            LET e == Head(inbox[i]) IN
            e.why = "close" => holder[i][e.user] = None \/ bridge'[i] = "idle"]_vars

\* "A session is dropped only when two snapshots in a row miss it, because one
\* may have been written just before its join": what the peer holds, and has
\* told this instance, is not dropped.
HeldIsNotDropped ==
    [][\A i, p \in Instances :
          ForgetSession(i) /\ sync[i].peer = p =>
            LET u == sync[i].user IN voice[i][u] # None => holder[p][u] = None]_vars

\* Every running instance puts the user in the same channel, and one
\* connection holds the session; or no instance knows a session.
Agreement ==
    \A u \in Users :
        \/ \A i \in up : voice[i][u] = None
        \/ \E h \in up :
              /\ holder[h][u] # None
              /\ \A i \in up : voice[i][u] = voice[h][u] /\ (holder[i][u] # None => i = h)

\* Joins, takeovers, leaves and failures in any interleaving end in agreement:
\* events, snapshots and expiry together repair what each of them missed.
Convergence == <>[]Agreement
=============================================================================
