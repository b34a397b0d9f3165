------------------------- MODULE VoiceClusterProofs -------------------------
(***************************************************************************)
(* For any number of instances, users, channels and connections, and any   *)
(* bounds: the types of VoiceCluster are right, a recorded holder is live, *)
(* and, wherever no two handlers met between two accesses to the maps,     *)
(* every voice session has somebody whose end will end it and no           *)
(* connection ends the session of another one of its instance.             *)
(***************************************************************************)
EXTENDS VoiceCluster, FiniteSetTheorems, TLAPS

-----------------------------------------------------------------------------
(* Type correctness *)

SockStates == {"none"} \cup Running \cup Cleaning
BridgeStates == {"idle", "joined", "forgets", "forgot"}
HolderMaps == [Instances -> [Users -> Connections \cup {None}]]
PeerMaps == [Instances -> [Instances -> SUBSET Users]]

\* A socket that is not closed is on an instance.
Placed == \A c \in Connections : at[c] = None <=> sock[c] = "none"

\* The bridge task works at an event that is there.
Inboxed == \A i \in Instances : bridge[i] # "idle" => inbox[i] # <<>>

AtUser == {"ask", "remove", "unhold", "insert"}

\* What belongs to each stage of a sync.
Shaped(s) ==
    /\ s.stage \in AtUser <=> s.user # None
    /\ s.peer = None => s.held = {}
    /\ s.peer # None => s.alive[s.peer] # None
    /\ s.stage \in {"merge", "insert"} => s.peer # None
    /\ s.stage \in {"idle", "write", "read", "next"} => s.peer = None
    /\ s.users # {} => s.stage \in {"users", "ask", "remove", "unhold"}
    /\ s.stage = "insert" => s.user \in s.held /\ s.alive[s.peer][s.user] # None

SyncShape == \A i \in Instances : Shaped(sync[i])

\* Spending a natural amount keeps the budgets natural numbers.
LEMMA SpendType ==
    ASSUME TypeOK, NEW b \in Budgets, NEW n \in Nat, Spend(b, n)
    PROVE  spent' \in [Budgets -> Nat]
  BY DEF TypeOK, Spend

LEMMA NoSessionsType == NoSessions \in Sessions
  BY DEF NoSessions, Sessions

LEMMA SyncIdleType == SyncIdle \in SyncStates /\ Shaped(SyncIdle)
  BY DEF SyncIdle, SyncStates, SyncStages, NoSessions, Sessions, Shaped, AtUser

\* The end of a loop keeps the types and the shape, the users held back and
\* the user at hand.
LEMMA RestType ==
    ASSUME NEW s \in SyncStates, Shaped(s)
    PROVE  /\ Rest(s) \in SyncStates /\ Shaped(Rest(s))
           /\ Rest(s).user = s.user /\ Rest(s).held = s.held /\ Rest(s).users = s.users
           /\ s.user # None => Rest(s) = s
  <1> DEFINE t == [s EXCEPT !.stage = IF s.peer = None THEN "next" ELSE "merge"]
             looped == s.stage = "users" /\ s.users = {}
             ended == s.peer = None /\ (s.stage \in {"next", "read"} \/ looped)
  <1>1. looped => /\ t \in SyncStates /\ Shaped(t)
                  /\ t.user = s.user /\ t.held = s.held /\ t.users = s.users
    BY DEF Shaped, AtUser, SyncStates, SyncStages
  <1>2. s.stage \in {"next", "read"} => s.peer = None
    BY DEF Shaped
  <1>3. \/ Rest(s) = s
        \/ looped /\ Rest(s) = t
        \/ ended /\ Rest(s) = SyncIdle
    BY <1>2 DEF Rest
  <1>4. ended => s.user = None /\ s.held = {} /\ s.users = {}
    BY DEF Shaped, AtUser
  <1>5. SyncIdle.user = None /\ SyncIdle.held = {} /\ SyncIdle.users = {}
    BY DEF SyncIdle
  <1>6. s.user # None => ~looped /\ ~ended
    BY DEF Shaped, AtUser
  <1> HIDE DEF t, looped, ended
  <1> QED
    BY <1>1, <1>3, <1>4, <1>5, <1>6, SyncIdleType

LEMMA PlacedInstance ==
    ASSUME TypeOK, Placed, NEW c \in Connections, sock[c] # "none"
    PROVE  at[c] \in Instances /\ Owner[c] \in Users
  BY OwnerAssumption DEF TypeOK, Placed

LEMMA HeadEvent ==
    ASSUME TypeOK, NEW i \in Instances, inbox[i] # <<>>
    PROVE  /\ Head(inbox[i]) \in Events
           /\ Head(inbox[i]).from \in Instances /\ Head(inbox[i]).user \in Users
           /\ Head(inbox[i]).channel \in Channels \cup {None}
           /\ Tail(inbox[i]) \in Seq(Events)
  <1>1. inbox[i] \in Seq(Events)
    BY DEF TypeOK
  <1>2. Head(inbox[i]) \in Events /\ Tail(inbox[i]) \in Seq(Events)
    BY <1>1
  <1> QED
    BY <1>2 DEF Events

\* Setting one user's entry on one instance.
LEMMA SetVoiceType ==
    ASSUME TypeOK, NEW i \in Instances, NEW u \in Users,
           NEW ch \in Channels \cup {None}, SetVoice(i, u, ch)
    PROVE  /\ voice' \in [Instances -> Sessions]
           /\ voice'[i][u] = ch
           /\ \A j \in Instances, w \in Users :
                 j # i \/ w # u => voice'[j][w] = voice[j][w]
  BY DEF TypeOK, Sessions, SetVoice

LEMMA SetHolderType ==
    ASSUME TypeOK, NEW i \in Instances, NEW u \in Users,
           NEW c \in Connections \cup {None}, SetHolder(i, u, c)
    PROVE  /\ holder' \in HolderMaps
           /\ holder'[i][u] = c
           /\ \A j \in Instances, w \in Users :
                 j # i \/ w # u => holder'[j][w] = holder[j][w]
  BY DEF TypeOK, SetHolder, HolderMaps

LEMMA SetPeer ==
    ASSUME NEW f \in PeerMaps,
           NEW i \in Instances, NEW p \in Instances, NEW us \in SUBSET Users
    PROVE  [f EXCEPT ![i][p] = us] \in PeerMaps
  BY DEF PeerMaps

LEMMA AnnounceType ==
    ASSUME TypeOK, NEW i \in Instances, NEW u \in Users, NEW ch \in Channels \cup {None},
           NEW why \in {"join", "leave", "close", "revoke"},
           NEW c \in Connections \cup {None}, Announce(i, u, ch, why, c)
    PROVE  publishing' \subseteq Events
  BY DEF TypeOK, Announce, Events

LEMMA SoleHolderType ==
    ASSUME TypeOK, NEW u \in Users
    PROVE  SoleHolder(u) \in Connections \cup {None}
  <1>1. \A j \in up : holder[j][u] \in Connections \cup {None}
    BY DEF TypeOK
  <1> DEFINE holders == {holder[j][u] : j \in up} \ {None}
  <1>2. CASE Cardinality(holders) = 1 /\ holders # {}
    <2>1. (CHOOSE c \in holders : TRUE) \in holders
      BY <1>2
    <2> QED
      BY <1>1, <1>2, <2>1 DEF SoleHolder
  <1>3. CASE Cardinality(holders) # 1
    BY <1>3 DEF SoleHolder
  <1>4. holders = {} => Cardinality(holders) = 0
    BY FS_EmptySet
  <1> QED
    BY <1>2, <1>3, <1>4

LEMMA NextEventType ==
    ASSUME TypeOK, NEW i \in Instances, inbox[i] # <<>>, NextEvent(i)
    PROVE  /\ inbox' \in [Instances -> Seq(Events)]
           /\ bridge' \in [Instances -> BridgeStates]
           /\ bridge'[i] = "idle"
           /\ \A j \in Instances : j # i => inbox'[j] = inbox[j] /\ bridge'[j] = bridge[j]
  BY HeadEvent DEF TypeOK, NextEvent, BridgeStates

\* The bridge goes on with the same event.
LEMMA BridgeType ==
    ASSUME TypeOK, NEW i \in Instances, NEW b \in BridgeStates,
           bridge' = [bridge EXCEPT ![i] = b]
    PROVE  /\ bridge' \in [Instances -> BridgeStates]
           /\ bridge'[i] = b
           /\ \A j \in Instances : j # i => bridge'[j] = bridge[j]
  BY DEF TypeOK, BridgeStates

\* A sync of one instance that comes to state s.
LEMMA SyncType ==
    ASSUME TypeOK, SyncShape, NEW i \in Instances,
           NEW s \in SyncStates, Shaped(s), sync' = [sync EXCEPT ![i] = s]
    PROVE  /\ sync' \in [Instances -> SyncStates]
           /\ SyncShape'
           /\ sync'[i] = s
           /\ \A j \in Instances : j # i => sync'[j] = sync[j]
  <1>1. sync'[i] = s /\ \A j \in Instances : j # i => sync'[j] = sync[j]
    BY DEF TypeOK
  <1>2. sync' \in [Instances -> SyncStates]
    BY DEF TypeOK
  <1>3. SyncShape'
    BY <1>1 DEF SyncShape
  <1> QED
    BY <1>1, <1>2, <1>3

\* What every step preserves, apart from where two handlers met.
Typed ==
    /\ up \subseteq Instances /\ dead \subseteq Instances
    /\ at \in [Connections -> Instances \cup {None}]
    /\ sock \in [Connections -> SockStates]
    /\ voice \in [Instances -> Sessions]
    /\ holder \in HolderMaps
    /\ peerVoice \in PeerMaps /\ absent \in PeerMaps
    /\ reported \in [Instances -> SUBSET Instances]
    /\ removing \in [Instances -> SUBSET Users]
    /\ publishing \subseteq Events
    /\ inbox \in [Instances -> Seq(Events)]
    /\ bridge \in [Instances -> BridgeStates]
    /\ snap \in [Instances -> Sessions \cup {None}]
    /\ sync \in [Instances -> SyncStates]
    /\ spent \in [Budgets -> Nat]

LEMMA TypedIsTypeOK == TypeOK <=> Typed /\ crossed \subseteq Instances \X Users
  BY DEF TypeOK, Typed, SockStates, BridgeStates, HolderMaps, PeerMaps

Base == TypeOK /\ Placed /\ Inboxed /\ SyncShape
Based == Typed /\ Placed /\ Inboxed /\ SyncShape

LEMMA BaseInit == Init => Base
  <1> SUFFICES ASSUME Init PROVE Base
    OBVIOUS
  <1>1. /\ up \subseteq Instances /\ dead \subseteq Instances
        /\ at \in [Connections -> Instances \cup {None}]
    BY InitialAssumption DEF Init
  <1>2. sock \in [Connections -> SockStates]
    BY DEF Init, SockStates, Running
  <1>3. /\ voice \in [Instances -> Sessions]
        /\ snap \in [Instances -> Sessions \cup {None}]
        /\ sync \in [Instances -> SyncStates]
    BY NoSessionsType, SyncIdleType DEF Init
  <1>4. holder \in HolderMaps
    BY DEF Init, NoSessions, HolderMaps
  <1>5. /\ peerVoice \in PeerMaps /\ absent \in PeerMaps
        /\ reported \in [Instances -> SUBSET Instances]
        /\ removing \in [Instances -> SUBSET Users]
    BY DEF Init, NoPeers, PeerMaps
  <1>6. /\ publishing \subseteq Events
        /\ inbox \in [Instances -> Seq(Events)]
        /\ bridge \in [Instances -> BridgeStates]
        /\ spent \in [Budgets -> Nat]
        /\ crossed \subseteq Instances \X Users
    BY DEF Init, BridgeStates
  <1>7. TypeOK
    BY <1>1, <1>2, <1>3, <1>4, <1>5, <1>6, TypedIsTypeOK DEF Typed
  <1>8. Placed /\ Inboxed /\ SyncShape
    <2>1. Placed
      BY InitialAssumption, NoneAssumption DEF Init, Placed
    <2>2. Inboxed
      BY DEF Init, Inboxed
    <2>3. SyncShape
      BY SyncIdleType DEF Init, SyncShape
    <2> QED
      BY <2>1, <2>2, <2>3
  <1> QED
    BY <1>7, <1>8 DEF Base

\* The instances.
LEMMA BaseInstances ==
    ASSUME Base, NEW i \in Instances, Start(i) \/ Crash(i) \/ Expire(i)
    PROVE  Based'
  <1> USE TypedIsTypeOK DEF Base
  <1>1. CASE Start(i)
    BY <1>1 DEF Start, Based, Typed, Placed, Inboxed, SyncShape, sockets, peers, bus, redis
  <1>2. CASE Crash(i)
    <2>1. spent' \in [Budgets -> Nat]
      BY <1>2, SpendType DEF Crash, Budgets
    <2>2. /\ up' \subseteq Instances /\ dead' \subseteq Instances
          /\ at' \in [Connections -> Instances \cup {None}]
          /\ sock' \in [Connections -> SockStates]
      BY <1>2 DEF Crash, Typed, SockStates
    <2>3. /\ voice' \in [Instances -> Sessions]
          /\ holder' \in HolderMaps
      BY <1>2, NoSessionsType DEF Crash, Typed, NoSessions, HolderMaps
    <2>4. /\ peerVoice' \in PeerMaps /\ absent' \in PeerMaps
          /\ reported' \in [Instances -> SUBSET Instances]
          /\ removing' \in [Instances -> SUBSET Users]
      BY <1>2 DEF Crash, Typed, NoPeers, PeerMaps
    <2>5. /\ publishing' \subseteq Events
          /\ inbox' \in [Instances -> Seq(Events)]
          /\ bridge' \in [Instances -> BridgeStates]
          /\ Inboxed'
      BY <1>2 DEF Crash, Typed, BridgeStates, Inboxed
    <2>6. sync' \in [Instances -> SyncStates] /\ SyncShape'
      BY <1>2, SyncIdleType, SyncType DEF Crash
    <2>7. Placed'
      BY <1>2, NoneAssumption DEF Crash, Placed
    <2> QED
      BY <1>2, <2>1, <2>2, <2>3, <2>4, <2>5, <2>6, <2>7 DEF Crash, Based, Typed
  <1>3. CASE Expire(i)
    <2>1. spent' \in [Budgets -> Nat]
      BY <1>3, SpendType DEF Expire, Budgets
    <2> QED
      BY <1>3, <2>1
      DEF Expire, Based, Typed, Placed, Inboxed, SyncShape, machines, sockets, peers, bus
  <1> QED
    BY <1>1, <1>2, <1>3

\* What the handlers of one connection leave alone.
ElsewhereSame ==
    UNCHANGED <<up, dead, peerVoice, absent, reported, removing, inbox, bridge, snap, sync>>

\* Where a connection's handler goes.
LEMMA SockType ==
    ASSUME Base, NEW c \in Connections, NEW s \in SockStates \ {"none"},
           sock[c] # "none", sock' = [sock EXCEPT ![c] = s], at' = at
    PROVE  /\ sock' \in [Connections -> SockStates] /\ Placed'
           /\ at' \in [Connections -> Instances \cup {None}]
           /\ sock'[c] = s
           /\ \A d \in Connections : d # c => sock'[d] = sock[d]
  BY TypedIsTypeOK DEF Base, Typed, Placed

LEMMA GoneType ==
    ASSUME Base, NEW c \in Connections, Gone(c)
    PROVE  /\ sock' \in [Connections -> SockStates] /\ Placed'
           /\ at' \in [Connections -> Instances \cup {None}]
           /\ sock'[c] = "none" /\ at'[c] = None
           /\ \A d \in Connections : d # c => sock'[d] = sock[d] /\ at'[d] = at[d]
  BY TypedIsTypeOK DEF Base, Typed, Placed, Gone, SockStates

LEMMA BaseOfSocket ==
    ASSUME Base, ElsewhereSame,
           sock' \in [Connections -> SockStates], Placed',
           at' \in [Connections -> Instances \cup {None}],
           voice' \in [Instances -> Sessions], holder' \in HolderMaps,
           publishing' \subseteq Events, spent' \in [Budgets -> Nat]
    PROVE  Based'
  BY TypedIsTypeOK DEF Base, Based, Typed, ElsewhereSame, Inboxed, SyncShape

\* The handlers of a connection.
LEMMA BaseSockets ==
    ASSUME Base, NEW c \in Connections,
           \/ \E i \in Instances : Connect(c, i)
           \/ Disconnect(c) \/ EndsSocket(c) \/ JoinVoiceHolder(c) \/ Leaves(c)
           \/ \E ch \in Channels : JoinVoice(c, ch)
    PROVE  Based' /\ ElsewhereSame
  <1> USE TypedIsTypeOK DEF Base, machines, peers, redis
  <1> DEFINE i == at[c]
             u == Owner[c]
  <1>1. CASE \E j \in Instances : Connect(c, j)
    <2>1. PICK j \in Instances : Connect(c, j)
      BY <1>1
    <2>2. spent' \in [Budgets -> Nat]
      BY <2>1, SpendType DEF Connect, Budgets
    <2>3. /\ sock' \in [Connections -> SockStates] /\ Placed'
          /\ at' \in [Connections -> Instances \cup {None}]
      BY <2>1, NoneAssumption DEF Connect, Typed, Placed, SockStates, Running
    <2> QED
      BY <2>1, <2>2, <2>3, BaseOfSocket DEF Connect, ElsewhereSame, Typed, bus
  <1>2. CASE Disconnect(c)
    <2>1. PICK s \in {"closing", "closing_last"} : sock' = [sock EXCEPT ![c] = s]
      BY <1>2 DEF Disconnect
    <2>2. sock[c] # "none" /\ at' = at
      BY <1>2 DEF Disconnect
    <2>3. sock' \in [Connections -> SockStates] /\ Placed'
      BY <2>1, <2>2, SockType DEF SockStates, Cleaning
    <2> QED
      BY <1>2, <2>3, BaseOfSocket DEF Disconnect, ElsewhereSame, Typed
  <1>3. CASE EndHolder(c)
    <2>1. i \in Instances /\ u \in Users
      BY <1>3, PlacedInstance DEF EndHolder
    <2>2. CASE Holds(i, u, c)
      <3>1. SetHolder(i, u, None) /\ sock' = [sock EXCEPT ![c] = "ending"] /\ at' = at
        BY <1>3, <2>2 DEF EndHolder
      <3>2. holder' \in HolderMaps
        BY <2>1, <3>1, SetHolderType
      <3>3. sock' \in [Connections -> SockStates] /\ Placed'
        BY <1>3, <3>1, SockType DEF EndHolder, SockStates, Cleaning
      <3> QED
        BY <1>3, <3>1, <3>2, <3>3, BaseOfSocket DEF EndHolder, ElsewhereSame, Typed, bus
    <2>3. CASE ~Holds(i, u, c)
      <3>1. holder' = holder
            /\ (Gone(c) \/ (sock' = [sock EXCEPT ![c] = "unheld"] /\ at' = at))
        BY <1>3, <2>3 DEF EndHolder
      <3>2. /\ sock' \in [Connections -> SockStates] /\ Placed'
            /\ at' \in [Connections -> Instances \cup {None}]
        BY <1>3, <3>1, SockType, GoneType DEF EndHolder, SockStates, Cleaning
      <3> QED
        BY <1>3, <3>1, <3>2, BaseOfSocket DEF EndHolder, ElsewhereSame, Typed, bus
    <2> QED
      BY <2>2, <2>3
  <1>4. CASE AskHolder(c)
    <2>1. Gone(c) \/ (sock' = [sock EXCEPT ![c] = "alone"] /\ at' = at)
      BY <1>4 DEF AskHolder
    <2>2. /\ sock' \in [Connections -> SockStates] /\ Placed'
          /\ at' \in [Connections -> Instances \cup {None}]
      BY <1>4, <2>1, SockType, GoneType DEF AskHolder, SockStates, Cleaning
    <2> QED
      BY <1>4, <2>2, BaseOfSocket DEF AskHolder, ElsewhereSame, Typed, bus
  <1>5. CASE AskPeers(c)
    <2>1. Gone(c) \/ (sock' = [sock EXCEPT ![c] = "ending"] /\ at' = at)
      BY <1>5 DEF AskPeers
    <2>2. /\ sock' \in [Connections -> SockStates] /\ Placed'
          /\ at' \in [Connections -> Instances \cup {None}]
      BY <1>5, <2>1, SockType, GoneType DEF AskPeers, SockStates, Cleaning
    <2> QED
      BY <1>5, <2>2, BaseOfSocket DEF AskPeers, ElsewhereSame, Typed, bus
  <1>6. CASE EndVoice(c)
    <2>1. i \in Instances /\ u \in Users
      BY <1>6, PlacedInstance DEF EndVoice
    <2>2. voice' \in [Instances -> Sessions]
      BY <1>6, <2>1, SetVoiceType DEF EndVoice
    <2>3. publishing' \subseteq Events
      BY <1>6, <2>1, AnnounceType DEF EndVoice, Typed
    <2> QED
      BY <1>6, <2>2, <2>3, GoneType, BaseOfSocket DEF EndVoice, ElsewhereSame, Typed
  <1>7. CASE JoinVoiceHolder(c)
    <2>1. i \in Instances /\ u \in Users
      BY <1>7, PlacedInstance DEF JoinVoiceHolder
    <2>2. holder' \in HolderMaps
      BY <1>7, <2>1, SetHolderType DEF JoinVoiceHolder
    <2>3. sock' \in [Connections -> SockStates] /\ Placed' /\ at' = at
      BY <1>7, SockType DEF JoinVoiceHolder, SockStates, Running
    <2> QED
      BY <1>7, <2>2, <2>3, BaseOfSocket DEF JoinVoiceHolder, ElsewhereSame, Typed, bus
  <1>8. CASE LeaveVoice(c)
    <2>1. sock' \in [Connections -> SockStates] /\ Placed' /\ at' = at
      BY <1>8, SockType DEF LeaveVoice, SockStates, Running
    <2> QED
      BY <1>8, <2>1, BaseOfSocket DEF LeaveVoice, ElsewhereSame, Typed, bus
  <1>9. CASE LeaveVoiceHolder(c)
    <2>1. i \in Instances /\ u \in Users
      BY <1>9, PlacedInstance DEF LeaveVoiceHolder
    <2>2. holder' \in HolderMaps
      BY <1>9, <2>1, SetHolderType DEF LeaveVoiceHolder
    <2>3. sock' \in [Connections -> SockStates] /\ Placed' /\ at' = at
      BY <1>9, SockType DEF LeaveVoiceHolder, SockStates, Running
    <2> QED
      BY <1>9, <2>2, <2>3, BaseOfSocket DEF LeaveVoiceHolder, ElsewhereSame, Typed, bus
  <1>10. CASE LeaveVoiceSession(c)
    <2>1. i \in Instances /\ u \in Users
      BY <1>10, PlacedInstance DEF LeaveVoiceSession
    <2>2. voice' \in [Instances -> Sessions]
      BY <1>10, <2>1, SetVoiceType DEF LeaveVoiceSession
    <2>3. publishing' \subseteq Events
      BY <1>10, <2>1, AnnounceType DEF LeaveVoiceSession, Typed
    <2>4. sock' \in [Connections -> SockStates] /\ Placed' /\ at' = at
      BY <1>10, SockType DEF LeaveVoiceSession, SockStates, Running
    <2> QED
      BY <1>10, <2>2, <2>3, <2>4, BaseOfSocket DEF LeaveVoiceSession, ElsewhereSame, Typed
  <1>11. CASE \E ch \in Channels : JoinVoice(c, ch)
    <2>1. PICK ch \in Channels : JoinVoice(c, ch)
      BY <1>11
    <2>2. i \in Instances /\ u \in Users
      BY <2>1, PlacedInstance DEF JoinVoice
    <2>3. voice' \in [Instances -> Sessions]
      BY <2>1, <2>2, SetVoiceType DEF JoinVoice
    <2>4. publishing' \subseteq Events
      BY <2>1, <2>2, AnnounceType DEF JoinVoice
    <2>5. sock' \in [Connections -> SockStates] /\ Placed' /\ at' = at
      BY <2>1, SockType DEF JoinVoice, SockStates, Running
    <2>6. spent' \in [Budgets -> Nat]
      BY <2>1, SpendType DEF JoinVoice, Budgets
    <2> QED
      BY <2>1, <2>3, <2>4, <2>5, <2>6, BaseOfSocket DEF JoinVoice, ElsewhereSame, Typed
  <1> QED
    BY <1>1, <1>2, <1>3, <1>4, <1>5, <1>6, <1>7, <1>8, <1>9, <1>10, <1>11
    DEF EndsSocket, Leaves

\* Removals by moderation or the webhook.
LEMMA BaseClears ==
    ASSUME Base, NEW i \in Instances, NEW u \in Users,
           ClearLocalVoiceSession(i, u) \/ ClearHolder(i, u)
    PROVE  Based'
  <1> USE TypedIsTypeOK DEF Base, machines, sockets, peers, redis
  <1>1. CASE ClearLocalVoiceSession(i, u)
    <2>1. spent' \in [Budgets -> Nat]
      BY <1>1, SpendType DEF ClearLocalVoiceSession, Budgets
    <2>2. voice' \in [Instances -> Sessions]
      BY <1>1, SetVoiceType DEF ClearLocalVoiceSession
    <2>3. publishing' \subseteq Events
      BY <1>1, SoleHolderType, AnnounceType DEF ClearLocalVoiceSession
    <2>4. removing' \in [Instances -> SUBSET Users]
      BY <1>1 DEF ClearLocalVoiceSession, Typed
    <2> QED
      BY <1>1, <2>1, <2>2, <2>3, <2>4
      DEF ClearLocalVoiceSession, Based, Typed, Placed, Inboxed, SyncShape
  <1>2. CASE ClearHolder(i, u)
    <2>1. holder' \in HolderMaps
      BY <1>2, SetHolderType DEF ClearHolder
    <2>2. removing' \in [Instances -> SUBSET Users]
      BY <1>2 DEF ClearHolder, Typed
    <2> QED
      BY <1>2, <2>1, <2>2 DEF ClearHolder, Based, Typed, Placed, Inboxed, SyncShape, bus
  <1> QED
    BY <1>1, <1>2

\* What a publication does to the inboxes: the event being applied stays first.
LEMMA PublishType ==
    ASSUME Base, NEW e \in publishing, Publish(e)
    PROVE  /\ spent' \in [Budgets -> Nat] /\ publishing' \subseteq Events
           /\ inbox' \in [Instances -> Seq(Events)]
           /\ \A i \in Instances :
                 inbox[i] # <<>> => inbox'[i] # <<>> /\ Head(inbox'[i]) = Head(inbox[i])
  <1> USE TypedIsTypeOK DEF Base
  <1>1. PICK cut \in SUBSET (up \ {e.from}) :
          /\ Spend("loss", Cardinality(cut))
          /\ publishing' = publishing \ {e}
          /\ inbox' = [j \in Instances |-> IF j \in (up \ {e.from}) \ cut
                                           THEN Append(inbox[j], e) ELSE inbox[j]]
    BY DEF Publish
  <1>2. Cardinality(cut) \in Nat
    BY InstancesAssumption, FS_Subset, FS_CardinalityType DEF Typed
  <1>3. spent' \in [Budgets -> Nat]
    BY <1>1, <1>2, SpendType DEF Budgets
  <1>4. e \in Events /\ publishing' \subseteq Events
    BY <1>1 DEF Typed
  <1>5. inbox' \in [Instances -> Seq(Events)]
    BY <1>1, <1>4 DEF Typed
  <1>6. ASSUME NEW i \in Instances, inbox[i] # <<>>
        PROVE  inbox'[i] # <<>> /\ Head(inbox'[i]) = Head(inbox[i])
    <2>1. inbox[i] \in Seq(Events)
      BY DEF Typed
    <2>2. inbox'[i] \in {inbox[i], Append(inbox[i], e)}
      BY <1>1
    <2> QED
      BY <1>4, <1>6, <2>1, <2>2
  <1> QED
    BY <1>3, <1>4, <1>5, <1>6

LEMMA BasePublish ==
    ASSUME Base, NEW e \in publishing, Publish(e)
    PROVE  Based'
  <1> USE TypedIsTypeOK DEF Base
  <1>1. Inboxed'
    BY PublishType DEF Inboxed, Publish
  <1> QED
    BY <1>1, PublishType
    DEF Publish, Based, Typed, Placed, SyncShape, machines, sockets, peers, redis

\* The bridge.
LEMMA BaseBridge ==
    ASSUME Base, NEW i \in Instances, Bridge(i)
    PROVE  Based' /\ UNCHANGED <<at, sock, removing, sync>>
  <1> USE TypedIsTypeOK DEF Base, machines, sockets, peers, bus, redis
  <1> DEFINE e == Head(inbox[i])
  <1>0. /\ inbox[i] # <<>>
        /\ e.from \in Instances /\ e.user \in Users /\ e.channel \in Channels \cup {None}
    BY HeadEvent DEF Bridge, ApplyJoin, ApplyJoinHolder, ApplyDeparture, ApplyForgetSession,
                     ApplyForgetHolder, Inboxed
  <1>1. CASE ApplyJoin(i)
    <2>1. voice' \in [Instances -> Sessions]
      BY <1>0, <1>1, SetVoiceType DEF ApplyJoin
    <2>2. bridge' \in [Instances -> BridgeStates] /\ Inboxed'
      BY <1>0, <1>1, BridgeType DEF ApplyJoin, BridgeStates, Inboxed
    <2> QED
      BY <1>1, <2>1, <2>2 DEF ApplyJoin, Based, Typed, Placed, SyncShape
  <1>2. CASE ApplyJoinHolder(i)
    <2>1. holder' \in HolderMaps
      BY <1>0, <1>2, SetHolderType DEF ApplyJoinHolder
    <2>2. /\ inbox' \in [Instances -> Seq(Events)]
          /\ bridge' \in [Instances -> BridgeStates] /\ Inboxed'
      BY <1>0, <1>2, NextEventType DEF ApplyJoinHolder, Inboxed
    <2>3. peerVoice' \in PeerMaps
      <3>1. peerVoice[i][e.from] \cup {e.user} \in SUBSET Users
        BY <1>0 DEF Typed, PeerMaps
      <3>2. peerVoice' = [peerVoice EXCEPT ![i][e.from]
                             = peerVoice[i][e.from] \cup {e.user}]
        BY <1>0, <1>2 DEF ApplyJoinHolder, Typed, PeerMaps
      <3> QED
        BY <1>0, <3>1, <3>2, SetPeer DEF Typed
    <2>4. absent' \in PeerMaps
      <3>1. absent[i][e.from] \ {e.user} \in SUBSET Users
        BY <1>0 DEF Typed, PeerMaps
      <3>2. absent' = [absent EXCEPT ![i][e.from] = absent[i][e.from] \ {e.user}]
        BY <1>0, <1>2 DEF ApplyJoinHolder, Typed, PeerMaps
      <3> QED
        BY <1>0, <3>1, <3>2, SetPeer DEF Typed
    <2> QED
      BY <1>2, <2>1, <2>2, <2>3, <2>4 DEF ApplyJoinHolder, Based, Typed, Placed, SyncShape
  <1>3. CASE ApplyDeparture(i)
    <2>1. /\ inbox' \in [Instances -> Seq(Events)]
          /\ bridge' \in [Instances -> BridgeStates] /\ Inboxed'
      <3>1. CASE NextEvent(i)
        BY <1>0, <3>1, NextEventType DEF Inboxed
      <3>2. CASE bridge' = [bridge EXCEPT ![i] = "forgets"] /\ UNCHANGED inbox
        BY <1>0, <3>2, BridgeType DEF Typed, BridgeStates, Inboxed
      <3> QED
        BY <1>3, <3>1, <3>2 DEF ApplyDeparture
    <2>2. peerVoice' \in PeerMaps
      <3>1. peerVoice[i][e.from] \ {e.user} \in SUBSET Users
        BY <1>0 DEF Typed, PeerMaps
      <3>2. peerVoice' = [peerVoice EXCEPT ![i][e.from]
                             = peerVoice[i][e.from] \ {e.user}]
        BY <1>0, <1>3 DEF ApplyDeparture, Typed, PeerMaps
      <3> QED
        BY <1>0, <3>1, <3>2, SetPeer DEF Typed
    <2> QED
      BY <1>3, <2>1, <2>2 DEF ApplyDeparture, Based, Typed, Placed, SyncShape
  <1>4. CASE ApplyForgetSession(i)
    <2>1. voice' \in [Instances -> Sessions]
      BY <1>0, <1>4, SetVoiceType DEF ApplyForgetSession
    <2>2. /\ inbox' \in [Instances -> Seq(Events)]
          /\ bridge' \in [Instances -> BridgeStates] /\ Inboxed'
      <3>1. CASE NextEvent(i)
        BY <1>0, <3>1, NextEventType DEF Inboxed
      <3>2. CASE bridge' = [bridge EXCEPT ![i] = "forgot"] /\ UNCHANGED inbox
        BY <1>0, <3>2, BridgeType DEF Typed, BridgeStates, Inboxed
      <3> QED
        BY <1>4, <3>1, <3>2 DEF ApplyForgetSession
    <2> QED
      BY <1>4, <2>1, <2>2 DEF ApplyForgetSession, Based, Typed, Placed, SyncShape
  <1>5. CASE ApplyForgetHolder(i)
    <2>1. holder' \in HolderMaps
      BY <1>0, <1>5, SetHolderType DEF ApplyForgetHolder
    <2>2. /\ inbox' \in [Instances -> Seq(Events)]
          /\ bridge' \in [Instances -> BridgeStates] /\ Inboxed'
      BY <1>0, <1>5, NextEventType DEF ApplyForgetHolder, Inboxed
    <2> QED
      BY <1>5, <2>1, <2>2 DEF ApplyForgetHolder, Based, Typed, Placed, SyncShape
  <1> QED
    BY <1>1, <1>2, <1>3, <1>4, <1>5 DEF Bridge

-----------------------------------------------------------------------------
(* What the steps of a sync do *)

\* The sync of instance i comes to state s; nothing else of any sync moves.
Becomes(i, s) ==
    /\ sync' = [sync EXCEPT ![i] = s]
    /\ s \in SyncStates /\ Shaped(s)

SyncKeeps == UNCHANGED <<at, sock, removing, publishing, inbox, bridge>>

LEMMA BaseOfSync ==
    ASSUME Base, NEW i \in Instances, NEW s, Becomes(i, s), SyncKeeps,
           UNCHANGED <<up, dead>>,
           voice' \in [Instances -> Sessions], holder' \in HolderMaps,
           peerVoice' \in PeerMaps, absent' \in PeerMaps,
           reported' \in [Instances -> SUBSET Instances],
           snap' \in [Instances -> Sessions \cup {None}], spent' \in [Budgets -> Nat]
    PROVE  Based'
  <1>1. sync' \in [Instances -> SyncStates] /\ SyncShape'
    BY SyncType DEF Becomes, Base
  <1> QED
    BY <1>1, TypedIsTypeOK DEF Base, Based, Typed, SyncKeeps, Placed, Inboxed

\* The sync's state is that of the instance, well typed and shaped.
LEMMA SyncState ==
    ASSUME Base, NEW i \in Instances
    PROVE  sync[i] \in SyncStates /\ Shaped(sync[i])
  BY DEF Base, TypeOK, SyncShape

\* What a sync hands on that does not touch a user or what is held back.
SameUsers(i, s) ==
    s.user = sync[i].user /\ s.held = sync[i].held /\ s.users = sync[i].users

\* A sync's record with new fields.
LEMMA EditBegin ==
    ASSUME NEW s \in SyncStates, NEW stage \in SyncStages, NEW own \in Sessions
    PROVE  [s EXCEPT !.stage = stage, !.own = own] \in SyncStates
  BY DEF SyncStates

LEMMA EditRead ==
    ASSUME NEW s \in SyncStates, NEW todo \in SUBSET Instances,
           NEW alive \in [Instances -> Sessions \cup {None}]
    PROVE  [s EXCEPT !.todo = todo, !.alive = alive] \in SyncStates
  BY DEF SyncStates

LEMMA EditNext ==
    ASSUME NEW s \in SyncStates, NEW stage \in SyncStages, NEW todo \in SUBSET Instances,
           NEW alive \in [Instances -> Sessions \cup {None}], NEW gone \in SUBSET Instances
    PROVE  [s EXCEPT !.stage = stage, !.todo = todo, !.alive = alive, !.gone = gone]
             \in SyncStates
  BY DEF SyncStates

LEMMA EditForget ==
    ASSUME NEW s \in SyncStates, NEW stage \in SyncStages, NEW gone \in SUBSET Instances,
           NEW users \in SUBSET Users
    PROVE  [s EXCEPT !.stage = stage, !.gone = gone, !.users = users] \in SyncStates
  BY DEF SyncStates

LEMMA EditReconcile ==
    ASSUME NEW s \in SyncStates, NEW stage \in SyncStages, NEW peer \in Instances \cup {None},
           NEW users \in SUBSET Users, NEW held \in SUBSET Users
    PROVE  [s EXCEPT !.stage = stage, !.peer = peer, !.users = users, !.held = held]
             \in SyncStates
  BY DEF SyncStates

LEMMA EditUsers ==
    ASSUME NEW s \in SyncStates, NEW users \in SUBSET Users, NEW user \in Users \cup {None},
           NEW stage \in SyncStages
    PROVE  /\ [s EXCEPT !.users = users] \in SyncStates
           /\ [s EXCEPT !.users = users, !.user = user, !.stage = stage] \in SyncStates
           /\ [s EXCEPT !.stage = stage, !.user = user] \in SyncStates
           /\ [s EXCEPT !.stage = stage] \in SyncStates
  BY DEF SyncStates

LEMMA EditDrop ==
    ASSUME NEW s \in SyncStates, NEW p \in Instances, NEW u \in Users, s.alive[p] # None
    PROVE  [s EXCEPT !.alive = Dropped(s.alive, p, u)] \in SyncStates
  <1>1. Dropped(s.alive, p, u) \in [Instances -> Sessions \cup {None}]
    BY DEF SyncStates, Sessions, Dropped
  <1>2. \A a \in [Instances -> Sessions \cup {None}] : [s EXCEPT !.alive = a] \in SyncStates
    BY DEF SyncStates
  <1> QED
    BY <1>1, <1>2

LEMMA EditInsert ==
    ASSUME NEW s \in SyncStates, NEW user \in Users, NEW held \in SUBSET Users
    PROVE  [s EXCEPT !.stage = "insert", !.user = user, !.held = held] \in SyncStates
  BY DEF SyncStates, SyncStages

LEMMA EditEntry ==
    ASSUME NEW s \in SyncStates, NEW p \in Instances, NEW u \in Users, s.alive[p] # None
    PROVE  [s EXCEPT !.stage = "merge", !.user = None, !.alive = Dropped(s.alive, p, u)]
             \in SyncStates
  <1>1. Dropped(s.alive, p, u) \in [Instances -> Sessions \cup {None}]
    BY DEF SyncStates, Sessions, Dropped
  <1>2. \A a \in [Instances -> Sessions \cup {None}] :
          [s EXCEPT !.stage = "merge", !.user = None, !.alive = a] \in SyncStates
    BY DEF SyncStates, SyncStages
  <1> QED
    BY <1>1, <1>2

LEMMA EditEnd ==
    ASSUME NEW s \in SyncStates, NEW stage \in SyncStages, NEW p \in Instances
    PROVE  [s EXCEPT !.stage = stage, !.peer = None, !.held = {},
                     !.alive = [s.alive EXCEPT ![p] = None]] \in SyncStates
  <1>1. [s.alive EXCEPT ![p] = None] \in [Instances -> Sessions \cup {None}]
    BY DEF SyncStates
  <1>2. \A a \in [Instances -> Sessions \cup {None}] :
          [s EXCEPT !.stage = stage, !.peer = None, !.held = {}, !.alive = a] \in SyncStates
    BY DEF SyncStates
  <1> QED
    BY <1>1, <1>2

LEMMA BeginEffect ==
    ASSUME Base, NEW i \in Instances, SyncBegin(i)
    PROVE  \E s : Becomes(i, s) /\ SameUsers(i, s)
  <1> DEFINE l == LocalSnapshot(i)
  <1>2. l \in Sessions
    BY DEF LocalSnapshot, Base, TypeOK, Sessions
  <1> HIDE DEF l
  <1> DEFINE s == [sync[i] EXCEPT !.stage = "write", !.own = l]
  <1>1. sync' = [sync EXCEPT ![i] = s]
    BY DEF SyncBegin, SetSync, l
  <1>3. s \in SyncStates
    BY <1>2, SyncState, EditBegin DEF SyncStages
  <1>4. Shaped(s) /\ SameUsers(i, s)
    BY SyncState DEF SyncBegin, Shaped, AtUser, SameUsers, SyncStates
  <1> QED
    BY <1>1, <1>3, <1>4 DEF Becomes

LEMMA WriteEffect ==
    ASSUME Base, NEW i \in Instances, SyncWrite(i)
    PROVE  \E s : Becomes(i, s) /\ SameUsers(i, s)
  <1> DEFINE r == [SyncIdle EXCEPT !.stage = "read", !.todo = Instances \ {i}]
  <1>1. r \in SyncStates /\ Shaped(r)
    BY SyncIdleType DEF SyncIdle, SyncStates, SyncStages, Shaped, AtUser
  <1>2. r.user = None /\ r.held = {} /\ r.users = {}
    BY DEF SyncIdle
  <1>3. sync' = [sync EXCEPT ![i] = Rest(r)]
    BY DEF SyncWrite, SetSync
  <1>4. sync[i].user = None /\ sync[i].held = {} /\ sync[i].users = {}
    BY SyncState DEF SyncWrite, Shaped, AtUser
  <1> HIDE DEF r
  <1>5. Becomes(i, Rest(r)) /\ SameUsers(i, Rest(r))
    BY <1>1, <1>2, <1>3, <1>4, RestType DEF Becomes, SameUsers
  <1> QED
    BY <1>5

LEMMA ReadEffect ==
    ASSUME Base, NEW i \in Instances, NEW p \in Instances, SyncRead(i, p)
    PROVE  /\ \E s : Becomes(i, s) /\ SameUsers(i, s)
           /\ spent' \in [Budgets -> Nat]
  <1> DEFINE alive == [sync[i].alive EXCEPT ![p] = snap[p]]
  <1>0. alive \in [Instances -> Sessions \cup {None}]
    BY SyncState DEF SyncStates, Base, TypeOK
  <1>9. sync[i].stage = "read"
    BY DEF SyncRead
  <1>1. CASE sync[i].todo # {p}
    <2> DEFINE s == [sync[i] EXCEPT !.todo = sync[i].todo \ {p}, !.alive = alive]
    <2>0. spent' = spent
      BY <1>1 DEF SyncRead
    <2>1. sync' = [sync EXCEPT ![i] = s]
      BY <1>1 DEF SyncRead, SetSync
    <2> HIDE DEF alive
    <2>2. s \in SyncStates
      <3>1. sync[i].todo \ {p} \in SUBSET Instances
        BY SyncState DEF SyncStates
      <3> QED
        BY <1>0, <3>1, SyncState, EditRead
    <2>3. Shaped(s) /\ SameUsers(i, s)
      BY <1>9, SyncState DEF Shaped, AtUser, SameUsers, SyncStates
    <2> QED
      BY <2>0, <2>1, <2>2, <2>3 DEF Becomes, Base, TypeOK
  <1>2. CASE sync[i].todo = {p}
    <2>1. PICK late \in SUBSET (up \ (reported[i] \cup {i})) :
            /\ Spend("failure", Cardinality(late))
            /\ SetSync(i, Rest([sync[i] EXCEPT
                               !.stage = "next", !.todo = {}, !.alive = alive,
                               !.gone = GonePeers(i, alive, late)]))
      BY <1>2 DEF SyncRead
    <2>2. Cardinality(late) \in Nat
      BY InstancesAssumption, FS_Subset, FS_CardinalityType DEF Base, TypeOK
    <2>3. spent' \in [Budgets -> Nat]
      BY <2>1, <2>2, SpendType DEF Budgets, Base
    <2> DEFINE g == GonePeers(i, alive, late)
    <2>4. g \in SUBSET Instances
      BY DEF GonePeers
    <2> DEFINE r == [sync[i] EXCEPT !.stage = "next", !.todo = {}, !.alive = alive, !.gone = g]
    <2>5. sync' = [sync EXCEPT ![i] = Rest(r)]
      BY <2>1 DEF SetSync
    <2> HIDE DEF g, alive
    <2>6. r \in SyncStates
      BY <1>0, <2>4, SyncState, EditNext DEF SyncStages
    <2>7. Shaped(r) /\ SameUsers(i, r)
      BY <1>9, SyncState DEF Shaped, AtUser, SameUsers, SyncStates
    <2> HIDE DEF r
    <2>8. Becomes(i, Rest(r)) /\ SameUsers(i, Rest(r))
      BY <2>5, <2>6, <2>7, RestType DEF Becomes, SameUsers
    <2> QED
      BY <2>3, <2>8
  <1> QED
    BY <1>1, <1>2

LEMMA FailEffect ==
    ASSUME Base, NEW i \in Instances, SyncFails(i)
    PROVE  /\ \E s : Becomes(i, s) /\ SameUsers(i, s)
           /\ spent' \in [Budgets -> Nat]
  <1>1. Becomes(i, SyncIdle)
    BY SyncIdleType DEF SyncFails, SetSync, Becomes
  <1>2. SameUsers(i, SyncIdle)
    BY SyncState DEF SyncFails, Shaped, AtUser, SameUsers, SyncIdle
  <1>3. spent' \in [Budgets -> Nat]
    BY SpendType DEF SyncFails, Budgets, Base
  <1> QED
    BY <1>1, <1>2, <1>3
\* At the start of a loop the sync has no user at hand and holds nothing back.
LEMMA NothingHeld ==
    ASSUME Base, NEW i \in Instances, sync[i].stage = "next"
    PROVE  sync[i].user = None /\ sync[i].held = {} /\ sync[i].users = {} /\ sync[i].peer = None
  BY SyncState DEF Shaped, AtUser

LEMMA PeerEntry ==
    ASSUME Base, NEW i \in Instances, NEW p \in Instances
    PROVE  peerVoice[i][p] \in SUBSET Users /\ absent[i][p] \in SUBSET Users
  BY DEF Base, TypeOK

LEMMA ForgetPeerEffect ==
    ASSUME Base, NEW i \in Instances, NEW p \in Instances, ForgetPeer(i, p)
    PROVE  /\ sync[i].user = None /\ sync[i].held = {} /\ sync[i].users = {}
           /\ \E s : /\ Becomes(i, s)
                     /\ s.user = None /\ s.held = {} /\ s.users = peerVoice[i][p]
  <1> DEFINE us == peerVoice[i][p]
             g == sync[i].gone \ {p}
             r == [sync[i] EXCEPT !.stage = "users", !.gone = g, !.users = us]
  <1>1. sync[i].user = None /\ sync[i].held = {} /\ sync[i].users = {} /\ sync[i].peer = None
    BY NothingHeld DEF ForgetPeer
  <1>2. sync' = [sync EXCEPT ![i] = Rest(r)]
    BY DEF ForgetPeer, SetSync
  <1>3. us \in SUBSET Users /\ g \in SUBSET Instances
    BY PeerEntry, SyncState DEF SyncStates
  <1> HIDE DEF us, g
  <1>4. r \in SyncStates
    BY <1>3, SyncState, EditForget DEF SyncStages
  <1>5. Shaped(r) /\ r.user = None /\ r.held = {} /\ r.users = us
    BY <1>1, SyncState DEF Shaped, AtUser, SyncStates
  <1> HIDE DEF r
  <1>6. /\ Becomes(i, Rest(r))
        /\ Rest(r).user = None /\ Rest(r).held = {} /\ Rest(r).users = us
    BY <1>2, <1>4, <1>5, RestType DEF Becomes
  <1> QED
    BY <1>1, <1>6 DEF us

LEMMA ReconcileEffect ==
    ASSUME Base, NEW i \in Instances, NEW p \in Instances, ReconcileTake(i, p)
    PROVE  /\ sync[i].user = None /\ sync[i].held = {} /\ sync[i].users = {}
           /\ \E s : /\ Becomes(i, s)
                     /\ s.user = None /\ s.held \cup s.users = peerVoice[i][p]
  <1> DEFINE gone == GoneSessions(i, p)
             h == peerVoice[i][p] \ gone
             r == [sync[i] EXCEPT !.stage = "users", !.peer = p, !.users = gone, !.held = h]
  <1>1. sync[i].user = None /\ sync[i].held = {} /\ sync[i].users = {} /\ sync[i].peer = None
    BY NothingHeld DEF ReconcileTake
  <1>2. sync' = [sync EXCEPT ![i] = Rest(r)]
    BY DEF ReconcileTake, SetSync
  <1>3. gone \in SUBSET Users /\ h \in SUBSET Users /\ h \cup gone = peerVoice[i][p]
    BY PeerEntry DEF GoneSessions, Missing
  <1>7. sync[i].alive[p] # None
    BY DEF ReconcileTake
  <1> HIDE DEF gone, h
  <1>4. r \in SyncStates
    BY <1>3, SyncState, EditReconcile DEF SyncStages
  <1>5. Shaped(r) /\ r.user = None /\ r.held = h /\ r.users = gone
    BY <1>1, <1>7, NoneAssumption, SyncState DEF Shaped, AtUser, SyncStates
  <1> HIDE DEF r
  <1>6. /\ Becomes(i, Rest(r))
        /\ Rest(r).user = None /\ Rest(r).held = h /\ Rest(r).users = gone
    BY <1>2, <1>4, <1>5, RestType DEF Becomes
  <1> QED
    BY <1>1, <1>3, <1>6

LEMMA ForgetUserEffect ==
    ASSUME Base, NEW i \in Instances, NEW u \in Users, ForgetUser(i, u)
    PROVE  /\ sync[i].user = None
           /\ \E s : /\ Becomes(i, s)
                     /\ s.held = sync[i].held /\ s.users = sync[i].users \ {u}
                     /\ \/ holder[i][u] # None /\ s.user = None
                        \/ holder[i][u] = None /\ s.user = u /\ s.stage \in {"ask", "remove"}
  <1> DEFINE us == sync[i].users \ {u}
  <1>1. sync[i].stage = "users" /\ sync[i].user = None
    BY SyncState DEF ForgetUser, Shaped, AtUser
  <1>2. us \in SUBSET Users
    BY SyncState DEF SyncStates
  <1>3. CASE holder[i][u] # None
    <2> DEFINE r == [sync[i] EXCEPT !.users = us]
    <2>1. sync' = [sync EXCEPT ![i] = Rest(r)]
      BY <1>3 DEF ForgetUser, SetSync
    <2> HIDE DEF us
    <2>2. r \in SyncStates
      BY <1>2, SyncState, EditUsers DEF SyncStages
    <2>3. Shaped(r) /\ r.user = None /\ r.held = sync[i].held /\ r.users = us
      BY <1>1, SyncState DEF Shaped, AtUser, SyncStates
    <2> HIDE DEF r
    <2>4. /\ Becomes(i, Rest(r))
          /\ Rest(r).user = None /\ Rest(r).held = sync[i].held /\ Rest(r).users = us
      BY <2>1, <2>2, <2>3, RestType DEF Becomes
    <2> QED
      BY <1>1, <1>3, <2>4 DEF us
  <1>4. CASE holder[i][u] = None
    <2> DEFINE st == IF sync[i].peer = None THEN "ask" ELSE "remove"
               r == [sync[i] EXCEPT !.users = us, !.user = u, !.stage = st]
    <2>1. sync' = [sync EXCEPT ![i] = r]
      BY <1>4 DEF ForgetUser, SetSync
    <2>5. st \in {"ask", "remove"}
      OBVIOUS
    <2> HIDE DEF us, st
    <2>2. r \in SyncStates
      BY <1>2, <2>5, SyncState, EditUsers DEF SyncStages
    <2>3. Shaped(r) /\ r.user = u /\ r.held = sync[i].held /\ r.users = us /\ r.stage = st
      BY <1>1, <2>5, NoneAssumption, SyncState DEF Shaped, AtUser, SyncStates
    <2> HIDE DEF r
    <2> QED
      BY <1>1, <1>4, <2>1, <2>2, <2>3, <2>5 DEF Becomes, us
  <1> QED
    BY <1>3, <1>4

\* The user at hand is done with, in either forget.
LEMMA NextUserEffect ==
    ASSUME Base, NEW i \in Instances, NextUser(i), sync[i].stage \in {"ask", "remove", "unhold"}
    PROVE  \E s : /\ Becomes(i, s)
                  /\ s.user = None /\ s.held = sync[i].held /\ s.users = sync[i].users
  <1> DEFINE r == [sync[i] EXCEPT !.stage = "users", !.user = None]
  <1>1. sync' = [sync EXCEPT ![i] = Rest(r)]
    BY DEF NextUser, SetSync
  <1>2. r \in SyncStates
    BY SyncState, EditUsers DEF SyncStages
  <1>3. Shaped(r) /\ r.user = None /\ r.held = sync[i].held /\ r.users = sync[i].users
    BY SyncState DEF Shaped, AtUser, SyncStates
  <1> HIDE DEF r
  <1>4. /\ Becomes(i, Rest(r))
        /\ Rest(r).user = None /\ Rest(r).held = sync[i].held
        /\ Rest(r).users = sync[i].users
    BY <1>1, <1>2, <1>3, RestType DEF Becomes
  <1> QED
    BY <1>4

\* A forget goes on with the same user.
LEMMA StageEffect ==
    ASSUME Base, NEW i \in Instances, NEW st \in {"remove", "unhold"},
           SetSync(i, [sync[i] EXCEPT !.stage = st]),
           sync[i].stage \in {"ask", "remove", "unhold"}
    PROVE  \E s : /\ Becomes(i, s) /\ s.stage = st
                  /\ s.user = sync[i].user /\ s.held = sync[i].held /\ s.users = sync[i].users
  <1> DEFINE r == [sync[i] EXCEPT !.stage = st]
  <1>1. r \in SyncStates
    BY SyncState, EditUsers DEF SyncStages
  <1>2. /\ Shaped(r) /\ r.stage = st
        /\ r.user = sync[i].user /\ r.held = sync[i].held /\ r.users = sync[i].users
    BY SyncState DEF Shaped, AtUser, SyncStates
  <1> QED
    BY <1>1, <1>2 DEF Becomes, SetSync

\* A snapshot without one of its entries is still a snapshot.
LEMMA DroppedNotNone ==
    ASSUME Base, NEW i \in Instances, NEW p \in Instances, NEW u \in Users,
           sync[i].alive[p] # None
    PROVE  Dropped(sync[i].alive, p, u)[p] # None
  <1>1. sync[i].alive \in [Instances -> Sessions \cup {None}]
    BY SyncState DEF SyncStates
  <1>2. sync[i].alive[p] \in [Users -> Channels \cup {None}]
    BY <1>1 DEF Sessions
  <1>3. Dropped(sync[i].alive, p, u)[p] = [sync[i].alive[p] EXCEPT ![u] = None]
    BY <1>1 DEF Dropped
  <1>4. [sync[i].alive[p] EXCEPT ![u] = None] \in [Users -> Channels \cup {None}]
    BY <1>2
  <1> QED
    BY <1>3, <1>4, NoneAssumption

LEMMA MergeEntryEffect ==
    ASSUME Base, NEW i \in Instances, NEW u \in Users, MergeEntry(i, u)
    PROVE  /\ sync[i].user = None
           /\ \E s : /\ Becomes(i, s) /\ s.users = sync[i].users
                     /\ \/ s.held = sync[i].held /\ s.user = None
                        \/ /\ holder[i][u] = None /\ s.user = u /\ s.stage = "insert"
                           /\ s.held = sync[i].held \cup {u}
  <1> DEFINE p == sync[i].peer
             al == Dropped(sync[i].alive, p, u)
             h == sync[i].held \cup {u}
  <1>1. /\ sync[i].stage = "merge" /\ sync[i].user = None /\ sync[i].users = {}
        /\ p \in Instances /\ sync[i].alive[p] # None
    BY SyncState DEF MergeEntry, Shaped, AtUser, SyncStates
  <1>5. al[p] # None
    BY <1>1, DroppedNotNone
  <1>3. CASE holder[i][u] # None
    <2> DEFINE r == [sync[i] EXCEPT !.alive = al]
    <2>1. sync' = [sync EXCEPT ![i] = r]
      BY <1>3 DEF MergeEntry, SetSync
    <2>2. r \in SyncStates
      BY <1>1, SyncState, EditDrop
    <2>5. al[p] # None
      BY <1>5
    <2> HIDE DEF al
    <2>3. Shaped(r) /\ r.user = None /\ r.held = sync[i].held /\ r.users = sync[i].users
      BY <1>1, <2>5, SyncState DEF Shaped, AtUser, SyncStates
    <2> HIDE DEF r
    <2> QED
      BY <1>1, <1>3, <2>1, <2>2, <2>3 DEF Becomes
  <1>4. CASE holder[i][u] = None
    <2> DEFINE r == [sync[i] EXCEPT !.stage = "insert", !.user = u, !.held = h]
    <2>1. sync' = [sync EXCEPT ![i] = r]
      BY <1>4 DEF MergeEntry, SetSync
    <2>6. h \in SUBSET Users
      BY SyncState DEF SyncStates
    <2>2. r \in SyncStates
      BY <2>6, SyncState, EditInsert
    <2>4. u \in h
      OBVIOUS
    <2>5. sync[i].alive[p][u] # None
      BY DEF MergeEntry
    <2> HIDE DEF h
    <2>3. Shaped(r) /\ r.user = u /\ r.held = h /\ r.users = {} /\ r.stage = "insert"
      BY <1>1, <2>4, <2>5, NoneAssumption, SyncState DEF Shaped, AtUser, SyncStates
    <2> HIDE DEF r
    <2> QED
      BY <1>1, <1>4, <2>1, <2>2, <2>3 DEF Becomes, h
  <1> QED
    BY <1>3, <1>4

LEMMA MergeInsertEffect ==
    ASSUME Base, NEW i \in Instances, MergeInsert(i)
    PROVE  /\ sync[i].user \in Users /\ sync[i].user \in sync[i].held
           /\ sync[i].stage = "insert"
           /\ voice' \in [Instances -> Sessions]
           /\ voice'[i][sync[i].user] # None
           /\ \A j \in Instances, w \in Users :
                 j # i \/ w # sync[i].user => voice'[j][w] = voice[j][w]
           /\ \E s : /\ Becomes(i, s)
                     /\ s.user = None /\ s.held = sync[i].held /\ s.users = sync[i].users
  <1> DEFINE p == sync[i].peer
             u == sync[i].user
             ch == sync[i].alive[p][u]
             al == Dropped(sync[i].alive, p, u)
             r == [sync[i] EXCEPT !.stage = "merge", !.user = None, !.alive = al]
  <1>1. /\ sync[i].stage = "insert" /\ u \in Users /\ u \in sync[i].held
        /\ p \in Instances /\ sync[i].alive[p] # None /\ ch # None /\ sync[i].users = {}
    BY SyncState DEF MergeInsert, Shaped, AtUser, SyncStates
  <1>2. ch \in Channels \cup {None}
    BY <1>1, SyncState DEF SyncStates, Sessions
  <1>3. SetVoice(i, u, ch)
    BY DEF MergeInsert
  <1>4. sync' = [sync EXCEPT ![i] = r]
    BY DEF MergeInsert, SetSync
  <1>5. r \in SyncStates
    BY <1>1, SyncState, EditEntry
  <1>6. al[p] # None
    BY <1>1, DroppedNotNone
  <1> HIDE DEF al
  <1>7. Shaped(r) /\ r.user = None /\ r.held = sync[i].held /\ r.users = sync[i].users
    BY <1>1, <1>6, SyncState DEF Shaped, AtUser, SyncStates
  <1> HIDE DEF r
  <1>8. Becomes(i, r)
    BY <1>4, <1>5, <1>7 DEF Becomes
  <1>9. /\ voice' \in [Instances -> Sessions] /\ voice'[i][u] = ch
        /\ \A j \in Instances, w \in Users : j # i \/ w # u => voice'[j][w] = voice[j][w]
    BY <1>1, <1>2, <1>3, SetVoiceType DEF Base
  <1> QED
    BY <1>1, <1>7, <1>8, <1>9

LEMMA MergeEndEffect ==
    ASSUME Base, NEW i \in Instances, MergeEnd(i)
    PROVE  /\ sync[i].peer \in Instances /\ sync[i].user = None /\ sync[i].users = {}
           /\ \E s : Becomes(i, s) /\ s.user = None /\ s.held = {} /\ s.users = {}
           /\ peerVoice' = [peerVoice EXCEPT ![i][sync[i].peer] = @ \cup sync[i].held]
           /\ peerVoice' \in PeerMaps
  <1> DEFINE p == sync[i].peer
             al == [sync[i].alive EXCEPT ![p] = None]
             r == [sync[i] EXCEPT !.stage = "next", !.peer = None, !.held = {}, !.alive = al]
  <1>1. /\ sync[i].stage = "merge" /\ sync[i].user = None /\ p \in Instances
        /\ sync[i].users = {}
    BY SyncState DEF MergeEnd, Shaped, AtUser, SyncStates
  <1>2. sync' = [sync EXCEPT ![i] = Rest(r)]
    BY DEF MergeEnd, SetSync
  <1>3. r \in SyncStates
    BY <1>1, SyncState, EditEnd DEF SyncStages
  <1> HIDE DEF al
  <1>4. Shaped(r) /\ r.user = None /\ r.held = {} /\ r.users = {}
    BY <1>1, SyncState DEF Shaped, AtUser, SyncStates
  <1> HIDE DEF r
  <1>5. Becomes(i, Rest(r)) /\ Rest(r).user = None /\ Rest(r).held = {} /\ Rest(r).users = {}
    BY <1>2, <1>3, <1>4, RestType DEF Becomes
  <1>6. peerVoice[i][p] \cup sync[i].held \in SUBSET Users
    BY <1>1, PeerEntry, SyncState DEF SyncStates
  <1>7. peerVoice' = [peerVoice EXCEPT ![i][p] = @ \cup sync[i].held]
    BY DEF MergeEnd, HeldByPeer
  <1>8. peerVoice' = [peerVoice EXCEPT ![i][p] = peerVoice[i][p] \cup sync[i].held]
    BY <1>1, <1>7 DEF Base, TypeOK
  <1>9. peerVoice' \in PeerMaps
    BY <1>1, <1>6, <1>8, SetPeer, TypedIsTypeOK DEF Base, Typed
  <1> QED
    BY <1>1, <1>5, <1>7, <1>9

\* The periodic sync.
LEMMA BaseSync ==
    ASSUME Base, NEW i \in Instances, Sync(i) \/ SyncFails(i)
    PROVE  Based' /\ SyncKeeps
  <1> USE DEF machines, sockets, peers, bus, SyncKeeps
  <1>0. /\ Typed
        /\ voice \in [Instances -> Sessions] /\ holder \in HolderMaps
        /\ peerVoice \in PeerMaps /\ absent \in PeerMaps
        /\ reported \in [Instances -> SUBSET Instances]
        /\ snap \in [Instances -> Sessions \cup {None}] /\ spent \in [Budgets -> Nat]
    BY TypedIsTypeOK DEF Base, Typed
  <1>1. CASE SyncBegin(i)
    BY <1>0, <1>1, BeginEffect, BaseOfSync DEF SyncBegin
  <1>2. CASE SyncWrite(i)
    <2>1. snap' \in [Instances -> Sessions \cup {None}]
      BY <1>0, <1>2, SyncState DEF SyncWrite, SyncStates
    <2> QED
      BY <1>0, <1>2, <2>1, WriteEffect, BaseOfSync DEF SyncWrite
  <1>3. CASE \E p \in Instances : SyncRead(i, p)
    BY <1>0, <1>3, ReadEffect, BaseOfSync DEF SyncRead
  <1>4. CASE SyncFails(i)
    BY <1>0, <1>4, FailEffect, BaseOfSync DEF SyncFails
  <1>5. CASE \E p \in Instances : ForgetPeer(i, p)
    <2>1. PICK p \in Instances : ForgetPeer(i, p)
      BY <1>5
    <2>2. peerVoice' \in PeerMaps /\ absent' \in PeerMaps
      BY <1>0, <2>1, SetPeer DEF ForgetPeer
    <2>3. reported' \in [Instances -> SUBSET Instances]
      BY <1>0, <2>1 DEF ForgetPeer
    <2> QED
      BY <1>0, <2>1, <2>2, <2>3, ForgetPeerEffect, BaseOfSync DEF ForgetPeer
  <1>6. CASE \E p \in Instances : ReconcileTake(i, p)
    <2>1. PICK p \in Instances : ReconcileTake(i, p)
      BY <1>6
    <2>2. Missing(i, p) \ GoneSessions(i, p) \in SUBSET Users
      BY PeerEntry DEF Missing
    <2>3. peerVoice' \in PeerMaps /\ absent' \in PeerMaps
      BY <1>0, <2>1, <2>2, SetPeer DEF ReconcileTake
    <2>4. reported' \in [Instances -> SUBSET Instances]
      BY <1>0, <2>1 DEF ReconcileTake
    <2> QED
      BY <1>0, <2>1, <2>3, <2>4, ReconcileEffect, BaseOfSync DEF ReconcileTake
  <1>7. CASE \E u \in Users : ForgetUser(i, u)
    <2>1. PICK u \in Users : ForgetUser(i, u)
      BY <1>7
    <2>2. PICK s : Becomes(i, s)
      BY <2>1, ForgetUserEffect
    <2> QED
      BY <1>0, <2>1, <2>2, BaseOfSync DEF ForgetUser
  <1>8. CASE ForgetAsks(i)
    <2>1. CASE PeersHoldVoice(i, sync[i].user)
      <3>1. NextUser(i) /\ sync[i].stage = "ask"
        BY <1>8, <2>1 DEF ForgetAsks
      <3> QED
        BY <1>0, <1>8, <3>1, NextUserEffect, BaseOfSync DEF ForgetAsks
    <2>2. CASE ~PeersHoldVoice(i, sync[i].user)
      <3>1. SetSync(i, [sync[i] EXCEPT !.stage = "remove"]) /\ sync[i].stage = "ask"
        BY <1>8, <2>2 DEF ForgetAsks
      <3> QED
        BY <1>0, <1>8, <3>1, StageEffect, BaseOfSync DEF ForgetAsks
    <2> QED
      BY <2>1, <2>2
  <1>9. CASE ForgetSession(i)
    <2>1. sync[i].stage = "remove" /\ sync[i].user \in Users
      BY <1>9, SyncState DEF ForgetSession, Shaped, AtUser, SyncStates
    <2>2. voice' \in [Instances -> Sessions]
      BY <1>9, <2>1, SetVoiceType DEF ForgetSession, Base
    <2>3. CASE voice[i][sync[i].user] = None
      <3>1. NextUser(i)
        BY <1>9, <2>3 DEF ForgetSession
      <3> QED
        BY <1>0, <1>9, <2>1, <2>2, <3>1, NextUserEffect, BaseOfSync DEF ForgetSession
    <2>4. CASE voice[i][sync[i].user] # None
      <3>1. SetSync(i, [sync[i] EXCEPT !.stage = "unhold"])
        BY <1>9, <2>4 DEF ForgetSession
      <3> QED
        BY <1>0, <1>9, <2>1, <2>2, <3>1, StageEffect, BaseOfSync DEF ForgetSession
    <2> QED
      BY <2>3, <2>4
  <1>10. CASE ForgetHolder(i)
    <2>1. sync[i].stage = "unhold" /\ sync[i].user \in Users
      BY <1>10, SyncState DEF ForgetHolder, Shaped, AtUser, SyncStates
    <2>2. holder' \in HolderMaps
      BY <1>10, <2>1, SetHolderType DEF ForgetHolder, Base
    <2> QED
      BY <1>0, <1>10, <2>1, <2>2, NextUserEffect, BaseOfSync DEF ForgetHolder
  <1>11. CASE \E u \in Users : MergeEntry(i, u)
    <2>1. PICK u \in Users : MergeEntry(i, u)
      BY <1>11
    <2>2. PICK s : Becomes(i, s)
      BY <2>1, MergeEntryEffect
    <2> QED
      BY <1>0, <2>1, <2>2, BaseOfSync DEF MergeEntry
  <1>12. CASE MergeInsert(i)
    BY <1>0, <1>12, MergeInsertEffect, BaseOfSync DEF MergeInsert
  <1>13. CASE MergeEnd(i)
    BY <1>0, <1>13, MergeEndEffect, BaseOfSync DEF MergeEnd
  <1> QED
    BY <1>1, <1>2, <1>3, <1>4, <1>5, <1>6, <1>7, <1>8, <1>9, <1>10, <1>11, <1>12, <1>13
    DEF Sync

LEMMA BaseStep == Base /\ Next => Base'
  <1> SUFFICES ASSUME Base, Next PROVE Base'
    OBVIOUS
  <1>1. Based'
    BY BaseInstances, BaseSockets, BaseClears, BasePublish, BaseBridge, BaseSync
    DEF Next, Step
  <1>2. (crossed \subseteq Instances \X Users)'
    BY DEF Next, NoteCrossed
  <1> QED
    BY <1>1, <1>2 DEF Base, Based, Typed, TypeOK, SockStates, BridgeStates, HolderMaps, PeerMaps

LEMMA BaseStutter == Base /\ UNCHANGED vars => Base'
  <1> SUFFICES ASSUME Base, UNCHANGED vars PROVE Base'
    OBVIOUS
  <1>1. Based'
    BY TypedIsTypeOK
    DEF Base, Based, Typed, Placed, Inboxed, SyncShape, vars, machines, sockets, peers, bus, redis
  <1>2. (crossed \subseteq Instances \X Users)'
    BY DEF Base, TypeOK, vars
  <1> QED
    BY <1>1, <1>2 DEF Base, Based, Typed, TypeOK, SockStates, BridgeStates, HolderMaps, PeerMaps

\* For every number of instances, users, channels and connections, the maps,
\* the inboxes, the snapshots and the handlers of ws/cluster.rs and
\* ws/handler.rs keep the types of the model.
THEOREM TypeCorrect == Spec => []TypeOK
  <1>1. Init => Base
    BY BaseInit
  <1>2. Base /\ [Next]_vars => Base'
    BY BaseStep, BaseStutter
  <1>3. Base => TypeOK
    BY DEF Base
  <1> QED
    BY <1>1, <1>2, <1>3, PTL DEF Spec

-----------------------------------------------------------------------------
(* A recorded holder is live *)

\* Steps that move no socket and record no holder.
LEMMA LiveShrinks ==
    ASSUME HolderIsLive, at' = at, sock' = sock,
           \A j \in Instances, w \in Users : holder'[j][w] \in {holder[j][w], None}
    PROVE  HolderIsLive'
  BY DEF HolderIsLive

\* A removed holder.
LEMMA LiveCleared ==
    ASSUME Base, HolderIsLive, at' = at, sock' = sock,
           NEW i \in Instances, NEW u \in Users, SetHolder(i, u, None)
    PROVE  HolderIsLive'
  BY SetHolderType, LiveShrinks DEF Base

\* Where a recorded holder may be.
Lively == {"open", "joining", "leaving", "closing", "closing_last"}

\* Steps of one connection: what remains to be seen is what it holds itself.
LEMMA LiveMoved ==
    ASSUME TypeOK, HolderIsLive, NEW c \in Connections,
           \A d \in Connections \ {c} : at'[d] = at[d] /\ sock'[d] = sock[d],
           \A j \in Instances, w \in Users :
              /\ holder'[j][w] \in {holder[j][w], None, c}
              /\ holder'[j][w] = c => at'[c] = j /\ Owner[c] = w /\ sock'[c] \in Lively
    PROVE  HolderIsLive'
  <1> SUFFICES ASSUME NEW j \in Instances, NEW w \in Users, holder'[j][w] # None
               PROVE  LET d == holder'[j][w] IN
                      /\ at'[d] = j /\ Owner[d] = w /\ sock'[d] \in Lively
    BY DEF HolderIsLive, Lively
  <1>1. CASE holder'[j][w] = c
    BY <1>1
  <1>2. CASE holder'[j][w] # c
    <2>1. holder'[j][w] = holder[j][w]
      BY <1>2
    <2>2. holder[j][w] \in Connections \ {c}
      BY <1>2, <2>1 DEF TypeOK
    <2> QED
      BY <2>1, <2>2 DEF HolderIsLive, Lively
  <1> QED
    BY <1>1, <1>2

LEMMA LiveSockets ==
    ASSUME Base, HolderIsLive, NEW c \in Connections,
           \/ \E i \in Instances : Connect(c, i)
           \/ Disconnect(c) \/ EndsSocket(c) \/ JoinVoiceHolder(c) \/ Leaves(c)
           \/ \E ch \in Channels : JoinVoice(c, ch)
    PROVE  HolderIsLive'
  <1> DEFINE i == at[c]
             u == Owner[c]
  <1>t. TypeOK /\ Placed
    BY DEF Base
  <1>h. \A j \in Instances, w \in Users :
          holder[j][w] = c => at[c] = j /\ Owner[c] = w /\ sock[c] \in Lively
    BY NoneAssumption DEF HolderIsLive, Lively
  <1>1. CASE \E j \in Instances : Connect(c, j)
    <2>1. PICK j \in Instances : Connect(c, j)
      BY <1>1
    <2>2. /\ holder' = holder /\ sock[c] = "none"
          /\ \A d \in Connections \ {c} : at'[d] = at[d] /\ sock'[d] = sock[d]
      BY <1>t, <2>1 DEF Connect, TypeOK
    <2>3. \A j2 \in Instances, w \in Users : holder[j2][w] # c
      BY <1>h, <2>2 DEF Lively
    <2> QED
      BY <1>t, <2>2, <2>3, LiveMoved
  <1>2. CASE Disconnect(c)
    <2>1. PICK s \in {"closing", "closing_last"} : sock' = [sock EXCEPT ![c] = s]
      BY <1>2 DEF Disconnect
    <2>2. sock'[c] \in Lively /\ \A d \in Connections \ {c} : sock'[d] = sock[d]
      BY <1>t, <2>1 DEF TypeOK, Lively
    <2>3. holder' = holder /\ at' = at
      BY <1>2 DEF Disconnect
    <2> QED
      BY <1>t, <1>h, <2>2, <2>3, LiveMoved
  <1>3. CASE EndHolder(c)
    <2>1. i \in Instances /\ u \in Users
      BY <1>3, <1>t, PlacedInstance DEF EndHolder
    <2>2. CASE Holds(i, u, c)
      <3>1. SetHolder(i, u, None) /\ sock' = [sock EXCEPT ![c] = "ending"] /\ at' = at
        BY <1>3, <2>2 DEF EndHolder
      <3>2. /\ holder'[i][u] = None
            /\ \A j \in Instances, w \in Users : j # i \/ w # u => holder'[j][w] = holder[j][w]
        BY <1>t, <2>1, <3>1, SetHolderType
      <3>3. \A d \in Connections \ {c} : sock'[d] = sock[d]
        BY <1>t, <3>1 DEF TypeOK
      <3>4. \A j \in Instances, w \in Users : holder'[j][w] # c
        BY <1>h, <3>2, NoneAssumption
      <3> QED
        BY <1>t, <3>1, <3>2, <3>3, <3>4, LiveMoved
    <2>3. CASE ~Holds(i, u, c)
      <3>1. holder' = holder
            /\ (Gone(c) \/ (sock' = [sock EXCEPT ![c] = "unheld"] /\ at' = at))
        BY <1>3, <2>3 DEF EndHolder
      <3>2. \A d \in Connections \ {c} : at'[d] = at[d] /\ sock'[d] = sock[d]
        BY <1>t, <3>1 DEF TypeOK, Gone
      <3>3. \A j \in Instances, w \in Users : holder'[j][w] # c
        BY <1>h, <2>3, <3>1 DEF Holds
      <3> QED
        BY <1>t, <3>1, <3>2, <3>3, LiveMoved
    <2> QED
      BY <2>2, <2>3
  <1>4. CASE AskHolder(c) \/ AskPeers(c) \/ EndVoice(c)
    <2>1. sock[c] \notin Lively /\ holder' = holder
      BY <1>4 DEF AskHolder, AskPeers, EndVoice, Lively
    <2>2. \A d \in Connections \ {c} : at'[d] = at[d] /\ sock'[d] = sock[d]
      BY <1>4, <1>t DEF AskHolder, AskPeers, EndVoice, Gone, TypeOK
    <2>3. \A j \in Instances, w \in Users : holder[j][w] # c
      BY <1>h, <2>1
    <2> QED
      BY <1>t, <2>1, <2>2, <2>3, LiveMoved
  <1>5. CASE JoinVoiceHolder(c)
    <2>1. i \in Instances /\ u \in Users
      BY <1>5, <1>t, PlacedInstance DEF JoinVoiceHolder
    <2>2. /\ holder'[i][u] = c
          /\ \A j \in Instances, w \in Users : j # i \/ w # u => holder'[j][w] = holder[j][w]
      BY <1>5, <1>t, <2>1, SetHolderType DEF JoinVoiceHolder
    <2>3. at' = at /\ sock'[c] = "open" /\ \A d \in Connections \ {c} : sock'[d] = sock[d]
      BY <1>5, <1>t DEF JoinVoiceHolder, TypeOK
    <2>4. \A j \in Instances, w \in Users :
            /\ holder'[j][w] \in {holder[j][w], None, c}
            /\ holder'[j][w] = c => at'[c] = j /\ Owner[c] = w /\ sock'[c] \in Lively
      BY <1>h, <2>2, <2>3 DEF Lively
    <2> QED
      BY <1>t, <2>3, <2>4, LiveMoved
  <1>6. CASE LeaveVoiceHolder(c)
    <2>1. i \in Instances /\ u \in Users
      BY <1>6, <1>t, PlacedInstance DEF LeaveVoiceHolder
    <2>2. /\ holder'[i][u] = None
          /\ \A j \in Instances, w \in Users : j # i \/ w # u => holder'[j][w] = holder[j][w]
      BY <1>6, <1>t, <2>1, SetHolderType DEF LeaveVoiceHolder
    <2>3. at' = at /\ \A d \in Connections \ {c} : sock'[d] = sock[d]
      BY <1>6, <1>t DEF LeaveVoiceHolder, TypeOK
    <2>4. \A j \in Instances, w \in Users : holder'[j][w] # c
      BY <1>6, <1>h, <2>2, NoneAssumption
    <2> QED
      BY <1>t, <2>2, <2>3, <2>4, LiveMoved
  <1>7. CASE LeaveVoice(c) \/ LeaveVoiceSession(c) \/ \E ch \in Channels : JoinVoice(c, ch)
    <2>1. holder' = holder /\ at' = at /\ sock'[c] \in Lively
      BY <1>7, <1>t DEF LeaveVoice, LeaveVoiceSession, JoinVoice, TypeOK, Lively
    <2>2. \A d \in Connections \ {c} : sock'[d] = sock[d]
      BY <1>7, <1>t DEF LeaveVoice, LeaveVoiceSession, JoinVoice, TypeOK
    <2> QED
      BY <1>t, <1>h, <2>1, <2>2, LiveMoved
  <1> QED
    BY <1>1, <1>2, <1>3, <1>4, <1>5, <1>6, <1>7 DEF EndsSocket, Leaves

LEMMA LiveInstances ==
    ASSUME Base, HolderIsLive, NEW i \in Instances, Start(i) \/ Crash(i) \/ Expire(i)
    PROVE  HolderIsLive'
  <1>t. TypeOK
    BY DEF Base
  <1>1. CASE Start(i) \/ Expire(i)
    BY <1>1, LiveShrinks DEF Start, Expire, sockets
  <1>2. CASE Crash(i)
    <2>1. \A u \in Users : holder'[i][u] = None
      BY <1>2, <1>t DEF Crash, TypeOK, NoSessions
    <2>2. \A j \in Instances \ {i} : holder'[j] = holder[j]
      BY <1>2, <1>t DEF Crash, TypeOK
    <2>3. \A c \in Connections : at[c] # i => at'[c] = at[c] /\ sock'[c] = sock[c]
      BY <1>2 DEF Crash
    <2> SUFFICES ASSUME NEW j \in Instances, NEW u \in Users, holder'[j][u] # None
                 PROVE  LET d == holder'[j][u] IN
                        at'[d] = j /\ Owner[d] = u /\ sock'[d] \in Lively
      BY DEF HolderIsLive, Lively
    <2>5. j # i /\ holder'[j][u] = holder[j][u] /\ holder[j][u] \in Connections
      BY <1>t, <2>1, <2>2 DEF TypeOK
    <2>6. at[holder[j][u]] = j /\ Owner[holder[j][u]] = u /\ sock[holder[j][u]] \in Lively
      BY <2>5 DEF HolderIsLive, Lively
    <2> QED
      BY <2>3, <2>5, <2>6
  <1> QED
    BY <1>1, <1>2

LEMMA LiveStep == Base /\ HolderIsLive /\ [Next]_vars => HolderIsLive'
  <1> SUFFICES ASSUME Base, HolderIsLive, [Next]_vars PROVE HolderIsLive'
    OBVIOUS
  <1>t. TypeOK
    BY DEF Base
  <1>1. CASE UNCHANGED vars
    BY <1>1 DEF HolderIsLive, vars
  <1>2. CASE \E i \in Instances : Start(i) \/ Crash(i) \/ Expire(i)
    BY <1>2, LiveInstances
  <1>3. CASE \E c \in Connections :
               \/ \E i \in Instances : Connect(c, i)
               \/ Disconnect(c) \/ EndsSocket(c) \/ JoinVoiceHolder(c) \/ Leaves(c)
               \/ \E ch \in Channels : JoinVoice(c, ch)
    BY <1>3, LiveSockets
  <1>4. CASE \E i \in Instances, u \in Users : ClearLocalVoiceSession(i, u) \/ ClearHolder(i, u)
    <2>1. PICK i \in Instances, u \in Users : ClearLocalVoiceSession(i, u) \/ ClearHolder(i, u)
      BY <1>4
    <2>2. CASE ClearLocalVoiceSession(i, u)
      BY <2>2, LiveShrinks DEF ClearLocalVoiceSession, sockets
    <2>3. CASE ClearHolder(i, u)
      BY <2>3, LiveCleared DEF ClearHolder, sockets
    <2> QED
      BY <2>1, <2>2, <2>3
  <1>5. CASE \E e \in publishing : Publish(e)
    BY <1>5, LiveShrinks DEF Publish, sockets
  <1>6. CASE \E i \in Instances : Bridge(i)
    <2>1. PICK i \in Instances : Bridge(i)
      BY <1>6
    <2>2. CASE ApplyJoin(i) \/ ApplyDeparture(i) \/ ApplyForgetSession(i)
      BY <2>2, LiveShrinks DEF ApplyJoin, ApplyDeparture, ApplyForgetSession, sockets
    <2>3. CASE ApplyJoinHolder(i) \/ ApplyForgetHolder(i)
      <3>1. inbox[i] # <<>>
        BY <2>3 DEF ApplyJoinHolder, ApplyForgetHolder, Base, Inboxed
      <3>2. SetHolder(i, Head(inbox[i]).user, None) /\ at' = at /\ sock' = sock
        BY <2>3 DEF ApplyJoinHolder, ApplyForgetHolder, sockets
      <3> QED
        BY <1>t, <3>1, <3>2, HeadEvent, LiveCleared
    <2> QED
      BY <2>1, <2>2, <2>3 DEF Bridge
  <1>7. CASE \E i \in Instances : Sync(i) \/ SyncFails(i)
    <2>1. PICK i \in Instances : Sync(i) \/ SyncFails(i)
      BY <1>7
    <2>2. CASE ForgetHolder(i)
      <3>1. sync[i].user \in Users
        BY <2>2, SyncState DEF ForgetHolder, Shaped, AtUser, SyncStates
      <3> QED
        BY <2>2, <3>1, LiveCleared DEF ForgetHolder, sockets
    <2>3. CASE ~ForgetHolder(i)
      <3>1. holder' = holder /\ at' = at /\ sock' = sock
        BY <2>1, <2>3
        DEF Sync, SyncBegin, SyncWrite, SyncRead, SyncFails, ForgetPeer, ReconcileTake,
            ForgetUser, ForgetAsks, ForgetSession, MergeEntry, MergeInsert, MergeEnd, sockets
      <3> QED
        BY <3>1, LiveShrinks
    <2> QED
      BY <2>2, <2>3
  <1> QED
    BY <1>1, <1>2, <1>3, <1>4, <1>5, <1>6, <1>7 DEF Next, Step

LEMMA LiveInit == Init => HolderIsLive
  BY DEF Init, HolderIsLive, NoSessions

\* No interleaving of joins, takeovers, leaves, closing sockets, removals and
\* syncs between the maps leaves a recorded holder whose connection is gone
\* (JoinVoice, the cleanup of handle_socket, apply_peer_event, sync_peers).
THEOREM HolderIsAlwaysLive == Spec => []HolderIsLive
  <1>1. Init => Base /\ HolderIsLive
    BY BaseInit, LiveInit
  <1>2. Base /\ HolderIsLive /\ [Next]_vars => (Base /\ HolderIsLive)'
    BY BaseStep, BaseStutter, LiveStep
  <1> QED
    BY <1>1, <1>2, PTL DEF Spec

-----------------------------------------------------------------------------
(* One user's session on one instance, while its handlers do not meet *)

MidStates == {"joining", "leaving", "left", "unheld", "alone", "ending"}

\* The handlers between two accesses, one kind each (Handling).
SocketHandles(c, i, u) == at[c] = i /\ Owner[c] = u /\ sock[c] \in MidStates
Clears(i, u) == u \in removing[i]
Bridges(i, u) == bridge[i] # "idle" /\ Head(inbox[i]).user = u
Syncs(i, u) == sync[i].user = u

Calm(i, u) ==
    /\ \A c \in Connections : ~SocketHandles(c, i, u)
    /\ ~Clears(i, u) /\ ~Bridges(i, u) /\ ~Syncs(i, u)

Solo(i, u) ==
    /\ \A c, d \in Connections : SocketHandles(c, i, u) /\ SocketHandles(d, i, u) => c = d
    /\ (\E c \in Connections : SocketHandles(c, i, u)) =>
          ~Clears(i, u) /\ ~Bridges(i, u) /\ ~Syncs(i, u)
    /\ Clears(i, u) => ~Bridges(i, u) /\ ~Syncs(i, u)
    /\ Bridges(i, u) => ~Syncs(i, u)

Backers(i, u) == PeersHoldVoice(i, u) \/ u \in sync[i].held \cup sync[i].users
Backed(i, u) == voice[i][u] # None => holder[i][u] # None \/ Backers(i, u)
Paired(i, u) == holder[i][u] # None => voice[i][u] # None

\* What a handler has established and the others must not have touched.
SocketOk(c, i, u) ==
    /\ sock[c] = "joining" => voice[i][u] # None
    /\ sock[c] = "leaving" => holder[i][u] \in {None, c}
    /\ sock[c] \in {"left", "alone", "ending"} => holder[i][u] = None
    /\ sock[c] = "unheld" => Paired(i, u)

BridgeOk(i, u) ==
    /\ bridge[i] = "forgets" => Paired(i, u)
    /\ bridge[i] = "forgot" => voice[i][u] = None

SyncOk(i, u) ==
    /\ sync[i].stage \in {"ask", "remove"} => holder[i][u] = None
    /\ sync[i].stage = "unhold" => voice[i][u] = None

\* Between handlers the session is backed and paired; during one, what it
\* established stands.
Sit(i, u) ==
    /\ \A c \in Connections : SocketHandles(c, i, u) => SocketOk(c, i, u)
    /\ Clears(i, u) => voice[i][u] = None
    /\ Bridges(i, u) => BridgeOk(i, u)
    /\ Syncs(i, u) => SyncOk(i, u)
    /\ Calm(i, u) => Backed(i, u) /\ Paired(i, u)

LEMMA CalmIs ==
    ASSUME NEW i \in Instances, NEW u \in Users, Handling(i, u) = {}
    PROVE  Calm(i, u)
  <1>1. \A c \in Connections : ~SocketHandles(c, i, u)
    <2>1. \A c \in Connections : <<"socket", c>> \notin Handling(i, u)
      OBVIOUS
    <2> QED
      BY <2>1 DEF Handling, SocketHandles, MidStates
  <1>2. ~Clears(i, u) /\ ~Bridges(i, u) /\ ~Syncs(i, u)
    <2>1. <<"clear", i>> \notin Handling(i, u) /\ <<"bridge", i>> \notin Handling(i, u)
          /\ <<"sync", i>> \notin Handling(i, u)
      OBVIOUS
    <2> QED
      BY <2>1 DEF Handling, Clears, Bridges, Syncs
  <1> QED
    BY <1>1, <1>2 DEF Calm

\* Where two handlers met is recorded, and forgotten when nothing is left.
LEMMA NotCrossed ==
    ASSUME NEW i \in Instances, NEW u \in Users, NoteCrossed, <<i, u>> \notin crossed'
    PROVE  /\ Solo(i, u)'
           /\ \/ <<i, u>> \notin crossed
              \/ Calm(i, u)' /\ voice'[i][u] = None /\ holder'[i][u] = None
  <1>1. ~Crossing(i, u)' /\ (<<i, u>> \notin crossed \/ Cleared(i, u)')
    BY DEF NoteCrossed
  <1>2. \A s, t \in Handling(i, u)' : s = t
    BY <1>1 DEF Crossing
  <1>3. \A c \in Connections : SocketHandles(c, i, u)' => <<"socket", c>> \in Handling(i, u)'
    BY DEF Handling, SocketHandles, MidStates
  <1>4. /\ Clears(i, u)' => <<"clear", i>> \in Handling(i, u)'
        /\ Bridges(i, u)' => <<"bridge", i>> \in Handling(i, u)'
        /\ Syncs(i, u)' => <<"sync", i>> \in Handling(i, u)'
    BY DEF Handling, Clears, Bridges, Syncs
  <1>5. /\ \A c, d \in Connections : <<"socket", c>> = <<"socket", d>> => c = d
        /\ \A c \in Connections : /\ <<"socket", c>> # <<"clear", i>>
                                  /\ <<"socket", c>> # <<"bridge", i>>
                                  /\ <<"socket", c>> # <<"sync", i>>
        /\ <<"clear", i>> # <<"bridge", i>>
        /\ <<"clear", i>> # <<"sync", i>>
        /\ <<"bridge", i>> # <<"sync", i>>
    OBVIOUS
  <1>6. Solo(i, u)'
    <2>1. (\A c, d \in Connections :
             SocketHandles(c, i, u) /\ SocketHandles(d, i, u) => c = d)'
      BY <1>2, <1>3, <1>5
    <2>2. ((\E c \in Connections : SocketHandles(c, i, u)) =>
             ~Clears(i, u) /\ ~Bridges(i, u) /\ ~Syncs(i, u))'
      BY <1>2, <1>3, <1>4, <1>5
    <2>3. (Clears(i, u) => ~Bridges(i, u) /\ ~Syncs(i, u))'
          /\ (Bridges(i, u) => ~Syncs(i, u))'
      BY <1>2, <1>4, <1>5
    <2> QED
      BY <2>1, <2>2, <2>3 DEF Solo
  <1>7. Cleared(i, u)' => /\ Calm(i, u)' /\ voice'[i][u] = None /\ holder'[i][u] = None
    <2> SUFFICES ASSUME Cleared(i, u)'
                 PROVE  Calm(i, u)' /\ voice'[i][u] = None /\ holder'[i][u] = None
      OBVIOUS
    <2>1. Handling(i, u)' = {} /\ voice'[i][u] = None /\ holder'[i][u] = None
      BY DEF Cleared
    <2> QED
      BY <1>3, <1>4, <2>1 DEF Calm
  <1> QED
    BY <1>1, <1>6, <1>7

-----------------------------------------------------------------------------
(* How a step may leave one user's session *)

\* The one handler at work is a socket's, a removal's, the bridge's, the sync's.
LEMMA OnlySocket ==
    ASSUME NEW i \in Instances, NEW u \in Users, Solo(i, u)',
           NEW c \in Connections, SocketHandles(c, i, u)', SocketOk(c, i, u)'
    PROVE  Sit(i, u)'
  BY DEF Sit, Solo, Calm

LEMMA OnlyClear ==
    ASSUME NEW i \in Instances, NEW u \in Users, Solo(i, u)', Clears(i, u)',
           voice'[i][u] = None
    PROVE  Sit(i, u)'
  BY DEF Sit, Solo, Calm

LEMMA OnlyBridge ==
    ASSUME NEW i \in Instances, NEW u \in Users, Solo(i, u)', Bridges(i, u)', BridgeOk(i, u)'
    PROVE  Sit(i, u)'
  BY DEF Sit, Solo, Calm

LEMMA OnlySync ==
    ASSUME NEW i \in Instances, NEW u \in Users, Solo(i, u)', Syncs(i, u)', SyncOk(i, u)'
    PROVE  Sit(i, u)'
  BY DEF Sit, Solo, Calm

LEMMA NobodyLeft ==
    ASSUME NEW i \in Instances, NEW u \in Users, Calm(i, u)', Backed(i, u)', Paired(i, u)'
    PROVE  Sit(i, u)'
  BY DEF Sit, Calm

SameSockets(i, u) ==
    \A c \in Connections : /\ SocketHandles(c, i, u)' <=> SocketHandles(c, i, u)
                           /\ SocketHandles(c, i, u) => sock'[c] = sock[c]
SameClears(i, u) == Clears(i, u)' <=> Clears(i, u)
SameBridge(i, u) == /\ Bridges(i, u)' <=> Bridges(i, u)
                    /\ Bridges(i, u) => bridge'[i] = bridge[i]
SameSync(i, u) == /\ Syncs(i, u)' <=> Syncs(i, u)
                  /\ Syncs(i, u) => sync'[i].stage = sync[i].stage
SameEntries(i, u) == voice'[i][u] = voice[i][u] /\ holder'[i][u] = holder[i][u]
SameBackers(i, u) == Backers(i, u) => holder[i][u] # None \/ Backers(i, u)'

\* Nothing of the user's session is touched on the instance.
LEMMA Untouched ==
    ASSUME NEW i \in Instances, NEW u \in Users, Sit(i, u),
           SameSockets(i, u), SameClears(i, u), SameBridge(i, u), SameSync(i, u),
           SameEntries(i, u), SameBackers(i, u)
    PROVE  Sit(i, u)'
  <1> USE DEF Sit, SameSockets, SameClears, SameBridge, SameSync, SameEntries, SameBackers
  <1>1. (\A c \in Connections : SocketHandles(c, i, u) => SocketOk(c, i, u))'
    BY DEF SocketOk, Paired
  <1>2. (Clears(i, u) => voice[i][u] = None)'
    OBVIOUS
  <1>3. (Bridges(i, u) => BridgeOk(i, u))'
    BY DEF BridgeOk, Paired
  <1>4. (Syncs(i, u) => SyncOk(i, u))'
    BY DEF SyncOk
  <1>5. (Calm(i, u) => Backed(i, u) /\ Paired(i, u))'
    BY DEF Calm, Backed, Paired
  <1> QED
    BY <1>1, <1>2, <1>3, <1>4, <1>5

\* A step of one connection: what the other connections' handlers do stays.
OthersSame(c) == \A d \in Connections \ {c} : at'[d] = at[d] /\ sock'[d] = sock[d]

LEMMA ElsewhereIs ==
    ASSUME ElsewhereSame, NEW i \in Instances, NEW u \in Users
    PROVE  SameClears(i, u) /\ SameBridge(i, u) /\ SameSync(i, u) /\ SameBackers(i, u)
  BY DEF ElsewhereSame, SameClears, SameBridge, SameSync, SameBackers, Clears, Bridges,
         Syncs, Backers, PeersHoldVoice

\* It starts to handle: nobody else does, and nobody did.
LEMMA WasCalm ==
    ASSUME NEW i \in Instances, NEW u \in Users, Sit(i, u), Solo(i, u)',
           NEW c \in Connections, ElsewhereSame, OthersSame(c),
           ~SocketHandles(c, i, u), SocketHandles(c, i, u)'
    PROVE  Backed(i, u) /\ Paired(i, u)
  <1>1. SameClears(i, u) /\ SameBridge(i, u) /\ SameSync(i, u)
    BY ElsewhereIs
  <1>2. \A d \in Connections \ {c} : SocketHandles(d, i, u)' <=> SocketHandles(d, i, u)
    BY DEF OthersSame, SocketHandles
  <1>3. Calm(i, u)
    BY <1>1, <1>2 DEF Solo, Calm, SameClears, SameBridge, SameSync
  <1> QED
    BY <1>3 DEF Sit

\* It ceases to handle: nobody does.
LEMMA IsCalm ==
    ASSUME NEW i \in Instances, NEW u \in Users, Solo(i, u),
           NEW c \in Connections, ElsewhereSame, OthersSame(c),
           SocketHandles(c, i, u), ~SocketHandles(c, i, u)'
    PROVE  Calm(i, u)'
  <1>1. SameClears(i, u) /\ SameBridge(i, u) /\ SameSync(i, u)
    BY ElsewhereIs
  <1>2. \A d \in Connections \ {c} : SocketHandles(d, i, u)' <=> SocketHandles(d, i, u)
    BY DEF OthersSame, SocketHandles
  <1> QED
    BY <1>1, <1>2 DEF Solo, Calm, SameClears, SameBridge, SameSync

\* It handled nothing and handles nothing.
LEMMA Uninvolved ==
    ASSUME NEW i \in Instances, NEW u \in Users, Sit(i, u),
           NEW c \in Connections, ElsewhereSame, OthersSame(c),
           ~SocketHandles(c, i, u), ~SocketHandles(c, i, u)', SameEntries(i, u)
    PROVE  Sit(i, u)'
  <1>1. SameSockets(i, u)
    BY DEF SameSockets, OthersSame, SocketHandles
  <1> QED
    BY <1>1, ElsewhereIs, Untouched

-----------------------------------------------------------------------------
(* The steps of a connection *)

SocketStep(c) ==
    \/ \E i \in Instances : Connect(c, i)
    \/ Disconnect(c) \/ EndsSocket(c) \/ JoinVoiceHolder(c) \/ Leaves(c)
    \/ \E ch \in Channels : JoinVoice(c, ch)

LEMMA SocketStepOthers ==
    ASSUME Base, NEW c \in Connections, SocketStep(c)
    PROVE  OthersSame(c)
  <1>t. TypeOK
    BY DEF Base
  <1>1. CASE \E i \in Instances : Connect(c, i)
    BY <1>t, <1>1 DEF Connect, OthersSame, TypeOK
  <1>2. CASE Disconnect(c) \/ JoinVoiceHolder(c) \/ Leaves(c) \/ \E ch \in Channels : JoinVoice(c, ch)
    BY <1>t, <1>2 DEF Disconnect, JoinVoiceHolder, Leaves, LeaveVoice, LeaveVoiceHolder,
                      LeaveVoiceSession, JoinVoice, OthersSame, TypeOK
  <1>3. CASE EndsSocket(c)
    BY <1>t, <1>3 DEF EndsSocket, EndHolder, AskHolder, AskPeers, EndVoice, Gone, OthersSame,
                      TypeOK
  <1> QED
    BY <1>1, <1>2, <1>3 DEF SocketStep

\* A socket that opens or starts to close has nothing to do with a session yet.
LEMMA SitOpens ==
    ASSUME Base, NEW c \in Connections,
           Disconnect(c) \/ \E j \in Instances : Connect(c, j),
           NEW i \in Instances, NEW u \in Users, Sit(i, u)
    PROVE  Sit(i, u)'
  <1>1. SocketStep(c)
    BY DEF SocketStep
  <1>2. sock[c] \notin MidStates /\ sock'[c] \notin MidStates
    BY DEF Disconnect, Connect, MidStates, Base, TypeOK
  <1>3. SameEntries(i, u)
    BY DEF Disconnect, Connect, SameEntries
  <1> QED
    BY <1>1, <1>2, <1>3, BaseSockets, SocketStepOthers, Uninvolved
    DEF SocketStep, SocketHandles

\* The other steps of a connection reach one user on one instance.
LEMMA SitElsewhere ==
    ASSUME Base, NEW c \in Connections,
           EndsSocket(c) \/ JoinVoiceHolder(c) \/ Leaves(c)
              \/ \E ch \in Channels : JoinVoice(c, ch),
           NEW i \in Instances, NEW u \in Users, Sit(i, u), at[c] # i \/ Owner[c] # u
    PROVE  Sit(i, u)'
  <1>t. TypeOK
    BY DEF Base
  <1>0. SocketStep(c)
    BY DEF SocketStep
  <1>1. at[c] \in Instances /\ Owner[c] \in Users
    <2>1. sock[c] # "none"
      BY DEF EndsSocket, EndHolder, AskHolder, AskPeers, EndVoice, JoinVoiceHolder, Leaves,
             LeaveVoice, LeaveVoiceHolder, LeaveVoiceSession, JoinVoice
    <2> QED
      BY <2>1, PlacedInstance DEF Base
  <1>2. at'[c] \in {at[c], None}
    <2>1. CASE EndsSocket(c)
      BY <1>t, <2>1 DEF EndsSocket, EndHolder, AskHolder, AskPeers, EndVoice, Gone, TypeOK
    <2>2. CASE JoinVoiceHolder(c) \/ Leaves(c) \/ \E ch \in Channels : JoinVoice(c, ch)
      BY <2>2 DEF JoinVoiceHolder, Leaves, LeaveVoice, LeaveVoiceHolder, LeaveVoiceSession,
                  JoinVoice
    <2> QED
      BY <2>1, <2>2
  <1>3. ~SocketHandles(c, i, u) /\ ~SocketHandles(c, i, u)'
    BY <1>2, NoneAssumption DEF SocketHandles
  <1>4. voice' = voice \/ \E ch \in Channels \cup {None} : SetVoice(at[c], Owner[c], ch)
    BY DEF EndsSocket, EndHolder, AskHolder, AskPeers, EndVoice, JoinVoiceHolder, Leaves,
           LeaveVoice, LeaveVoiceHolder, LeaveVoiceSession, JoinVoice
  <1>5. holder' = holder
        \/ \E d \in Connections \cup {None} : SetHolder(at[c], Owner[c], d)
    BY DEF EndsSocket, EndHolder, AskHolder, AskPeers, EndVoice, JoinVoiceHolder, Leaves,
           LeaveVoice, LeaveVoiceHolder, LeaveVoiceSession, JoinVoice
  <1>6. voice'[i][u] = voice[i][u]
    BY <1>t, <1>1, <1>4, SetVoiceType
  <1>7. holder'[i][u] = holder[i][u]
    BY <1>t, <1>1, <1>5, SetHolderType
  <1> QED
    BY <1>0, <1>3, <1>6, <1>7, BaseSockets, SocketStepOthers, Uninvolved
    DEF SocketStep, SameEntries

\* The end of a socket.
LEMMA SitEnds ==
    ASSUME Base, NEW c \in Connections, EndsSocket(c), NEW i \in Instances, NEW u \in Users,
           i = at[c], u = Owner[c], Solo(i, u), Sit(i, u), Solo(i, u)'
    PROVE  Sit(i, u)'
  <1>t. TypeOK
    BY DEF Base
  <1>e. ElsewhereSame /\ OthersSame(c)
    BY BaseSockets, SocketStepOthers DEF SocketStep
  <1>p. PeersHoldVoice(i, u)' <=> PeersHoldVoice(i, u)
    BY <1>e DEF ElsewhereSame, PeersHoldVoice
  <1>g. Gone(c) => sock'[c] = "none" /\ ~SocketHandles(c, i, u)'
    BY <1>t DEF Gone, SocketHandles, MidStates, TypeOK
  <1>s. \A s \in MidStates : sock' = [sock EXCEPT ![c] = s] /\ at' = at
                               => sock'[c] = s /\ SocketHandles(c, i, u)'
    BY <1>t DEF SocketHandles, TypeOK
  <1>1. CASE EndHolder(c)
    <2>0. sock[c] \in {"closing", "closing_last"} /\ ~SocketHandles(c, i, u) /\ voice' = voice
      BY <1>1 DEF EndHolder, SocketHandles, MidStates
    <2>1. CASE Holds(i, u, c)
      <3>1. sock'[c] = "ending" /\ SocketHandles(c, i, u)'
        BY <1>1, <1>s, <2>1 DEF EndHolder, MidStates
      <3>2. holder'[i][u] = None
        BY <1>1, <1>t, <2>1, SetHolderType DEF EndHolder
      <3>3. SocketOk(c, i, u)'
        BY <3>1, <3>2 DEF SocketOk
      <3> QED
        BY <3>1, <3>3, OnlySocket
    <2>2. CASE ~Holds(i, u, c) /\ sock[c] = "closing"
      BY <1>1, <1>e, <1>g, <2>0, <2>2, Uninvolved DEF EndHolder, SameEntries
    <2>3. CASE ~Holds(i, u, c) /\ sock[c] # "closing"
      <3>1. sock'[c] = "unheld" /\ SocketHandles(c, i, u)' /\ holder' = holder
        BY <1>1, <1>s, <2>3 DEF EndHolder, MidStates
      <3>2. Paired(i, u)
        BY <1>e, <2>0, <3>1, WasCalm
      <3>3. SocketOk(c, i, u)'
        BY <2>0, <3>1, <3>2 DEF SocketOk, Paired
      <3> QED
        BY <3>1, <3>3, OnlySocket
    <2> QED
      BY <2>1, <2>2, <2>3
  <1>2. CASE AskHolder(c)
    <2>0. /\ sock[c] = "unheld" /\ SocketHandles(c, i, u) /\ voice' = voice /\ holder' = holder
      BY <1>2 DEF AskHolder, SocketHandles, MidStates
    <2>1. Paired(i, u)
      BY <2>0 DEF Sit, SocketOk
    <2>2. CASE holder[i][u] # None
      <3>1. Calm(i, u)'
        BY <1>2, <1>e, <1>g, <2>0, <2>2, IsCalm DEF AskHolder
      <3> QED
        BY <2>0, <2>1, <2>2, <3>1, NobodyLeft DEF Backed, Paired
    <2>3. CASE holder[i][u] = None
      <3>1. sock'[c] = "alone" /\ SocketHandles(c, i, u)'
        BY <1>2, <1>s, <2>3 DEF AskHolder, MidStates
      <3> QED
        BY <2>0, <2>3, <3>1, OnlySocket DEF SocketOk
    <2> QED
      BY <2>2, <2>3
  <1>3. CASE AskPeers(c)
    <2>0. /\ sock[c] = "alone" /\ SocketHandles(c, i, u) /\ voice' = voice /\ holder' = holder
      BY <1>3 DEF AskPeers, SocketHandles, MidStates
    <2>1. holder[i][u] = None
      BY <2>0 DEF Sit, SocketOk
    <2>2. CASE PeersHoldVoice(i, u)
      <3>1. Calm(i, u)'
        BY <1>3, <1>e, <1>g, <2>0, <2>2, IsCalm DEF AskPeers
      <3> QED
        BY <1>p, <2>0, <2>1, <2>2, <3>1, NobodyLeft DEF Backed, Paired, Backers
    <2>3. CASE ~PeersHoldVoice(i, u)
      <3>1. sock'[c] = "ending" /\ SocketHandles(c, i, u)'
        BY <1>3, <1>s, <2>3 DEF AskPeers, MidStates
      <3> QED
        BY <2>0, <2>1, <3>1, OnlySocket DEF SocketOk
    <2> QED
      BY <2>2, <2>3
  <1>4. CASE EndVoice(c)
    <2>0. /\ sock[c] = "ending" /\ SocketHandles(c, i, u) /\ holder' = holder
      BY <1>4 DEF EndVoice, SocketHandles, MidStates
    <2>1. holder[i][u] = None
      BY <2>0 DEF Sit, SocketOk
    <2>2. voice'[i][u] = None
      BY <1>4, <1>t, SetVoiceType DEF EndVoice
    <2>3. Calm(i, u)'
      BY <1>4, <1>e, <1>g, <2>0, IsCalm DEF EndVoice
    <2> QED
      BY <2>0, <2>1, <2>2, <2>3, NobodyLeft DEF Backed, Paired
  <1> QED
    BY <1>1, <1>2, <1>3, <1>4 DEF EndsSocket

\* Joins and leaves.
LEMMA SitJoins ==
    ASSUME Base, NEW c \in Connections,
           JoinVoiceHolder(c) \/ Leaves(c) \/ \E ch \in Channels : JoinVoice(c, ch),
           NEW i \in Instances, NEW u \in Users,
           i = at[c], u = Owner[c], Solo(i, u), Sit(i, u), Solo(i, u)'
    PROVE  Sit(i, u)'
  <1>t. TypeOK
    BY DEF Base
  <1>e. ElsewhereSame /\ OthersSame(c)
    BY BaseSockets, SocketStepOthers DEF SocketStep
  <1>s. \A s \in MidStates : sock' = [sock EXCEPT ![c] = s] /\ at' = at
                               => sock'[c] = s /\ SocketHandles(c, i, u)'
    BY <1>t DEF SocketHandles, TypeOK
  <1>o. sock' = [sock EXCEPT ![c] = "open"] => ~SocketHandles(c, i, u)'
    BY <1>t DEF SocketHandles, TypeOK, MidStates
  <1>1. CASE \E ch \in Channels : JoinVoice(c, ch)
    <2>1. PICK ch \in Channels : JoinVoice(c, ch)
      BY <1>1
    <2>2. sock'[c] = "joining" /\ SocketHandles(c, i, u)'
      BY <1>s, <2>1 DEF JoinVoice, MidStates
    <2>3. voice'[i][u] # None
      BY <1>t, <2>1, SetVoiceType, NoneAssumption DEF JoinVoice
    <2> QED
      BY <2>2, <2>3, OnlySocket DEF SocketOk
  <1>2. CASE JoinVoiceHolder(c)
    <2>0. sock[c] = "joining" /\ SocketHandles(c, i, u) /\ voice' = voice
      BY <1>2 DEF JoinVoiceHolder, SocketHandles, MidStates
    <2>1. voice[i][u] # None
      BY <2>0 DEF Sit, SocketOk
    <2>2. holder'[i][u] = c /\ c # None
      BY <1>2, <1>t, SetHolderType, NoneAssumption DEF JoinVoiceHolder
    <2>3. Calm(i, u)'
      BY <1>2, <1>e, <1>o, <2>0, IsCalm DEF JoinVoiceHolder
    <2> QED
      BY <2>0, <2>1, <2>2, <2>3, NobodyLeft DEF Backed, Paired
  <1>3. CASE LeaveVoice(c)
    <2>1. sock'[c] = "leaving" /\ SocketHandles(c, i, u)'
      BY <1>3, <1>s DEF LeaveVoice, MidStates
    <2>2. holder'[i][u] \in {None, c}
      BY <1>3 DEF LeaveVoice, MayLeave
    <2> QED
      BY <2>1, <2>2, OnlySocket DEF SocketOk
  <1>4. CASE LeaveVoiceHolder(c)
    <2>1. sock'[c] = "left" /\ SocketHandles(c, i, u)'
      BY <1>4, <1>s DEF LeaveVoiceHolder, MidStates
    <2>2. holder'[i][u] = None
      BY <1>4, <1>t, SetHolderType DEF LeaveVoiceHolder
    <2> QED
      BY <2>1, <2>2, OnlySocket DEF SocketOk
  <1>5. CASE LeaveVoiceSession(c)
    <2>0. sock[c] = "left" /\ SocketHandles(c, i, u) /\ holder' = holder
      BY <1>5 DEF LeaveVoiceSession, SocketHandles, MidStates
    <2>1. holder[i][u] = None
      BY <2>0 DEF Sit, SocketOk
    <2>2. voice'[i][u] = None
      BY <1>5, <1>t, SetVoiceType DEF LeaveVoiceSession
    <2>3. Calm(i, u)'
      BY <1>5, <1>e, <1>o, <2>0, IsCalm DEF LeaveVoiceSession
    <2> QED
      BY <2>0, <2>1, <2>2, <2>3, NobodyLeft DEF Backed, Paired
  <1> QED
    BY <1>1, <1>2, <1>3, <1>4, <1>5 DEF Leaves

-----------------------------------------------------------------------------
(* The steps of an instance *)

LEMMA SitInstances ==
    ASSUME Base, NEW j \in Instances, Start(j) \/ Crash(j) \/ Expire(j),
           NEW i \in Instances, NEW u \in Users, Sit(i, u)
    PROVE  Sit(i, u)'
  <1>t. TypeOK
    BY DEF Base
  <1> USE DEF SameSockets, SameClears, SameBridge, SameSync, SameEntries, SameBackers,
              SocketHandles, Clears, Bridges, Syncs, Backers, PeersHoldVoice
  <1>1. CASE Start(j) \/ Expire(j)
    <2>1. UNCHANGED <<at, sock, voice, holder, peerVoice, removing, inbox, bridge, sync>>
      BY <1>1 DEF Start, Expire, sockets, peers, bus, redis
    <2> QED
      BY <2>1, Untouched
  <1>2. CASE Crash(j) /\ i # j
    <2>1. /\ voice'[i] = voice[i] /\ holder'[i] = holder[i] /\ peerVoice'[i] = peerVoice[i]
          /\ removing'[i] = removing[i] /\ inbox'[i] = inbox[i] /\ bridge'[i] = bridge[i]
          /\ sync'[i] = sync[i]
      BY <1>t, <1>2 DEF Crash, TypeOK
    <2>2. SameSockets(i, u)
      BY <1>2, NoneAssumption DEF Crash
    <2> QED
      BY <2>1, <2>2, Untouched
  <1>3. CASE Crash(j) /\ i = j
    <2>1. /\ voice'[i][u] = None /\ holder'[i][u] = None
          /\ removing'[i] = {} /\ bridge'[i] = "idle" /\ sync'[i] = SyncIdle
      BY <1>t, <1>3 DEF Crash, TypeOK, NoSessions
    <2>2. \A c \in Connections : at'[c] # i
      BY <1>3, NoneAssumption DEF Crash
    <2>3. Calm(i, u)'
      BY <2>1, <2>2, NoneAssumption DEF Calm, SyncIdle
    <2> QED
      BY <2>1, <2>3, NobodyLeft DEF Backed, Paired
  <1> QED
    BY <1>1, <1>2, <1>3

LEMMA SitClears ==
    ASSUME Base, NEW j \in Instances, NEW w \in Users,
           ClearLocalVoiceSession(j, w) \/ ClearHolder(j, w),
           NEW i \in Instances, NEW u \in Users, Solo(i, u), Sit(i, u), Solo(i, u)'
    PROVE  Sit(i, u)'
  <1>t. TypeOK
    BY DEF Base
  <1>0. UNCHANGED <<at, sock, peerVoice, inbox, bridge, sync>>
    BY DEF ClearLocalVoiceSession, ClearHolder, sockets, peers, bus, redis
  <1>1. SameSockets(i, u) /\ SameBridge(i, u) /\ SameSync(i, u) /\ SameBackers(i, u)
    BY <1>0 DEF SameSockets, SameBridge, SameSync, SameBackers, SocketHandles, Bridges, Syncs,
                Backers, PeersHoldVoice
  <1>2. CASE i # j \/ u # w
    <2>1. SameClears(i, u)
      BY <1>t, <1>2 DEF ClearLocalVoiceSession, ClearHolder, SameClears, Clears, TypeOK
    <2>2. SameEntries(i, u)
      BY <1>t, <1>2, SetVoiceType, SetHolderType
      DEF ClearLocalVoiceSession, ClearHolder, SameEntries
    <2> QED
      BY <1>1, <2>1, <2>2, Untouched
  <1>3. CASE i = j /\ u = w /\ ClearLocalVoiceSession(j, w)
    <2>1. voice'[i][u] = None
      BY <1>t, <1>3, SetVoiceType DEF ClearLocalVoiceSession
    <2>2. Clears(i, u)'
      BY <1>t, <1>3 DEF ClearLocalVoiceSession, Clears, TypeOK
    <2> QED
      BY <2>1, <2>2, OnlyClear
  <1>4. CASE i = j /\ u = w /\ ClearHolder(j, w)
    <2>1. Clears(i, u) /\ voice[i][u] = None /\ voice' = voice
      BY <1>4 DEF ClearHolder, Clears, Sit
    <2>2. holder'[i][u] = None
      BY <1>t, <1>4, SetHolderType DEF ClearHolder
    <2>3. ~Clears(i, u)'
      BY <1>t, <1>4 DEF ClearHolder, Clears, TypeOK
    <2>4. Calm(i, u)'
      BY <1>1, <2>1, <2>3 DEF Solo, Calm, SameSockets, SameBridge, SameSync
    <2> QED
      BY <2>1, <2>2, <2>4, NobodyLeft DEF Backed, Paired
  <1> QED
    BY <1>2, <1>3, <1>4

LEMMA SitPublish ==
    ASSUME Base, NEW e \in publishing, Publish(e),
           NEW i \in Instances, NEW u \in Users, Sit(i, u)
    PROVE  Sit(i, u)'
  <1>0. UNCHANGED <<at, sock, voice, holder, peerVoice, removing, bridge, sync>>
    BY DEF Publish, sockets, peers, redis
  <1>1. bridge[i] # "idle" => Head(inbox'[i]) = Head(inbox[i])
    BY PublishType DEF Base, Inboxed
  <1>2. SameBridge(i, u)
    BY <1>0, <1>1 DEF SameBridge, Bridges
  <1> QED
    BY <1>0, <1>2, Untouched
    DEF SameSockets, SameClears, SameSync, SameEntries, SameBackers, SocketHandles, Clears, Syncs,
        Backers, PeersHoldVoice

-----------------------------------------------------------------------------
(* The bridge *)

\* What the bridge of another instance, or at another user's event, does not touch.
LEMMA SitBridgeElsewhere ==
    ASSUME Base, NEW j \in Instances, Bridge(j),
           NEW i \in Instances, NEW u \in Users, Sit(i, u),
           i # j \/ Head(inbox[j]).user # u
    PROVE  Sit(i, u)'
  <1>t. TypeOK
    BY DEF Base
  <1> DEFINE e == Head(inbox[j])
  <1>0. /\ inbox[j] # <<>> /\ e.from \in Instances /\ e.user \in Users
        /\ e.channel \in Channels \cup {None}
    BY <1>t, HeadEvent DEF Bridge, ApplyJoin, ApplyJoinHolder, ApplyDeparture, ApplyForgetSession,
                           ApplyForgetHolder, Base, Inboxed
  <1>1. UNCHANGED <<at, sock, removing, sync>>
    BY BaseBridge
  <1>2. SameEntries(i, u)
    <2>1. voice' = voice \/ \E ch \in Channels \cup {None} : SetVoice(j, e.user, ch)
      BY <1>0 DEF Bridge, ApplyJoin, ApplyJoinHolder, ApplyDeparture, ApplyForgetSession,
                  ApplyForgetHolder
    <2>2. holder' = holder \/ SetHolder(j, e.user, None)
      BY DEF Bridge, ApplyJoin, ApplyJoinHolder, ApplyDeparture, ApplyForgetSession,
             ApplyForgetHolder
    <2>3. voice'[i][u] = voice[i][u]
      BY <1>t, <1>0, <2>1, SetVoiceType
    <2>4. holder'[i][u] = holder[i][u]
      BY <1>t, <1>0, <2>2, SetHolderType
    <2> QED
      BY <2>3, <2>4 DEF SameEntries
  <1>3. SameBackers(i, u)
    <2>1. \/ peerVoice' = peerVoice
          \/ peerVoice' = [peerVoice EXCEPT ![j][e.from] = peerVoice[j][e.from] \cup {e.user}]
          \/ peerVoice' = [peerVoice EXCEPT ![j][e.from] = peerVoice[j][e.from] \ {e.user}]
      BY DEF Bridge, ApplyJoin, ApplyJoinHolder, ApplyDeparture, ApplyForgetSession,
             ApplyForgetHolder, peers
    <2>2. \A p \in Instances : u \in peerVoice[i][p] => u \in peerVoice'[i][p]
      <3> DEFINE more == peerVoice[j][e.from] \cup {e.user}
                 less == peerVoice[j][e.from] \ {e.user}
      <3>1. u \notin {e.user} \/ i # j
        OBVIOUS
      <3>2. CASE peerVoice' = peerVoice
        BY <3>2
      <3>3. CASE peerVoice' = [peerVoice EXCEPT ![j][e.from] = more]
        <4>1. /\ peerVoice'[j][e.from] = more
              /\ \A k, q \in Instances : k # j \/ q # e.from => peerVoice'[k][q] = peerVoice[k][q]
          BY <1>t, <1>0, <3>3 DEF TypeOK
        <4> QED
          BY <4>1
      <3>4. CASE peerVoice' = [peerVoice EXCEPT ![j][e.from] = less]
        <4>1. /\ peerVoice'[j][e.from] = less
              /\ \A k, q \in Instances : k # j \/ q # e.from => peerVoice'[k][q] = peerVoice[k][q]
          BY <1>t, <1>0, <3>4 DEF TypeOK
        <4> QED
          BY <3>1, <4>1
      <3> QED
        BY <2>1, <3>2, <3>3, <3>4
    <2> QED
      BY <1>1, <2>2 DEF SameBackers, Backers, PeersHoldVoice
  <1>4. SameBridge(i, u)
    <2>1. \/ NextEvent(j)
          \/ inbox' = inbox /\ \E b \in BridgeStates : bridge' = [bridge EXCEPT ![j] = b]
      BY DEF Bridge, ApplyJoin, ApplyJoinHolder, ApplyDeparture, ApplyForgetSession,
             ApplyForgetHolder, bus, BridgeStates
    <2>2. i # j => inbox'[i] = inbox[i] /\ bridge'[i] = bridge[i]
      BY <1>t, <1>0, <2>1, NextEventType, BridgeType
    <2>3. i = j => ~Bridges(i, u) /\ ~Bridges(i, u)'
      BY <1>t, <1>0, <2>1, NextEventType DEF Bridges
    <2> QED
      BY <2>2, <2>3 DEF SameBridge, Bridges
  <1> QED
    BY <1>1, <1>2, <1>3, <1>4, Untouched
    DEF SameSockets, SameClears, SameSync, SocketHandles, Clears, Syncs

LEMMA SitBridge ==
    ASSUME Base, NEW i \in Instances, Bridge(i), NEW u \in Users, u = Head(inbox[i]).user,
           Solo(i, u), Sit(i, u), Solo(i, u)'
    PROVE  Sit(i, u)'
  <1>t. TypeOK
    BY DEF Base
  <1> DEFINE e == Head(inbox[i])
  <1>0. /\ inbox[i] # <<>> /\ e.from \in Instances /\ e.user \in Users
        /\ e.channel \in Channels \cup {None}
    BY <1>t, HeadEvent DEF Bridge, ApplyJoin, ApplyJoinHolder, ApplyDeparture, ApplyForgetSession,
                           ApplyForgetHolder, Base, Inboxed
  <1>1. SameSockets(i, u) /\ SameClears(i, u) /\ SameSync(i, u)
    BY BaseBridge DEF SameSockets, SameClears, SameSync, SocketHandles, Clears, Syncs
  <1>2. \A b \in BridgeStates \ {"idle"} :
          bridge' = [bridge EXCEPT ![i] = b] /\ inbox' = inbox
            => Bridges(i, u)' /\ bridge'[i] = b
    BY <1>t, BridgeType DEF Bridges
  <1>3. NextEvent(i) => ~Bridges(i, u)'
    BY <1>t, <1>0, NextEventType DEF Bridges
  <1>4. bridge[i] = "idle" => ~Bridges(i, u)
    BY DEF Bridges
  <1>5. bridge[i] # "idle" => Bridges(i, u)
    BY DEF Bridges
  \* The bridge is done: nobody is at work.
  <1>6. Bridges(i, u) /\ ~Bridges(i, u)' => Calm(i, u)'
    BY <1>1 DEF Solo, Calm, SameSockets, SameClears, SameSync
  \* The bridge starts: nobody was.
  <1>7. ~Bridges(i, u) /\ Bridges(i, u)' => Backed(i, u) /\ Paired(i, u)
    BY <1>1 DEF Solo, Calm, SameSockets, SameClears, SameSync, Sit
  <1>8. CASE ApplyJoin(i)
    <2>1. Bridges(i, u)' /\ bridge'[i] = "joined"
      BY <1>2, <1>8 DEF ApplyJoin, bus, BridgeStates
    <2> QED
      BY <2>1, OnlyBridge DEF BridgeOk
  <1>9. CASE ApplyJoinHolder(i)
    <2>1. Calm(i, u)'
      BY <1>3, <1>5, <1>6, <1>9 DEF ApplyJoinHolder
    <2>2. holder'[i][u] = None
      BY <1>t, <1>9, SetHolderType DEF ApplyJoinHolder
    <2>3. u \in peerVoice'[i][e.from]
      BY <1>t, <1>0, <1>9 DEF ApplyJoinHolder, TypeOK
    <2>4. Backers(i, u)'
      BY <1>0, <2>3 DEF Backers, PeersHoldVoice
    <2> QED
      BY <2>1, <2>2, <2>4, NobodyLeft DEF Backed, Paired
  <1>10. CASE ApplyDeparture(i) /\ Stale(i, e)
    <2>1. NextEvent(i) /\ UNCHANGED <<voice, holder>> /\ bridge[i] = "idle"
      BY <1>10 DEF ApplyDeparture
    <2>2. SameBridge(i, u)
      BY <1>3, <1>4, <2>1 DEF SameBridge
    <2>3. holder[i][u] # None
      BY <1>10 DEF Stale
    <2> QED
      BY <1>1, <2>1, <2>2, <2>3, Untouched DEF SameEntries, SameBackers
  <1>11. CASE ApplyDeparture(i) /\ ~Stale(i, e)
    <2>1. /\ bridge' = [bridge EXCEPT ![i] = "forgets"] /\ inbox' = inbox
          /\ UNCHANGED <<voice, holder>> /\ bridge[i] = "idle"
      BY <1>11 DEF ApplyDeparture
    <2>2. Bridges(i, u)' /\ bridge'[i] = "forgets"
      BY <1>2, <2>1 DEF BridgeStates
    <2>3. Paired(i, u)
      BY <1>4, <1>7, <2>1, <2>2
    <2> QED
      BY <2>1, <2>2, <2>3, OnlyBridge DEF BridgeOk, Paired
  <1>12. CASE ApplyForgetSession(i)
    <2>1. bridge[i] = "forgets" /\ holder' = holder /\ Paired(i, u)
      BY <1>5, <1>12 DEF ApplyForgetSession, Sit, BridgeOk
    <2>2. voice'[i][u] = None
      BY <1>t, <1>12, SetVoiceType DEF ApplyForgetSession
    <2>3. CASE voice[i][u] = None
      <3>1. Calm(i, u)'
        BY <1>3, <1>5, <1>6, <1>12, <2>1, <2>3 DEF ApplyForgetSession
      <3> QED
        BY <2>1, <2>2, <2>3, <3>1, NobodyLeft DEF Backed, Paired
    <2>4. CASE voice[i][u] # None
      <3>1. Bridges(i, u)' /\ bridge'[i] = "forgot"
        BY <1>2, <1>12, <2>4 DEF ApplyForgetSession, BridgeStates
      <3> QED
        BY <2>2, <3>1, OnlyBridge DEF BridgeOk
    <2> QED
      BY <2>3, <2>4
  <1>13. CASE ApplyForgetHolder(i)
    <2>1. bridge[i] = "forgot" /\ voice' = voice /\ voice[i][u] = None
      BY <1>5, <1>13 DEF ApplyForgetHolder, Sit, BridgeOk
    <2>2. holder'[i][u] = None
      BY <1>t, <1>13, SetHolderType DEF ApplyForgetHolder
    <2>3. Calm(i, u)'
      BY <1>3, <1>5, <1>6, <1>13, <2>1 DEF ApplyForgetHolder
    <2> QED
      BY <2>1, <2>2, <2>3, NobodyLeft DEF Backed, Paired
  <1> QED
    BY <1>8, <1>9, <1>10, <1>11, <1>12, <1>13 DEF Bridge

-----------------------------------------------------------------------------
(* The periodic sync *)

\* A sync moves no socket, and neither a removal nor the bridge.
LEMMA SyncLeaves ==
    ASSUME SyncKeeps, NEW i \in Instances, NEW u \in Users
    PROVE  SameSockets(i, u) /\ SameClears(i, u) /\ SameBridge(i, u)
  BY DEF SyncKeeps, SameSockets, SameClears, SameBridge, SocketHandles, Clears, Bridges

LEMMA BecomesIs ==
    ASSUME Base, NEW i \in Instances, NEW s, Becomes(i, s)
    PROVE  sync'[i] = s /\ \A j \in Instances : j # i => sync'[j] = sync[j]
  BY SyncType DEF Base, Becomes

\* It had and has another user at hand, or none.
LEMMA OtherUser ==
    ASSUME NEW i \in Instances, NEW u \in Users, sync[i].user # u, sync'[i].user # u
    PROVE  SameSync(i, u)
  BY DEF SameSync, Syncs

\* It takes a user up, or is done with one.
LEMMA SyncDone ==
    ASSUME SyncKeeps, NEW i \in Instances, NEW u \in Users, Solo(i, u),
           sync[i].user = u, sync'[i].user = None
    PROVE  Calm(i, u)'
  BY SyncLeaves, NoneAssumption DEF Solo, Calm, SameSockets, SameClears, SameBridge, Syncs

LEMMA SitSyncElsewhere ==
    ASSUME Base, NEW j \in Instances, Sync(j) \/ SyncFails(j),
           NEW i \in Instances, i # j, NEW u \in Users, Sit(i, u)
    PROVE  Sit(i, u)'
  <1>t. TypeOK
    BY DEF Base
  <1>k. SyncKeeps
    BY BaseSync
  <1> USE DEF Sync, SyncBegin, SyncWrite, SyncRead, SyncFails, ForgetPeer, ReconcileTake,
              ForgetUser, ForgetAsks, ForgetSession, ForgetHolder, MergeEntry, MergeInsert,
              MergeEnd, peers
  <1>1. sync'[i] = sync[i]
    <2>1. \E s : SetSync(j, s)
      BY DEF NextUser
    <2> QED
      BY <1>t, <2>1 DEF SetSync, TypeOK
  <1>2. voice'[i] = voice[i]
    <2>1. voice' = voice \/ \E w, ch : SetVoice(j, w, ch)
      OBVIOUS
    <2> QED
      BY <1>t, <2>1 DEF SetVoice, TypeOK
  <1>3. holder'[i] = holder[i]
    <2>1. holder' = holder \/ \E w : SetHolder(j, w, None)
      OBVIOUS
    <2> QED
      BY <1>t, <2>1 DEF SetHolder, TypeOK
  <1>4. peerVoice'[i] = peerVoice[i]
    <2>1. peerVoice' = peerVoice \/ \E p, us : peerVoice' = [peerVoice EXCEPT ![j][p] = us]
      OBVIOUS
    <2> QED
      BY <1>t, <2>1 DEF TypeOK
  <1> QED
    BY <1>1, <1>2, <1>3, <1>4, <1>k, SyncLeaves, Untouched
    DEF SameSync, SameEntries, SameBackers, Syncs, Backers, PeersHoldVoice

\* Reading and writing snapshots reaches no session.
LEMMA SitSnapshots ==
    ASSUME Base, NEW i \in Instances, NEW u \in Users, Sit(i, u),
           \/ SyncBegin(i) \/ SyncWrite(i) \/ SyncFails(i)
           \/ \E p \in Instances : SyncRead(i, p)
    PROVE  Sit(i, u)'
  <1>1. SyncKeeps
    BY BaseSync DEF Sync
  <1>2. UNCHANGED <<voice, holder, peerVoice>>
    BY DEF SyncBegin, SyncWrite, SyncFails, SyncRead, peers
  <1>3. sync[i].user = None
    BY SyncState DEF SyncBegin, SyncWrite, SyncFails, SyncRead, Shaped, AtUser
  <1>4. PICK s : Becomes(i, s) /\ SameUsers(i, s)
    BY BeginEffect, WriteEffect, FailEffect, ReadEffect
  <1>5. sync'[i].user = None /\ sync'[i].held = sync[i].held /\ sync'[i].users = sync[i].users
    BY <1>3, <1>4, BecomesIs DEF SameUsers
  <1>6. SameSync(i, u)
    BY <1>3, <1>5, NoneAssumption, OtherUser
  <1> QED
    BY <1>1, <1>2, <1>5, <1>6, SyncLeaves, Untouched
    DEF SameEntries, SameBackers, Backers, PeersHoldVoice

\* Nor does taking a peer, or what it held, out of the map: its users stay
\* with the sync.
LEMMA SitTakes ==
    ASSUME Base, NEW i \in Instances, NEW p \in Instances, NEW u \in Users, Sit(i, u),
           ForgetPeer(i, p) \/ ReconcileTake(i, p)
    PROVE  Sit(i, u)'
  <1>1. SyncKeeps
    BY BaseSync DEF Sync
  <1>2. /\ UNCHANGED <<voice, holder>>
        /\ peerVoice' = [peerVoice EXCEPT ![i][p] = {}]
    BY DEF ForgetPeer, ReconcileTake
  <1>3. sync[i].user = None /\ sync[i].held = {} /\ sync[i].users = {}
    BY ForgetPeerEffect, ReconcileEffect
  <1>4. PICK s : /\ Becomes(i, s)
                 /\ s.user = None /\ s.held \cup s.users = peerVoice[i][p]
    <2>1. CASE ForgetPeer(i, p)
      <3>1. PICK s : Becomes(i, s) /\ s.user = None /\ s.held = {} /\ s.users = peerVoice[i][p]
        BY <2>1, ForgetPeerEffect
      <3>2. s.held \cup s.users = peerVoice[i][p]
        BY <3>1
      <3> QED
        BY <3>1, <3>2
    <2>2. CASE ReconcileTake(i, p)
      BY <2>2, ReconcileEffect
    <2> QED
      BY <2>1, <2>2
  <1>5. sync'[i].user = None /\ sync'[i].held \cup sync'[i].users = peerVoice[i][p]
    BY <1>4, BecomesIs
  <1>6. SameSync(i, u)
    BY <1>3, <1>5, NoneAssumption, OtherUser
  <1>7. SameBackers(i, u)
    <2> SUFFICES ASSUME NEW q \in Instances, u \in peerVoice[i][q]
                 PROVE  Backers(i, u)'
      BY <1>3 DEF SameBackers, Backers, PeersHoldVoice
    <2>1. CASE q = p
      BY <1>5, <2>1 DEF Backers
    <2>2. CASE q # p
      <3>1. peerVoice'[i][q] = peerVoice[i][q]
        BY <1>2, <2>2 DEF Base, TypeOK
      <3> QED
        BY <3>1 DEF Backers, PeersHoldVoice
    <2> QED
      BY <2>1, <2>2
  <1> QED
    BY <1>1, <1>2, <1>6, <1>7, SyncLeaves, Untouched DEF SameEntries

\* Going through the users of a peer.
LEMMA SitForgetUser ==
    ASSUME Base, NEW i \in Instances, NEW w \in Users, ForgetUser(i, w),
           NEW u \in Users, Sit(i, u), Solo(i, u)'
    PROVE  Sit(i, u)'
  <1>1. SyncKeeps
    BY BaseSync DEF Sync
  <1>2. UNCHANGED <<voice, holder, peerVoice>> /\ sync[i].user = None
    BY ForgetUserEffect DEF ForgetUser, peers
  <1>3. PICK s : /\ Becomes(i, s)
                 /\ s.held = sync[i].held /\ s.users = sync[i].users \ {w}
                 /\ \/ holder[i][w] # None /\ s.user = None
                    \/ holder[i][w] = None /\ s.user = w /\ s.stage \in {"ask", "remove"}
    BY ForgetUserEffect
  <1>4. sync'[i] = s
    BY <1>3, BecomesIs
  <1>5. CASE u = w /\ holder[i][w] = None
    <2>1. Syncs(i, u)' /\ SyncOk(i, u)'
      BY <1>2, <1>3, <1>4, <1>5 DEF Syncs, SyncOk
    <2> QED
      BY <2>1, OnlySync
  <1>6. CASE u # w \/ holder[i][w] # None
    <2>1. SameSync(i, u)
      BY <1>2, <1>3, <1>4, <1>6, NoneAssumption, OtherUser
    <2>2. SameBackers(i, u)
      BY <1>2, <1>3, <1>4, <1>6 DEF SameBackers, Backers, PeersHoldVoice
    <2> QED
      BY <1>1, <1>2, <2>1, <2>2, SyncLeaves, Untouched DEF SameEntries
  <1> QED
    BY <1>5, <1>6

LEMMA StageKept ==
    ASSUME Base, NEW i \in Instances, NEW st \in {"remove", "unhold"},
           SetSync(i, [sync[i] EXCEPT !.stage = st]),
           sync[i].stage \in {"ask", "remove", "unhold"}
    PROVE  sync'[i].user = sync[i].user /\ sync'[i].stage = st
  BY SyncState DEF SetSync, SyncStates, Base, TypeOK

\* Forgetting one user's session.
LEMMA SitForgets ==
    ASSUME Base, NEW i \in Instances, ForgetAsks(i) \/ ForgetSession(i) \/ ForgetHolder(i),
           NEW u \in Users, Solo(i, u), Sit(i, u), Solo(i, u)'
    PROVE  Sit(i, u)'
  <1>t. TypeOK
    BY DEF Base
  <1> DEFINE w == sync[i].user
  <1>1. SyncKeeps /\ peerVoice' = peerVoice
    BY BaseSync DEF Sync, ForgetAsks, ForgetSession, ForgetHolder, peers
  <1>2. sync[i].stage \in {"ask", "remove", "unhold"} /\ w \in Users
    BY SyncState DEF ForgetAsks, ForgetSession, ForgetHolder, Shaped, AtUser, SyncStates
  <1>3. \/ NextUser(i)
        \/ \E st \in {"remove", "unhold"} : SetSync(i, [sync[i] EXCEPT !.stage = st])
    BY DEF ForgetAsks, ForgetSession, ForgetHolder
  <1>4. NextUser(i) => sync'[i].user = None
    BY <1>2, NextUserEffect, BecomesIs
  <1>5. \A st \in {"remove", "unhold"} :
          SetSync(i, [sync[i] EXCEPT !.stage = st]) => sync'[i].user = w /\ sync'[i].stage = st
    <2> SUFFICES ASSUME NEW st \in {"remove", "unhold"},
                        SetSync(i, [sync[i] EXCEPT !.stage = st])
                 PROVE  sync'[i].user = w /\ sync'[i].stage = st
      OBVIOUS
    <2> QED
      BY <1>2, StageKept
  <1>6. sync'[i].held = sync[i].held /\ sync'[i].users = sync[i].users
    BY <1>2, <1>3, NextUserEffect, StageEffect, BecomesIs
  <1>7. CASE u # w
    <2>1. SameSync(i, u)
      BY <1>3, <1>4, <1>5, <1>7, NoneAssumption, OtherUser
    <2>2. SameEntries(i, u)
      BY <1>t, <1>2, <1>7, SetVoiceType, SetHolderType
      DEF ForgetAsks, ForgetSession, ForgetHolder, SameEntries
    <2>3. SameBackers(i, u)
      BY <1>1, <1>6 DEF SameBackers, Backers, PeersHoldVoice
    <2> QED
      BY <1>1, <2>1, <2>2, <2>3, SyncLeaves, Untouched
  <1>8. CASE u = w
    <2>0. SyncOk(i, u)
      BY <1>8 DEF Sit, Syncs
    <2>1. NextUser(i) => Calm(i, u)'
      BY <1>1, <1>4, <1>8, SyncDone
    <2>2. \A st \in {"remove", "unhold"} :
            SetSync(i, [sync[i] EXCEPT !.stage = st]) => Syncs(i, u)' /\ sync'[i].stage = st
      BY <1>5, <1>8 DEF Syncs
    <2>3. CASE ForgetAsks(i)
      <3>1. UNCHANGED <<voice, holder>> /\ holder[i][u] = None
        BY <2>0, <2>3 DEF ForgetAsks, SyncOk
      <3>2. CASE PeersHoldVoice(i, u)
        <4>1. Backers(i, u)'
          BY <1>1, <3>2 DEF Backers, PeersHoldVoice
        <4>2. NextUser(i)
          BY <1>8, <2>3, <3>2 DEF ForgetAsks
        <4> QED
          BY <2>1, <3>1, <4>1, <4>2, NobodyLeft DEF Backed, Paired
      <3>3. CASE ~PeersHoldVoice(i, u)
        <4>1. Syncs(i, u)' /\ sync'[i].stage = "remove"
          BY <1>8, <2>2, <2>3, <3>3 DEF ForgetAsks
        <4> QED
          BY <3>1, <4>1, OnlySync DEF SyncOk
      <3> QED
        BY <3>2, <3>3
    <2>4. CASE ForgetSession(i)
      <3>1. holder' = holder /\ holder[i][u] = None /\ voice'[i][u] = None
        BY <1>t, <1>8, <2>0, <2>4, SetVoiceType DEF ForgetSession, SyncOk
      <3>2. CASE voice[i][u] = None
        <4>1. NextUser(i)
          BY <1>8, <2>4, <3>2 DEF ForgetSession
        <4> QED
          BY <2>1, <3>1, <4>1, NobodyLeft DEF Backed, Paired
      <3>3. CASE voice[i][u] # None
        <4>1. Syncs(i, u)' /\ sync'[i].stage = "unhold"
          BY <1>8, <2>2, <2>4, <3>3 DEF ForgetSession
        <4> QED
          BY <3>1, <4>1, OnlySync DEF SyncOk
      <3> QED
        BY <3>2, <3>3
    <2>5. CASE ForgetHolder(i)
      <3>1. voice' = voice /\ voice[i][u] = None
        BY <2>0, <2>5 DEF ForgetHolder, SyncOk
      <3>2. holder'[i][u] = None
        BY <1>t, <1>8, <2>5, SetHolderType DEF ForgetHolder
      <3> QED
        BY <2>1, <2>5, <3>1, <3>2, NobodyLeft DEF Backed, Paired, ForgetHolder
    <2> QED
      BY <2>3, <2>4, <2>5
  <1> QED
    BY <1>7, <1>8

\* Merging a peer's snapshot.
LEMMA SitMerges ==
    ASSUME Base, NEW i \in Instances,
           MergeInsert(i) \/ MergeEnd(i) \/ \E w \in Users : MergeEntry(i, w),
           NEW u \in Users, Solo(i, u), Sit(i, u), Solo(i, u)'
    PROVE  Sit(i, u)'
  <1>t. TypeOK
    BY DEF Base
  <1>k. SyncKeeps
    BY BaseSync DEF Sync
  <1>1. CASE \E w \in Users : MergeEntry(i, w)
    <2>1. PICK w \in Users : MergeEntry(i, w)
      BY <1>1
    <2>2. UNCHANGED <<voice, holder, peerVoice>> /\ sync[i].user = None
      BY <2>1, MergeEntryEffect DEF MergeEntry, peers
    <2>3. PICK s : /\ Becomes(i, s) /\ s.users = sync[i].users
                   /\ \/ s.held = sync[i].held /\ s.user = None
                      \/ /\ holder[i][w] = None /\ s.user = w /\ s.stage = "insert"
                         /\ s.held = sync[i].held \cup {w}
      BY <2>1, MergeEntryEffect
    <2>4. sync'[i] = s
      BY <2>3, BecomesIs
    <2>5. CASE u = w /\ s.user = w
      <3>1. s.stage = "insert"
        BY <2>3, <2>5, NoneAssumption
      <3>2. Syncs(i, u)' /\ SyncOk(i, u)'
        BY <2>4, <2>5, <3>1 DEF Syncs, SyncOk
      <3> QED
        BY <3>2, OnlySync
    <2>6. CASE u # w \/ s.user # w
      <3>1. SameSync(i, u)
        BY <2>2, <2>3, <2>4, <2>6, NoneAssumption, OtherUser
      <3>2. SameBackers(i, u)
        BY <2>2, <2>3, <2>4 DEF SameBackers, Backers, PeersHoldVoice
      <3> QED
        BY <1>k, <2>2, <3>1, <3>2, SyncLeaves, Untouched DEF SameEntries
    <2> QED
      BY <2>5, <2>6
  <1>2. CASE MergeInsert(i)
    <2> DEFINE w == sync[i].user
    <2>1. /\ w \in Users /\ w \in sync[i].held /\ voice'[i][w] # None
          /\ \A v \in Users : v # w => voice'[i][v] = voice[i][v]
      BY <1>2, MergeInsertEffect
    <2>2. UNCHANGED <<holder, peerVoice>>
      BY <1>2 DEF MergeInsert, peers
    <2>3. PICK s : /\ Becomes(i, s)
                   /\ s.user = None /\ s.held = sync[i].held /\ s.users = sync[i].users
      BY <1>2, MergeInsertEffect
    <2>4. sync'[i] = s
      BY <2>3, BecomesIs
    <2>5. CASE u = w
      <3>1. Calm(i, u)'
        BY <1>k, <2>3, <2>4, <2>5, SyncDone
      <3>2. Backers(i, u)' /\ voice'[i][u] # None
        BY <2>1, <2>3, <2>4, <2>5 DEF Backers
      <3> QED
        BY <3>1, <3>2, NobodyLeft DEF Backed, Paired
    <2>6. CASE u # w
      <3>1. SameSync(i, u)
        BY <2>3, <2>4, <2>6, NoneAssumption, OtherUser
      <3>2. SameBackers(i, u) /\ SameEntries(i, u)
        BY <2>1, <2>2, <2>3, <2>4, <2>6 DEF SameBackers, SameEntries, Backers, PeersHoldVoice
      <3> QED
        BY <1>k, <3>1, <3>2, SyncLeaves, Untouched
    <2> QED
      BY <2>5, <2>6
  <1>3. CASE MergeEnd(i)
    <2> DEFINE p == sync[i].peer
    <2>1. /\ p \in Instances /\ sync[i].user = None /\ sync[i].users = {}
          /\ peerVoice' = [peerVoice EXCEPT ![i][p] = @ \cup sync[i].held]
      BY <1>3, MergeEndEffect
    <2>2. UNCHANGED <<voice, holder>>
      BY <1>3 DEF MergeEnd
    <2>3. PICK s : Becomes(i, s) /\ s.user = None
      BY <1>3, MergeEndEffect
    <2>4. sync'[i].user = None
      BY <2>3, BecomesIs
    <2>5. SameSync(i, u)
      BY <2>1, <2>4, NoneAssumption, OtherUser
    <2>6. peerVoice' = [peerVoice EXCEPT ![i][p] = peerVoice[i][p] \cup sync[i].held]
      BY <2>1
    <2>7. /\ peerVoice'[i][p] = peerVoice[i][p] \cup sync[i].held
          /\ \A q \in Instances : q # p => peerVoice'[i][q] = peerVoice[i][q]
      BY <1>t, <2>1, <2>6 DEF TypeOK
    <2>8. SameBackers(i, u)
      BY <2>1, <2>7 DEF SameBackers, Backers, PeersHoldVoice
    <2> QED
      BY <1>k, <2>2, <2>5, <2>8, SyncLeaves, Untouched DEF SameEntries
  <1> QED
    BY <1>1, <1>2, <1>3

-----------------------------------------------------------------------------
(* The theorems *)

Settled(i, u) == <<i, u>> \notin crossed => Solo(i, u) /\ Sit(i, u)

Inv ==
    /\ Base
    /\ HolderIsLive
    /\ \A i \in Instances, u \in Users : Settled(i, u)

LEMMA InvInit == Init => Inv
  <1> SUFFICES ASSUME Init PROVE Inv
    OBVIOUS
  <1>1. ASSUME NEW i \in Instances, NEW u \in Users
        PROVE  Solo(i, u) /\ Sit(i, u)
    <2>1. \A c \in Connections : ~SocketHandles(c, i, u)
      BY DEF Init, SocketHandles, MidStates
    <2>2. ~Clears(i, u) /\ ~Bridges(i, u) /\ ~Syncs(i, u)
      BY NoneAssumption DEF Init, Clears, Bridges, Syncs, SyncIdle
    <2>3. voice[i][u] = None /\ holder[i][u] = None
      BY DEF Init, NoSessions
    <2> QED
      BY <2>1, <2>2, <2>3 DEF Solo, Sit, Backed, Paired
  <1> QED
    BY <1>1, BaseInit, LiveInit DEF Inv, Settled

\* One step, where no two handlers meet.
LEMMA SitStep ==
    ASSUME Base, Step, NEW i \in Instances, NEW u \in Users,
           Solo(i, u), Sit(i, u), Solo(i, u)'
    PROVE  Sit(i, u)'
  <1>1. CASE \E j \in Instances : Start(j) \/ Crash(j) \/ Expire(j)
    BY <1>1, SitInstances
  <1>2. CASE \E c \in Connections : Disconnect(c) \/ \E j \in Instances : Connect(c, j)
    BY <1>2, SitOpens
  <1>3. CASE \E c \in Connections : EndsSocket(c)
    BY <1>3, SitElsewhere, SitEnds
  <1>4. CASE \E c \in Connections :
               JoinVoiceHolder(c) \/ Leaves(c) \/ \E ch \in Channels : JoinVoice(c, ch)
    BY <1>4, SitElsewhere, SitJoins
  <1>5. CASE \E j \in Instances, w \in Users : ClearLocalVoiceSession(j, w) \/ ClearHolder(j, w)
    BY <1>5, SitClears
  <1>6. CASE \E e \in publishing : Publish(e)
    BY <1>6, SitPublish
  <1>7. CASE \E j \in Instances : Bridge(j)
    <2>1. PICK j \in Instances : Bridge(j)
      BY <1>7
    <2>2. CASE i # j \/ Head(inbox[j]).user # u
      BY <2>1, <2>2, SitBridgeElsewhere
    <2>3. CASE i = j /\ Head(inbox[j]).user = u
      BY <2>1, <2>3, SitBridge
    <2> QED
      BY <2>2, <2>3
  <1>8. CASE \E j \in Instances : Sync(j) \/ SyncFails(j)
    <2>1. PICK j \in Instances : Sync(j) \/ SyncFails(j)
      BY <1>8
    <2>2. CASE i # j
      BY <2>1, <2>2, SitSyncElsewhere
    <2>3. CASE i = j
      BY <2>1, <2>3, SitSnapshots, SitTakes, SitForgetUser, SitForgets, SitMerges DEF Sync
    <2> QED
      BY <2>2, <2>3
  <1> QED
    BY <1>1, <1>2, <1>3, <1>4, <1>5, <1>6, <1>7, <1>8 DEF Step

LEMMA InvStep == Inv /\ [Next]_vars => Inv'
  <1> SUFFICES ASSUME Inv, [Next]_vars PROVE Inv'
    OBVIOUS
  <1>1. Base' /\ HolderIsLive'
    BY BaseStep, BaseStutter, LiveStep DEF Inv
  <1>2. ASSUME NEW i \in Instances, NEW u \in Users, <<i, u>> \notin crossed'
        PROVE  Solo(i, u)' /\ Sit(i, u)'
    <2>1. CASE Next
      <3>1. Solo(i, u)'
        BY <1>2, <2>1, NotCrossed DEF Next
      <3>2. CASE <<i, u>> \notin crossed
        BY <2>1, <3>1, <3>2, SitStep DEF Inv, Settled, Next
      <3>3. CASE <<i, u>> \in crossed
        <4>1. Calm(i, u)' /\ voice'[i][u] = None /\ holder'[i][u] = None
          BY <1>2, <2>1, <3>3, NotCrossed DEF Next
        <4> QED
          BY <3>1, <4>1, NobodyLeft DEF Backed, Paired
      <3> QED
        BY <3>1, <3>2, <3>3
    <2>2. CASE UNCHANGED vars
      <3>1. Solo(i, u) /\ Sit(i, u)
        BY <1>2, <2>2 DEF Inv, Settled, vars
      <3>2. UNCHANGED <<at, sock, voice, holder, peerVoice, removing, inbox, bridge, sync>>
        BY <2>2 DEF vars, sockets, peers, bus, redis
      <3>3. Solo(i, u)'
        BY <3>1, <3>2 DEF Solo, SocketHandles, Clears, Bridges, Syncs
      <3> QED
        BY <3>1, <3>2, <3>3, Untouched
        DEF SameSockets, SameClears, SameBridge, SameSync, SameEntries, SameBackers,
            SocketHandles, Clears, Bridges, Syncs, Backers, PeersHoldVoice
    <2> QED
      BY <2>1, <2>2
  <1> QED
    BY <1>1, <1>2 DEF Inv, Settled

LEMMA BackedAlways == Inv => SessionIsBacked
  <1> SUFFICES ASSUME Inv, NEW i \in Instances, NEW u \in Users,
                      Handling(i, u) = {}, <<i, u>> \notin crossed
               PROVE  Backed(i, u) /\ Paired(i, u)
    BY DEF SessionIsBacked, Backed, Paired, Backers
  <1>1. Calm(i, u)
    BY CalmIs
  <1> QED
    BY <1>1 DEF Inv, Settled, Sit

\* On every instance each voice session has somebody whose end will end it and
\* each holder a session, whatever handlers take each other's place between
\* their awaits (JoinVoice, forget_voice_session, reconcile_peer), unless two
\* met between two accesses to the maps.
THEOREM SessionIsAlwaysBacked == Spec => []SessionIsBacked
  <1> QED
    BY InvInit, InvStep, BackedAlways, PTL DEF Spec

LEMMA OthersStep ==
    ASSUME Inv, Next, NEW c \in Connections, <<at[c], Owner[c]>> \notin crossed
    PROVE  TakesNothing(c)
  <1> DEFINE i == at[c]
             u == Owner[c]
  <1>t. TypeOK
    BY DEF Inv, Base
  <1> SUFFICES ASSUME EndsSocket(c) \/ Leaves(c), holder[i][u] \notin {None, c}
               PROVE  holder'[i][u] = holder[i][u] /\ voice'[i][u] = voice[i][u]
    BY DEF TakesNothing
  <1>1. i \in Instances /\ u \in Users
    <2>1. sock[c] # "none"
      BY DEF EndsSocket, EndHolder, AskHolder, AskPeers, EndVoice, Leaves, LeaveVoice,
             LeaveVoiceHolder, LeaveVoiceSession
    <2> QED
      BY <2>1, PlacedInstance DEF Inv, Base
  <1>2. Sit(i, u)
    BY <1>1 DEF Inv, Settled
  <1>3. SocketHandles(c, i, u) => SocketOk(c, i, u)
    BY <1>2 DEF Sit
  <1>4. ~(EndVoice(c) \/ LeaveVoiceHolder(c) \/ LeaveVoiceSession(c))
    BY <1>3 DEF EndVoice, LeaveVoiceHolder, LeaveVoiceSession, SocketHandles, SocketOk, MidStates
  <1>5. EndHolder(c) => holder' = holder /\ voice' = voice
    BY DEF EndHolder, Holds
  <1>6. AskHolder(c) \/ AskPeers(c) \/ LeaveVoice(c) => holder' = holder /\ voice' = voice
    BY DEF AskHolder, AskPeers, LeaveVoice
  <1> QED
    BY <1>4, <1>5, <1>6 DEF EndsSocket, Leaves

\* A leave or the end of a socket takes nothing from another connection of its
\* instance that holds the session (leave_voice, the cleanup of handle_socket),
\* unless two handlers met between two accesses to the maps.
THEOREM OthersAlwaysKeepSession == Spec => OthersKeepSession
  <1>1. Inv /\ [Next]_vars =>
          [\A c \in Connections : <<at[c], Owner[c]>> \notin crossed => TakesNothing(c)]_vars
    BY OthersStep
  <1> QED
    BY <1>1, InvInit, InvStep, PTL DEF Spec, OthersKeepSession
=============================================================================
