-------------------------- MODULE VoiceCallProofs --------------------------
(***************************************************************************)
(* For any number of joins, channels and interferences: an open microphone *)
(* belongs to the call or to a join that has not settled, a call has its   *)
(* own connected room and no other room is connected, every step of the    *)
(* tab is one that CallPromise allows, and, while no other device of the   *)
(* account joins, the server comes to list the tab where it is.            *)
(***************************************************************************)
EXTENDS VoiceCall, SequenceTheorems, TLAPS

-----------------------------------------------------------------------------
(* The inductive invariant: the tab is at rest, in a call, asking for the  *)
(* microphone, or setting a call up                                        *)

NoneConnected(t) == \A i \in Joins : t.media[i] # "connected"

\* Nothing is open.
Empty(t) ==
    /\ t.joined = None /\ t.live = {} /\ t.room = None /\ ~t.joining
    /\ NoneConnected(t)

\* In a call with its microphone and its room.
InCall(t) ==
    /\ t.joined # None /\ ~t.joining /\ ~t.reconciled
    /\ t.live \subseteq {t.raw, t.cached}
    /\ t.room # None /\ t.media[t.room] = "connected"
    /\ \A i \in Joins : t.media[i] = "connected" => i = t.room

\* Join j is under way, at a step, and everything that is open is its own.
Setup(t, j, step) ==
    /\ t.joined = None /\ t.live \subseteq {j} /\ ~t.reconciled
    /\ t.joining => t.owner = j /\ step # "closing"
    /\ \A i \in Joins : t.media[i] = "connected" => i = j /\ t.room = j
    /\ t.room \in {None, j}
    /\ t.room = j => t.owner = j /\ step \in {"turn", "connect", "publish"}
    /\ t.owner = j => /\ step \in {"build", "token", "turn", "connect", "publish"} => t.raw = j
                      /\ step \in {"turn", "connect", "publish"} => t.room = j

Idle(s) == s.step \in {"idle", "done"}
Others(jn, j) == \A i \in Joins \ {j} : Idle(jn[i])

Free == /\ \A i \in Joins : Idle(join[i])
        /\ Empty(tab) \/ InCall(tab)

Asking(j) ==
    /\ join[j].step = "prompt" /\ join[j].channel \in Channels
    /\ Others(join, j) /\ pending /\ Empty(tab)

Working(j) ==
    /\ ~Idle(join[j]) /\ join[j].step # "prompt" /\ join[j].channel \in Channels
    /\ Others(join, j) /\ pending /\ Setup(tab, j, join[j].step)

IInv == TypeOK /\ (Free \/ \E j \in Joins : Asking(j) \/ Working(j))

LEMMA JoinsAreNotNone == \A j \in Joins : j # None
  BY NoneAssumption

LEMMA ChannelsAreNotNone == \A c \in Channels : c # None
  BY NoneAssumption

-----------------------------------------------------------------------------
(* The parts the steps are made of *)

\* The fields a message does not touch.
LEMMA SendFacts ==
    ASSUME NEW t \in TabStates, NEW type, NEW c, [type |-> type, channel |-> c] \in Notes
    PROVE  /\ Send(t, type, c) \in TabStates
           /\ Send(t, type, c) = [t EXCEPT !.up = Send(t, type, c).up]
           /\ Send(t, type, c).up \in Seq(Notes)
  <1>1. t.up \in Seq(Notes)
    BY DEF TabStates
  <1>2. Append(t.up, [type |-> type, channel |-> c]) \in Seq(Notes)
    BY <1>1
  <1>3. CASE t.online
    BY <1>2, <1>3 DEF Send, TabStates
  <1>4. CASE ~t.online
    BY <1>1, <1>4 DEF Send, TabStates
  <1> QED
    BY <1>3, <1>4

LEMMA ClosedFacts ==
    ASSUME NEW t \in TabStates, NEW j \in OrNone(Joins)
    PROVE  /\ Closed(t, j) \in TabStates
           /\ Closed(t, j) = [t EXCEPT !.media = Closed(t, j).media]
           /\ \A i \in Joins : Closed(t, j).media[i] = IF i = j THEN "gone" ELSE t.media[i]
  <1>1. t.media \in [Joins -> RoomStates]
    BY DEF TabStates
  <1>2. CASE j = None
    BY <1>1, <1>2, JoinsAreNotNone DEF Closed, TabStates
  <1>3. CASE j # None
    <2>1. j \in Joins
      BY <1>3 DEF OrNone
    <2>2. [t.media EXCEPT ![j] = "gone"] \in [Joins -> RoomStates]
      BY <1>1 DEF RoomStates
    <2>3. Closed(t, j) = [t EXCEPT !.media = [t.media EXCEPT ![j] = "gone"]]
      BY <1>3 DEF Closed, TabStates
    <2> DEFINE m == [t.media EXCEPT ![j] = "gone"]
    <2>4. \A i \in Joins : m[i] = IF i = j THEN "gone" ELSE t.media[i]
      BY <1>1, <2>1
    <2> HIDE DEF m
    <2>5. Closed(t, j) = [t EXCEPT !.media = m] /\ m \in [Joins -> RoomStates]
      BY <2>2, <2>3 DEF m
    <2>6. Closed(t, j).media = m /\ Closed(t, j) \in TabStates
      BY <2>5 DEF TabStates
    <2> QED
      BY <2>4, <2>5, <2>6
  <1> QED
    BY <1>2, <1>3

\* leaveVoice gives up the call, its room and its captures.
LEMMA LeaveFacts ==
    ASSUME NEW t \in TabStates, NEW b \in BOOLEAN
    PROVE  LET r == LeaveVoice(t, b) IN
           /\ r \in TabStates
           /\ r.owner = None /\ ~r.joining /\ r.joined = None /\ r.room = None
           /\ r.raw = None /\ r.cached = None
           /\ r.live = t.live \ {t.raw, t.cached}
           /\ r.reconciled = t.reconciled /\ r.online = t.online
           /\ \A i \in Joins : r.media[i] = IF i = t.room THEN "gone" ELSE t.media[i]
  <1> DEFINE told == IF b THEN t ELSE Send(t, "leave", None)
             closed == Closed(told, t.room)
             r == LeaveVoice(t, b)
  <1>1. [type |-> "leave", channel |-> None] \in Notes
    BY DEF Notes
  <1>2. told \in TabStates /\ told = [t EXCEPT !.up = told.up]
    <2>1. CASE b
      BY <2>1 DEF TabStates
    <2>2. CASE ~b
      BY <1>1, <2>2, SendFacts
    <2> QED
      BY <2>1, <2>2
  <1> HIDE DEF told
  <1>3. /\ told.room = t.room /\ told.media = t.media /\ told.live = t.live
        /\ told.raw = t.raw /\ told.cached = t.cached
        /\ told.reconciled = t.reconciled /\ told.online = t.online
        /\ t.room \in OrNone(Joins)
    BY <1>2 DEF TabStates
  <1>4. /\ closed \in TabStates /\ closed = [told EXCEPT !.media = closed.media]
        /\ \A i \in Joins : closed.media[i] = IF i = t.room THEN "gone" ELSE t.media[i]
    BY <1>2, <1>3, ClosedFacts
  <1>5. r = [closed EXCEPT
                !.owner = None, !.joining = FALSE, !.joined = None, !.mirror = None,
                !.room = None, !.raw = None, !.cached = None, !.capture = None,
                !.live = closed.live \ {t.raw, t.cached}]
    BY <1>3, <1>4 DEF LeaveVoice, told, TabStates
  <1> HIDE DEF closed, r
  <1>6. /\ closed.live = t.live /\ closed.reconciled = t.reconciled
        /\ closed.online = t.online
    BY <1>2, <1>3, <1>4 DEF TabStates
  <1>7. /\ r \in TabStates
        /\ r.owner = None /\ ~r.joining /\ r.joined = None /\ r.room = None
        /\ r.raw = None /\ r.cached = None
        /\ r.live = closed.live \ {t.raw, t.cached} /\ r.media = closed.media
        /\ r.reconciled = closed.reconciled /\ r.online = closed.online
    BY <1>4, <1>5 DEF TabStates, OrNone
  <1>8. /\ r \in TabStates
        /\ r.owner = None /\ ~r.joining /\ r.joined = None /\ r.room = None
        /\ r.raw = None /\ r.cached = None
        /\ r.live = t.live \ {t.raw, t.cached}
        /\ r.reconciled = t.reconciled /\ r.online = t.online
        /\ \A i \in Joins : r.media[i] = IF i = t.room THEN "gone" ELSE t.media[i]
    BY <1>4, <1>6, <1>7
  <1> QED
    BY <1>8 DEF r

\* Whatever the tab was doing, a leave closes it or makes it stale.
LEMMA LeaveModes ==
    ASSUME NEW t \in TabStates, NEW b \in BOOLEAN
    PROVE  LET r == LeaveVoice(t, b) IN
           /\ Empty(t) \/ InCall(t) => Empty(r)
           /\ \A j \in Joins : \A s : Setup(t, j, s) => Setup(r, j, s) /\ r.owner = None
  <1> DEFINE r == LeaveVoice(t, b)
  <1>1. /\ r \in TabStates
        /\ r.owner = None /\ ~r.joining /\ r.joined = None /\ r.room = None
        /\ r.live = t.live \ {t.raw, t.cached} /\ r.reconciled = t.reconciled
        /\ \A i \in Joins : r.media[i] = IF i = t.room THEN "gone" ELSE t.media[i]
    BY LeaveFacts
  <1> HIDE DEF r
  <1>2. Empty(t) \/ InCall(t) => Empty(r)
    BY <1>1 DEF Empty, InCall, NoneConnected
  <1>3. ASSUME NEW j \in Joins, NEW s, Setup(t, j, s) PROVE Setup(r, j, s)
    BY <1>1, <1>3, JoinsAreNotNone DEF Setup
  <1>4. \A j \in Joins : \A s : Setup(t, j, s) => Setup(r, j, s) /\ r.owner = None
    BY <1>1, <1>3
  <1> QED
    BY <1>2, <1>4 DEF r

Typed ==
    /\ tab \in TabStates /\ join \in [Joins -> JoinStates] /\ pending \in BOOLEAN

TypedRest ==
    /\ mounted \in BOOLEAN /\ down \in Seq({"left", "moved"}) /\ session \in Sessions
    /\ rival \in BOOLEAN /\ spent \in [Spendable -> Nat]

LEMMA TypeOKParts == (TypeOK <=> Typed /\ TypedRest) /\ (TypeOK' <=> Typed' /\ TypedRest')
  BY DEF TypeOK, Typed, TypedRest

\* A join at another step.
LEMMA AtFacts ==
    ASSUME Typed, NEW j \in Joins, NEW s \in Steps, join' = At(j, s)
    PROVE  /\ join' \in [Joins -> JoinStates]
           /\ join'[j].step = s /\ join'[j].channel = join[j].channel
           /\ join'[j].current = join[j].current
           /\ \A i \in Joins \ {j} : join'[i] = join[i]
  <1>1. join \in [Joins -> JoinStates] /\ join[j] \in JoinStates
    BY DEF Typed
  <1>2. [join[j] EXCEPT !.step = s] \in JoinStates
    BY <1>1 DEF JoinStates
  <1>3. join' = [join EXCEPT ![j] = [join[j] EXCEPT !.step = s]]
    BY <1>1 DEF At
  <1>4. join'[j] = [join[j] EXCEPT !.step = s]
    BY <1>1, <1>3
  <1>5. /\ join'[j].step = s /\ join'[j].channel = join[j].channel
        /\ join'[j].current = join[j].current
    BY <1>1, <1>4 DEF JoinStates
  <1> QED
    BY <1>1, <1>2, <1>3, <1>5

\* A join that settles leaves everybody at rest.
LEMMA SettleFacts ==
    ASSUME Typed, NEW j \in Joins, Others(join, j), NEW t \in TabStates, Settle(j, t)
    PROVE  Typed' /\ tab' = t /\ \A i \in Joins : Idle(join'[i])
  <1>1. tab' = t /\ join' = At(j, "done") /\ pending' = FALSE
    BY DEF Settle
  <1>2. /\ join' \in [Joins -> JoinStates] /\ join'[j].step = "done"
        /\ \A i \in Joins \ {j} : join'[i] = join[i]
    BY <1>1, AtFacts DEF Steps
  <1> QED
    BY <1>1, <1>2 DEF Typed, Others, Idle

\* A join that goes on is still the only one.
LEMMA GoesOn ==
    ASSUME Typed, NEW j \in Joins, Working(j), NEW s \in Steps, s \notin {"idle", "done", "prompt"},
           NEW t \in TabStates, tab' = t, join' = At(j, s), UNCHANGED pending,
           Setup(t, j, s)
    PROVE  Typed' /\ Working(j)' /\ join'[j].step = s
  <1>1. /\ join' \in [Joins -> JoinStates] /\ join'[j].step = s
        /\ join'[j].channel = join[j].channel
        /\ \A i \in Joins \ {j} : join'[i] = join[i]
    BY AtFacts
  <1>2. Others(join', j)
    BY <1>1 DEF Working, Others, Idle
  <1> QED
    BY <1>1, <1>2 DEF Typed, Working, Idle

\* joinVoice is called when nothing else is open.
LEMMA JoinVoiceFacts ==
    ASSUME Typed, NEW j \in Joins, Others(join, j), NEW c \in Channels, NEW t \in TabStates,
           NEW stream \in BOOLEAN, t.joined = None, ~t.joining, t.room = None,
           NoneConnected(t), t.live = IF stream THEN {j} ELSE {}, JoinVoice(j, c, t, stream)
    PROVE  /\ Typed'
           /\ \/ Empty(tab') /\ \A i \in Joins : Idle(join'[i])
              \/ /\ Working(j)' /\ tab'.owner = j /\ tab'.live = t.live
                 /\ join'[j].step \in {"prepare", "mic"}
  <1>1. CASE ~t.online
    <2> DEFINE r == [t EXCEPT !.live = @ \ {j}]
    <2>1. Settle(j, r)
      BY <1>1 DEF JoinVoice
    <2>2. /\ r \in TabStates /\ r.joined = None /\ ~r.joining /\ r.room = None
          /\ r.live = {} /\ r.media = t.media
      BY DEF TabStates
    <2> HIDE DEF r
    <2>3. Empty(r)
      BY <2>2 DEF Empty, NoneConnected
    <2> QED
      BY <2>1, <2>2, <2>3, SettleFacts
  <1>2. CASE t.online
    <2> DEFINE r == [t EXCEPT !.joining = TRUE, !.owner = j, !.reconciled = FALSE,
                              !.capture = IF stream THEN @ ELSE j]
               x == IF stream THEN "prepare" ELSE "mic"
    <2>1. /\ tab' = r /\ pending' = TRUE
          /\ join' = [join EXCEPT ![j] = [step |-> x, channel |-> c, current |-> TRUE]]
      BY <1>2, ChannelsAreNotNone DEF JoinVoice
    <2>2. /\ r \in TabStates /\ r.joined = None /\ r.room = None /\ r.owner = j
          /\ r.live = t.live /\ r.media = t.media /\ r.reconciled = FALSE
      BY DEF TabStates, OrNone
    <2>3. [step |-> x, channel |-> c, current |-> TRUE] \in JoinStates
      BY DEF JoinStates, Steps, OrNone
    <2>4. /\ join' \in [Joins -> JoinStates] /\ join'[j].step = x /\ join'[j].channel = c
          /\ \A i \in Joins \ {j} : join'[i] = join[i]
      BY <2>1, <2>3 DEF Typed
    <2>5. x \in {"prepare", "mic"}
      OBVIOUS
    <2> HIDE DEF r, x
    <2>6. Setup(r, j, x)
      BY <2>2, <2>5, JoinsAreNotNone DEF Setup, NoneConnected
    <2>7. Working(j)'
      BY <2>1, <2>4, <2>5, <2>6 DEF Working, Idle, Others
    <2> QED
      BY <2>1, <2>2, <2>4, <2>5, <2>7 DEF Typed
  <1> QED
    BY <1>1, <1>2

-----------------------------------------------------------------------------
(* The steps that start a join *)

\* A join is only started when none is under way.
LEMMA StartsFree ==
    ASSUME IInv, NEW j \in Joins, MayStart
    PROVE  Free /\ Others(join, j)
  BY DEF IInv, MayStart, Asking, Working, Free, Others

LEMMA AskFacts ==
    ASSUME IInv, NEW j \in Joins, NEW c \in Channels, AskMicrophone(j, c)
    PROVE  /\ Typed' /\ Free /\ Empty(tab) /\ Asking(j)' /\ tab' = tab
           /\ join'[j].current /\ UNCHANGED mounted /\ mounted
  <1>1. Free /\ Others(join, j) /\ Typed
    BY StartsFree, TypeOKParts DEF IInv, AskMicrophone
  <1>2. Empty(tab)
    BY <1>1 DEF Free, InCall, AskMicrophone
  <1>3. [step |-> "prompt", channel |-> c, current |-> TRUE] \in JoinStates
    BY DEF JoinStates, Steps, OrNone
  <1>4. /\ join' \in [Joins -> JoinStates] /\ join'[j].step = "prompt"
        /\ join'[j].channel = c /\ join'[j].current
        /\ \A i \in Joins \ {j} : join'[i] = join[i]
    BY <1>1, <1>3 DEF AskMicrophone, Typed
  <1>5. tab' = tab /\ pending' = TRUE /\ mounted' = mounted /\ mounted
    BY DEF AskMicrophone
  <1> QED
    BY <1>1, <1>2, <1>4, <1>5 DEF Typed, Asking, Others

LEMMA MoveFacts ==
    ASSUME IInv, NEW j \in Joins, NEW c \in Channels, MoveVoice(j, c)
    PROVE  /\ Typed' /\ Free
           /\ \/ Free' /\ Empty(tab')
              \/ /\ Working(j)' /\ tab'.owner = j /\ join'[j].step \in {"prepare", "mic"}
                 /\ tab'.live # {} => tab.live # {}
  <1> DEFINE stream == tab.raw \in tab.live
             left == LeaveVoice(tab, FALSE)
             t == IF stream THEN [left EXCEPT !.live = @ \cup {j}] ELSE left
  <1>1. Free /\ Others(join, j) /\ Typed
    BY StartsFree, TypeOKParts DEF IInv, MoveVoice
  <1>2. InCall(tab) /\ tab \in TabStates
    BY <1>1 DEF Free, Empty, MoveVoice, Typed
  <1>3. JoinVoice(j, c, t, stream)
    BY DEF MoveVoice
  <1>4. left \in TabStates /\ Empty(left)
    BY <1>2, LeaveFacts, LeaveModes
  <1>5. stream \in BOOLEAN /\ (stream => tab.live # {})
    OBVIOUS
  <1> HIDE DEF left, stream
  <1>6. /\ t \in TabStates /\ t.joined = None /\ ~t.joining /\ t.room = None
        /\ t.live = (IF stream THEN {j} ELSE {}) /\ t.media = left.media
    <2>1. CASE stream
      BY <1>4, <2>1 DEF Empty, TabStates
    <2>2. CASE ~stream
      BY <1>4, <2>2 DEF Empty
    <2> QED
      BY <1>5, <2>1, <2>2
  <1> HIDE DEF t
  <1>7. NoneConnected(t)
    BY <1>4, <1>6 DEF Empty, NoneConnected
  <1>8. /\ Typed'
        /\ \/ Empty(tab') /\ \A i \in Joins : Idle(join'[i])
           \/ /\ Working(j)' /\ tab'.owner = j /\ tab'.live = t.live
              /\ join'[j].step \in {"prepare", "mic"}
    BY <1>1, <1>3, <1>5, <1>6, <1>7, JoinVoiceFacts
  <1> QED
    BY <1>1, <1>5, <1>6, <1>8 DEF Free

\* The only join there is.
LEMMA TheJoin ==
    ASSUME IInv, NEW j \in Joins, ~Idle(join[j])
    PROVE  IF join[j].step = "prompt" THEN Asking(j) ELSE Working(j)
  <1>1. ~Free
    BY DEF Free
  <1>2. PICK i \in Joins : Asking(i) \/ Working(i)
    BY <1>1 DEF IInv
  <1>3. i = j
    BY <1>2 DEF Asking, Working, Others
  <1> QED
    BY <1>2, <1>3 DEF Asking, Working

LEMMA GrantedFacts ==
    ASSUME IInv, NEW j \in Joins, MicrophoneGranted(j)
    PROVE  /\ Typed' /\ Asking(j)
           /\ \/ Free' /\ Empty(tab')
              \/ /\ Working(j)' /\ tab'.owner = j /\ tab'.live # {}
                 /\ join'[j].step \in {"prepare", "mic"} /\ join[j].current /\ mounted
  <1> DEFINE c == join[j].channel
             t == [tab EXCEPT !.live = @ \cup {j}]
  <1>1. Asking(j) /\ Typed
    <2>1. ~Idle(join[j]) /\ join[j].step = "prompt"
      BY DEF MicrophoneGranted, Idle
    <2> QED
      BY <2>1, TheJoin, TypeOKParts DEF IInv
  <1>2. /\ c \in Channels /\ Others(join, j) /\ Empty(tab) /\ tab \in TabStates
    BY <1>1 DEF Asking, Typed
  <1>3. CASE join[j].current /\ mounted
    <2>1. JoinVoice(j, c, t, TRUE)
      BY <1>3 DEF MicrophoneGranted
    <2>2. /\ t \in TabStates /\ t.joined = None /\ ~t.joining /\ t.room = None
          /\ t.live = {j} /\ t.media = tab.media
      BY <1>2 DEF Empty, TabStates
    <2> HIDE DEF t, c
    <2>3. NoneConnected(t)
      BY <1>2, <2>2 DEF Empty, NoneConnected
    <2>4. /\ Typed'
          /\ \/ Empty(tab') /\ \A i \in Joins : Idle(join'[i])
             \/ /\ Working(j)' /\ tab'.owner = j /\ tab'.live = t.live
                /\ join'[j].step \in {"prepare", "mic"}
      BY <1>1, <1>2, <2>1, <2>2, <2>3, JoinVoiceFacts
    <2> QED
      BY <1>1, <1>3, <2>2, <2>4 DEF Free
  <1>4. CASE ~(join[j].current /\ mounted)
    <2>1. Settle(j, tab)
      BY <1>4 DEF MicrophoneGranted
    <2> QED
      BY <1>1, <1>2, <2>1, SettleFacts DEF Free
  <1> QED
    BY <1>3, <1>4

LEMMA DeniedFacts ==
    ASSUME IInv, NEW j \in Joins, MicrophoneDenied(j)
    PROVE  Typed' /\ Asking(j) /\ Free' /\ Empty(tab')
  <1>1. Asking(j) /\ Typed
    <2>1. ~Idle(join[j]) /\ join[j].step = "prompt"
      BY DEF MicrophoneDenied, Idle
    <2> QED
      BY <2>1, TheJoin, TypeOKParts DEF IInv
  <1>2. Settle(j, tab) /\ Others(join, j) /\ Empty(tab) /\ tab \in TabStates
    BY <1>1 DEF MicrophoneDenied, Asking, Typed
  <1> QED
    BY <1>1, <1>2, SettleFacts DEF Free

-----------------------------------------------------------------------------
(* The steps of a join under way *)

WorkSteps == Steps \ {"idle", "done", "prompt"}

\* The failure path closes whatever room is held.
LEMMA ReleaseFacts ==
    ASSUME Typed, NEW j \in Joins, Working(j), NEW t \in TabStates,
           Setup(t, j, join[j].step) \/ Setup(t, j, "releasing"), Release(j, t)
    PROVE  /\ Typed' /\ Working(j)' /\ join'[j].step = "releasing"
           /\ tab'.owner = t.owner /\ tab'.live = t.live /\ tab'.joined = None
  <1> DEFINE closed == Closed(t, t.room)
             r == [closed EXCEPT !.room = None]
  <1>1. t.room \in OrNone(Joins)
    BY DEF TabStates
  <1>2. /\ closed \in TabStates /\ closed = [t EXCEPT !.media = closed.media]
        /\ \A i \in Joins : closed.media[i] = IF i = t.room THEN "gone" ELSE t.media[i]
    BY <1>1, ClosedFacts
  <1>3. tab' = r /\ join' = At(j, "releasing") /\ UNCHANGED pending
    BY DEF Release
  <1> HIDE DEF closed
  <1>4. /\ closed.joined = t.joined /\ closed.live = t.live /\ closed.owner = t.owner
        /\ closed.joining = t.joining /\ closed.reconciled = t.reconciled
        /\ closed.raw = t.raw
    BY <1>2 DEF TabStates
  <1>5. /\ r \in TabStates /\ r.room = None /\ r.joined = t.joined /\ r.live = t.live
        /\ r.owner = t.owner /\ r.joining = t.joining /\ r.reconciled = t.reconciled
        /\ r.raw = t.raw
        /\ \A i \in Joins : r.media[i] = IF i = t.room THEN "gone" ELSE t.media[i]
    BY <1>2, <1>4 DEF TabStates, OrNone
  <1> HIDE DEF r
  <1>6. Setup(r, j, "releasing") /\ t.joined = None
    BY <1>5, JoinsAreNotNone DEF Setup
  <1>7. Typed' /\ Working(j)' /\ join'[j].step = "releasing"
    BY <1>3, <1>5, <1>6, GoesOn DEF Steps
  <1> QED
    BY <1>3, <1>5, <1>6, <1>7

\* A stale join gives its own stream and room up, and nothing else.
LEMMA CancelFacts ==
    ASSUME Typed, NEW j \in Joins, Working(j), tab.owner # j, Cancel(j)
    PROVE  /\ Typed' /\ Working(j)' /\ join'[j].step \in {"closing", "releasing"}
           /\ tab'.live = {} /\ tab'.joined = None
  <1> DEFINE t == [tab EXCEPT !.live = @ \ {j}]
  <1>1. tab \in TabStates /\ Setup(tab, j, join[j].step)
    BY DEF Typed, Working
  <1>2. /\ t \in TabStates /\ t.live = {} /\ t.joined = None /\ t.owner # j /\ ~t.joining
        /\ t.room = tab.room /\ t.media = tab.media /\ t.reconciled = tab.reconciled
        /\ t.room = None
    BY <1>1 DEF TabStates, Setup
  <1>3. CASE tab.media[j] # "none" /\ tab.room # j
    <2> DEFINE r == Closed(t, j)
    <2>1. tab' = r /\ join' = At(j, "closing") /\ UNCHANGED pending
      BY <1>3 DEF Cancel
    <2> HIDE DEF t
    <2>2. /\ r \in TabStates /\ r = [t EXCEPT !.media = r.media]
          /\ \A i \in Joins : r.media[i] = IF i = j THEN "gone" ELSE t.media[i]
      BY <1>2, ClosedFacts DEF OrNone
    <2> HIDE DEF r
    <2>3. /\ r.live = {} /\ r.joined = None /\ r.owner # j /\ ~r.joining
          /\ r.room = None /\ r.reconciled = tab.reconciled
      BY <1>2, <2>2 DEF TabStates
    <2>4. Setup(r, j, "closing")
      BY <1>1, <1>2, <2>2, <2>3, JoinsAreNotNone DEF Setup
    <2>5. Typed' /\ Working(j)' /\ join'[j].step = "closing"
      BY <2>1, <2>2, <2>4, GoesOn DEF Steps
    <2> QED
      BY <2>1, <2>3, <2>5
  <1>4. CASE ~(tab.media[j] # "none" /\ tab.room # j)
    <2>1. Release(j, t)
      BY <1>2, <1>4 DEF Cancel
    <2> HIDE DEF t
    <2>2. Setup(t, j, "releasing")
      BY <1>1, <1>2, JoinsAreNotNone DEF Setup
    <2> QED
      BY <1>2, <2>1, <2>2, ReleaseFacts
  <1> QED
    BY <1>3, <1>4

\* After an await: a current join goes on with what it got.
LEMMA ContinueFacts ==
    ASSUME Typed, NEW j \in Joins, Working(j), NEW t \in TabStates, t.owner = tab.owner,
           t.joined = tab.joined,
           NEW s \in WorkSteps, s \notin {"closing", "releasing"},
           tab.owner = j => Setup(t, j, s), Continue(j, t, s)
    PROVE  /\ Typed' /\ Working(j)'
           /\ \/ /\ tab.owner = j /\ tab'.owner = j /\ join'[j].step = s
                 /\ tab' = t
              \/ /\ tab.owner # j /\ tab'.live = {} /\ join'[j].step \in {"closing", "releasing"}
           /\ tab'.joined = None
  <1>1. CASE tab.owner = j
    <2>1. tab' = t /\ join' = At(j, s) /\ UNCHANGED pending
      BY <1>1 DEF Continue
    <2>2. s \in Steps /\ s \notin {"idle", "done", "prompt"}
      BY DEF WorkSteps
    <2>3. Typed' /\ Working(j)' /\ join'[j].step = s
      BY <1>1, <2>1, <2>2, GoesOn
    <2> QED
      BY <1>1, <2>1, <2>3 DEF Working, Setup
  <1>2. CASE tab.owner # j
    BY <1>2, CancelFacts DEF Continue
  <1> QED
    BY <1>1, <1>2

\* What one step of a join under way may come to: it goes on, it is given up,
\* the call begins, or the join has ended.
GoesAhead(j) ==
    /\ Working(j)' /\ tab.owner = j /\ tab'.owner = j /\ tab'.joined = None
    /\ join'[j].step \notin {"closing", "releasing"}
    /\ join[j].step \notin {"closing", "releasing"}
    /\ tab'.live # {} \/ tab'.live = tab.live

GivesUp(j) ==
    /\ Working(j)' /\ tab'.joined = None
    /\ join'[j].step \in {"closing", "releasing"}
    /\ \/ tab'.live = tab.live
       \/ tab.owner # j /\ tab'.live = {}

BeginsCall(j) ==
    /\ tab.owner = j /\ join[j].step = "publish"
    /\ Free' /\ InCall(tab') /\ tab'.live = tab.live /\ tab'.joined \in Channels

Ends == Free' /\ Empty(tab')

LEMMA MicFacts ==
    ASSUME IInv, NEW j \in Joins, CaptureMicrophone(j)
    PROVE  Typed' /\ Working(j) /\ (GoesAhead(j) \/ GivesUp(j))
  <1>1. Working(j) /\ Typed /\ join[j].step = "mic"
    BY TheJoin, TypeOKParts DEF IInv, CaptureMicrophone, Idle
  <1>2. tab \in TabStates /\ Setup(tab, j, "mic")
    BY <1>1 DEF Typed, Working
  <1> DEFINE t == [tab EXCEPT !.cached = j, !.live = @ \cup {j}]
  <1>3. CASE tab.capture = j
    <2>1. /\ t \in TabStates /\ t.owner = tab.owner /\ t.joined = tab.joined
          /\ t.live = tab.live \cup {j} /\ t.reconciled = tab.reconciled
          /\ t.joining = tab.joining /\ t.media = tab.media /\ t.room = tab.room
          /\ t.raw = tab.raw
      BY <1>2 DEF TabStates, OrNone
    <2>2. Continue(j, t, "prepare")
      BY <1>3 DEF CaptureMicrophone
    <2> HIDE DEF t
    <2>3. Setup(t, j, "prepare")
      BY <1>2, <2>1 DEF Setup
    <2>4. "prepare" \in WorkSteps
      BY DEF WorkSteps, Steps
    <2> QED
      BY <1>1, <2>1, <2>2, <2>3, <2>4, ContinueFacts DEF GoesAhead, GivesUp
  <1>4. CASE tab.capture # j
    <2>1. Release(j, tab)
      BY <1>4 DEF CaptureMicrophone
    <2> QED
      BY <1>1, <1>2, <2>1, ReleaseFacts DEF GivesUp
  <1> QED
    BY <1>3, <1>4

LEMMA PrepareFacts ==
    ASSUME IInv, NEW j \in Joins, Prepare(j)
    PROVE  Typed' /\ Working(j) /\ (GoesAhead(j) \/ GivesUp(j))
  <1>1. Working(j) /\ Typed /\ join[j].step = "prepare"
    BY TheJoin, TypeOKParts DEF IInv, Prepare, Idle
  <1>2. tab \in TabStates /\ Setup(tab, j, "prepare")
    BY <1>1 DEF Typed, Working
  <1> DEFINE t == [tab EXCEPT !.raw = j]
  <1>3. /\ t \in TabStates /\ t.owner = tab.owner /\ t.joined = tab.joined
        /\ t.live = tab.live /\ t.reconciled = tab.reconciled
        /\ t.joining = tab.joining /\ t.media = tab.media /\ t.room = tab.room
        /\ t.raw = j
    BY <1>2 DEF TabStates, OrNone
  <1>4. Continue(j, t, "build")
    BY DEF Prepare
  <1> HIDE DEF t
  <1>5. Setup(t, j, "build")
    BY <1>2, <1>3 DEF Setup
  <1>6. "build" \in WorkSteps
    BY DEF WorkSteps, Steps
  <1> QED
    BY <1>1, <1>3, <1>4, <1>5, <1>6, ContinueFacts DEF GoesAhead, GivesUp

LEMMA BuildFacts ==
    ASSUME IInv, NEW j \in Joins, BuildTrack(j)
    PROVE  Typed' /\ Working(j) /\ (GoesAhead(j) \/ GivesUp(j))
  <1>1. Working(j) /\ Typed /\ join[j].step = "build"
    BY TheJoin, TypeOKParts DEF IInv, BuildTrack, Idle
  <1>2. tab \in TabStates /\ Setup(tab, j, "build")
    BY <1>1 DEF Typed, Working
  <1>3. Continue(j, tab, "token")
    BY DEF BuildTrack
  <1>4. Setup(tab, j, "token")
    BY <1>2 DEF Setup
  <1>5. "token" \in WorkSteps
    BY DEF WorkSteps, Steps
  <1> QED
    BY <1>1, <1>2, <1>3, <1>4, <1>5, ContinueFacts DEF GoesAhead, GivesUp

\* The room's state changes, for the room the join holds or creates.
LEMMA RoomFacts ==
    ASSUME Typed, NEW j \in Joins, Working(j), NEW state \in RoomStates,
           NEW s \in {"turn", "connect", "publish"},
           join[j].step \in {"token", "turn", "connect"},
           NEW t, t = [tab EXCEPT !.room = IF tab.owner = j THEN j ELSE @, !.media[j] = state],
           Continue(j, t, s)
    PROVE  Typed' /\ (GoesAhead(j) \/ GivesUp(j))
  <1>1. tab \in TabStates /\ Setup(tab, j, join[j].step) /\ tab.media \in [Joins -> RoomStates]
    BY DEF Typed, Working, TabStates
  <1> DEFINE m == [tab.media EXCEPT ![j] = state]
             rm == IF tab.owner = j THEN j ELSE tab.room
  <1>2. m \in [Joins -> RoomStates] /\ m[j] = state /\ \A i \in Joins \ {j} : m[i] = tab.media[i]
    BY <1>1
  <1>3. rm \in OrNone(Joins) /\ (tab.owner = j => rm = j)
    BY <1>1 DEF OrNone, TabStates
  <1>4. t = [tab EXCEPT !.room = rm, !.media = m]
    BY <1>1 DEF TabStates
  <1> HIDE DEF m, rm
  <1>5. /\ t \in TabStates /\ t.owner = tab.owner /\ t.joined = tab.joined
        /\ t.live = tab.live /\ t.reconciled = tab.reconciled
        /\ t.joining = tab.joining /\ t.media = m /\ t.room = rm /\ t.raw = tab.raw
    BY <1>1, <1>2, <1>3, <1>4 DEF TabStates
  <1>6. ASSUME tab.owner = j PROVE Setup(t, j, s)
    BY <1>1, <1>2, <1>3, <1>5, <1>6 DEF Setup
  <1>7. s \in WorkSteps /\ s \notin {"closing", "releasing"}
    BY DEF WorkSteps, Steps
  <1> QED
    BY <1>5, <1>6, <1>7, ContinueFacts DEF GoesAhead, GivesUp

LEMMA TokenFacts ==
    ASSUME IInv, NEW j \in Joins, TokenReceived(j)
    PROVE  Typed' /\ Working(j) /\ (GoesAhead(j) \/ GivesUp(j))
  <1>1. Working(j) /\ Typed /\ join[j].step = "token"
    BY TheJoin, TypeOKParts DEF IInv, TokenReceived, Idle
  <1>2. tab \in TabStates /\ Setup(tab, j, "token")
    BY <1>1 DEF Typed, Working
  <1> DEFINE t == [tab EXCEPT !.room = j, !.media[j] = "new"]
  <1>3. Continue(j, t, "turn")
    BY DEF TokenReceived
  <1>4. CASE tab.owner = j
    <2>1. t = [tab EXCEPT !.room = IF tab.owner = j THEN j ELSE @, !.media[j] = "new"]
      BY <1>2, <1>4 DEF TabStates, Setup
    <2>2. "new" \in RoomStates
      BY DEF RoomStates
    <2> QED
      BY <1>1, <1>3, <2>1, <2>2, RoomFacts
  <1>5. CASE tab.owner # j
    BY <1>1, <1>3, <1>5, CancelFacts DEF Continue, GivesUp
  <1> QED
    BY <1>1, <1>4, <1>5

LEMMA TurnFacts ==
    ASSUME IInv, NEW j \in Joins, TurnReceived(j)
    PROVE  Typed' /\ Working(j) /\ (GoesAhead(j) \/ GivesUp(j))
  <1>1. Working(j) /\ Typed /\ join[j].step = "turn"
    BY TheJoin, TypeOKParts DEF IInv, TurnReceived, Idle
  <1>2. tab \in TabStates /\ Setup(tab, j, "turn")
    BY <1>1 DEF Typed, Working
  <1> DEFINE t == [tab EXCEPT !.media[j] = "connecting"]
  <1>3. Continue(j, t, "connect")
    BY DEF TurnReceived
  <1>4. CASE tab.owner = j
    <2>1. t = [tab EXCEPT !.room = IF tab.owner = j THEN j ELSE @, !.media[j] = "connecting"]
      BY <1>2, <1>4 DEF TabStates, Setup
    <2>2. "connecting" \in RoomStates
      BY DEF RoomStates
    <2> QED
      BY <1>1, <1>3, <2>1, <2>2, RoomFacts
  <1>5. CASE tab.owner # j
    BY <1>1, <1>3, <1>5, CancelFacts DEF Continue, GivesUp
  <1> QED
    BY <1>1, <1>4, <1>5

LEMMA ConnectedFacts ==
    ASSUME IInv, NEW j \in Joins, RoomConnected(j)
    PROVE  Typed' /\ Working(j) /\ (GoesAhead(j) \/ GivesUp(j))
  <1>1. Working(j) /\ Typed /\ join[j].step = "connect"
    BY TheJoin, TypeOKParts DEF IInv, RoomConnected, Idle
  <1>2. tab \in TabStates /\ Setup(tab, j, "connect")
    BY <1>1 DEF Typed, Working
  <1> DEFINE t == [tab EXCEPT !.media[j] = "connected"]
  <1>3. Continue(j, t, "publish")
    BY DEF RoomConnected
  <1>4. CASE tab.owner = j
    <2>1. t = [tab EXCEPT !.room = IF tab.owner = j THEN j ELSE @, !.media[j] = "connected"]
      BY <1>2, <1>4 DEF TabStates, Setup
    <2>2. "connected" \in RoomStates
      BY DEF RoomStates
    <2> QED
      BY <1>1, <1>3, <2>1, <2>2, RoomFacts
  <1>5. CASE tab.owner # j
    BY <1>1, <1>3, <1>5, CancelFacts DEF Continue, GivesUp
  <1> QED
    BY <1>1, <1>4, <1>5

\* A call begins with the room and the microphone of its own join.
LEMMA RegisteredFacts ==
    ASSUME NEW t \in TabStates, NEW j \in Joins, NEW c \in Channels,
           Setup(t, j, "publish"), t.owner = j, t.media[j] = "connected"
    PROVE  LET r == Registered(t, j, c) IN
           r \in TabStates /\ InCall(r) /\ r.live = t.live /\ r.joined = c
  <1> DEFINE told == Send(t, "join", c)
             r == Registered(t, j, c)
  <1>1. [type |-> "join", channel |-> c] \in Notes
    BY DEF Notes
  <1>2. told \in TabStates /\ told = [t EXCEPT !.up = told.up]
    BY <1>1, SendFacts
  <1>3. r = [told EXCEPT !.joined = c, !.mirror = c, !.joining = FALSE]
    BY DEF Registered
  <1> HIDE DEF told, r
  <1>4. /\ told.live = t.live /\ told.raw = t.raw /\ told.cached = t.cached
        /\ told.room = t.room /\ told.media = t.media /\ told.reconciled = t.reconciled
    BY <1>2 DEF TabStates
  <1>5. /\ r \in TabStates /\ r.joined = c /\ ~r.joining
        /\ r.live = told.live /\ r.raw = told.raw /\ r.cached = told.cached
        /\ r.room = told.room /\ r.media = told.media /\ r.reconciled = told.reconciled
    BY <1>2, <1>3 DEF TabStates, OrNone
  <1>6. t.raw = j /\ t.room = j /\ ~t.reconciled /\ t.live \subseteq {j}
        /\ \A i \in Joins : t.media[i] = "connected" => i = j
    BY DEF Setup
  <1>7. InCall(r)
    BY <1>4, <1>5, <1>6, JoinsAreNotNone, ChannelsAreNotNone DEF InCall
  <1>8. r \in TabStates /\ InCall(r) /\ r.live = t.live /\ r.joined = c
    BY <1>4, <1>5, <1>7
  <1> QED
    BY <1>8 DEF r

LEMMA PublishedFacts ==
    ASSUME IInv, NEW j \in Joins, Published(j)
    PROVE  Typed' /\ Working(j) /\ (GivesUp(j) \/ BeginsCall(j))
  <1>1. Working(j) /\ Typed /\ join[j].step = "publish"
    BY TheJoin, TypeOKParts DEF IInv, Published, Idle
  <1>2. tab \in TabStates /\ Setup(tab, j, "publish") /\ join[j].channel \in Channels
        /\ Others(join, j)
    BY <1>1 DEF Typed, Working
  <1>3. CASE tab.owner # j
    BY <1>1, <1>3, CancelFacts DEF Published, GivesUp
  <1>4. CASE tab.owner = j /\ tab.media[j] # "connected"
    <2>1. Release(j, tab)
      BY <1>4 DEF Published
    <2> QED
      BY <1>1, <1>2, <2>1, ReleaseFacts DEF GivesUp
  <1>5. CASE tab.owner = j /\ tab.media[j] = "connected"
    <2> DEFINE r == Registered(tab, j, join[j].channel)
    <2>1. Settle(j, r)
      BY <1>5 DEF Published
    <2>2. r \in TabStates /\ InCall(r) /\ r.live = tab.live /\ r.joined = join[j].channel
      BY <1>2, <1>5, RegisteredFacts
    <2> HIDE DEF r
    <2>3. Typed' /\ tab' = r /\ \A i \in Joins : Idle(join'[i])
      BY <1>1, <1>2, <2>1, <2>2, SettleFacts
    <2>4. Free' /\ InCall(tab')
      BY <2>2, <2>3 DEF Free
    <2> QED
      BY <1>1, <1>2, <1>5, <2>2, <2>3, <2>4 DEF BeginsCall
  <1> QED
    BY <1>3, <1>4, <1>5

LEMMA FailsFacts ==
    ASSUME IInv, NEW j \in Joins, JoinFails(j)
    PROVE  Typed' /\ Working(j) /\ GivesUp(j)
  <1>1. Working(j) /\ Typed
    BY TheJoin, TypeOKParts DEF IInv, JoinFails, Idle
  <1>2. Release(j, tab) /\ tab \in TabStates /\ Setup(tab, j, join[j].step)
    BY <1>1 DEF JoinFails, Typed, Working
  <1> QED
    BY <1>1, <1>2, ReleaseFacts DEF GivesUp

LEMMA CancelClosedFacts ==
    ASSUME IInv, NEW j \in Joins, CancelClosed(j)
    PROVE  Typed' /\ Working(j) /\ GivesUp(j)
  <1>1. Working(j) /\ Typed /\ join[j].step = "closing"
    BY TheJoin, TypeOKParts DEF IInv, CancelClosed, Idle
  <1>2. tab \in TabStates /\ Setup(tab, j, "closing")
    BY <1>1 DEF Typed, Working
  <1>3. Release(j, tab)
    BY <1>2 DEF CancelClosed, Setup
  <1> QED
    BY <1>1, <1>2, <1>3, ReleaseFacts DEF GivesUp

LEMMA ReleasedFacts ==
    ASSUME IInv, NEW j \in Joins, Released(j)
    PROVE  Typed' /\ Working(j) /\ Ends
  <1>1. Working(j) /\ Typed /\ join[j].step = "releasing"
    BY TheJoin, TypeOKParts DEF IInv, Released, Idle
  <1>2. tab \in TabStates /\ Setup(tab, j, "releasing") /\ Others(join, j)
    BY <1>1 DEF Typed, Working
  <1> DEFINE r == [tab EXCEPT !.live = @ \ {tab.raw, tab.cached, j},
                             !.raw = None, !.cached = None, !.capture = None,
                             !.joining = IF tab.owner = j THEN FALSE ELSE @]
  <1>3. Settle(j, r)
    BY DEF Released
  <1>4. /\ r \in TabStates /\ r.joined = tab.joined /\ r.room = tab.room
        /\ r.live = tab.live \ {tab.raw, tab.cached, j} /\ r.media = tab.media
        /\ r.joining = IF tab.owner = j THEN FALSE ELSE tab.joining
    BY <1>2 DEF TabStates, OrNone
  <1> HIDE DEF r
  <1>5. Empty(r)
    BY <1>2, <1>4, JoinsAreNotNone DEF Setup, Empty, NoneConnected
  <1> QED
    BY <1>1, <1>2, <1>3, <1>4, <1>5, SettleFacts DEF Ends, Free

\* Whatever a join does on its own.
LEMMA StepFacts ==
    ASSUME IInv, NEW j \in Joins, JoinStep(j)
    PROVE  /\ Typed' /\ Working(j)
           /\ GoesAhead(j) \/ GivesUp(j) \/ BeginsCall(j) \/ Ends
  BY MicFacts, PrepareFacts, BuildFacts, TokenFacts, TurnFacts, ConnectedFacts,
     PublishedFacts, FailsFacts, CancelClosedFacts, ReleasedFacts DEF JoinStep

-----------------------------------------------------------------------------
(* What happens to the tab from outside *)

\* The tab is still what it was, or its call or its join has been given up.
Kept(t, r) ==
    /\ r \in TabStates
    /\ Empty(t) => Empty(r)
    /\ InCall(t) => InCall(r) \/ Empty(r)
    /\ \A j \in Joins : \A s : Setup(t, j, s) => Setup(r, j, s)

Stays(t, r) == r.joined = t.joined /\ r.live = t.live /\ r.owner = t.owner

Leaves(t, r) ==
    /\ r.joined = None /\ r.owner = None /\ r.live \subseteq t.live
    /\ InCall(t) => Empty(r)

LEMMA KeptFacts ==
    ASSUME IInv, Kept(tab, tab'), UNCHANGED <<join, pending>>
    PROVE  /\ Typed' /\ (Free => Free')
           /\ \A j \in Joins : (Asking(j) => Asking(j)') /\ (Working(j) => Working(j)')
  BY DEF IInv, TypeOK, Typed, Free, Asking, Working, Kept, Others

LEMMA LeaveKept ==
    ASSUME NEW t \in TabStates, NEW b \in BOOLEAN
    PROVE  Kept(t, LeaveVoice(t, b)) /\ Leaves(t, LeaveVoice(t, b))
  <1> DEFINE r == LeaveVoice(t, b)
  <1>1. /\ r \in TabStates /\ r.owner = None /\ r.joined = None
        /\ r.live = t.live \ {t.raw, t.cached}
    BY LeaveFacts
  <1>2. /\ Empty(t) \/ InCall(t) => Empty(r)
        /\ \A j \in Joins : \A s : Setup(t, j, s) => Setup(r, j, s)
    BY LeaveModes
  <1> HIDE DEF r
  <1>3. Kept(t, r) /\ Leaves(t, r)
    BY <1>1, <1>2 DEF Kept, Leaves
  <1> QED
    BY <1>3 DEF r

LEMMA MovedKept ==
    ASSUME NEW t \in TabStates
    PROVE  LET r == MovedAway(t) IN
           /\ Kept(t, r)
           /\ r = t \/ Leaves(t, r)
           /\ t.joined = None /\ ~t.joining /\ t.room = None => r = t
           /\ t.room # None => r.joined = None /\ Leaves(t, r)
  <1>1. CASE t.joined = None /\ ~t.joining /\ t.room = None
    BY <1>1 DEF MovedAway, Kept
  <1>2. CASE ~(t.joined = None /\ ~t.joining /\ t.room = None)
    <2>1. MovedAway(t) = LeaveVoice(t, TRUE)
      BY <1>2 DEF MovedAway
    <2>2. Kept(t, LeaveVoice(t, TRUE)) /\ Leaves(t, LeaveVoice(t, TRUE))
      BY LeaveKept
    <2> QED
      BY <1>2, <2>1, <2>2 DEF Leaves
  <1> QED
    BY <1>1, <1>2

\* A lost room that was not the call's changes nothing.
LEMMA LostKept ==
    ASSUME NEW t \in TabStates, NEW j \in Joins
    PROVE  LET lost == Closed(t, j) IN
           /\ lost \in TabStates /\ Stays(t, lost)
           /\ lost.room = t.room /\ lost.joining = t.joining /\ lost.reconciled = t.reconciled
           /\ Empty(t) => Empty(lost)
           /\ \A i \in Joins : \A s : Setup(t, i, s) => Setup(lost, i, s)
           /\ InCall(t) => t.room # None /\ (t.room # j => InCall(lost))
  <1> DEFINE lost == Closed(t, j)
  <1>1. /\ lost \in TabStates /\ lost = [t EXCEPT !.media = lost.media]
        /\ \A i \in Joins : lost.media[i] = IF i = j THEN "gone" ELSE t.media[i]
    BY ClosedFacts DEF OrNone
  <1> HIDE DEF lost
  <1>2. /\ lost.joined = t.joined /\ lost.live = t.live /\ lost.owner = t.owner
        /\ lost.room = t.room /\ lost.joining = t.joining /\ lost.reconciled = t.reconciled
        /\ lost.raw = t.raw /\ lost.cached = t.cached
    BY <1>1 DEF TabStates
  <1>3. Empty(t) => Empty(lost)
    BY <1>1, <1>2 DEF Empty, NoneConnected
  <1>4. ASSUME NEW i \in Joins, NEW s, Setup(t, i, s) PROVE Setup(lost, i, s)
    BY <1>1, <1>2, <1>4 DEF Setup
  <1>5. t.room \in OrNone(Joins)
    BY DEF TabStates
  <1>6. InCall(t) => t.room # None /\ (t.room # j => InCall(lost))
    BY <1>1, <1>2, <1>5 DEF InCall, OrNone
  <1>7. /\ lost \in TabStates /\ Stays(t, lost)
        /\ lost.room = t.room /\ lost.joining = t.joining /\ lost.reconciled = t.reconciled
        /\ Empty(t) => Empty(lost)
        /\ \A i \in Joins : \A s : Setup(t, i, s) => Setup(lost, i, s)
        /\ InCall(t) => t.room # None /\ (t.room # j => InCall(lost))
    BY <1>1, <1>2, <1>3, <1>4, <1>6 DEF Stays
  <1> QED
    BY <1>7 DEF lost

\* reconcileFinalMediaDisconnect leaves the call or does nothing.
LEMMA FinalKept ==
    ASSUME NEW t \in TabStates, NEW b \in BOOLEAN
    PROVE  LET r == FinalDisconnect(t, b) IN
           \/ /\ t.joined = None \/ t.reconciled \/ ~b
              /\ r = t
           \/ /\ t.joined # None
              /\ r \in TabStates /\ r.joined = None /\ r.owner = None /\ r.live \subseteq t.live
              /\ r.room = None /\ ~r.joining
              /\ r.live = t.live \ {t.raw, t.cached}
              /\ \A i \in Joins : r.media[i] = IF i = t.room THEN "gone" ELSE t.media[i]
  <1>1. CASE t.joined # None /\ ~t.reconciled /\ b
    <2> DEFINE l == LeaveVoice(t, FALSE)
               r == FinalDisconnect(t, b)
    <2>1. /\ l \in TabStates /\ l.owner = None /\ ~l.joining /\ l.joined = None /\ l.room = None
          /\ l.live = t.live \ {t.raw, t.cached}
          /\ \A i \in Joins : l.media[i] = IF i = t.room THEN "gone" ELSE t.media[i]
      BY LeaveFacts
    <2>2. r = [l EXCEPT !.reconciled = TRUE]
      BY <1>1 DEF FinalDisconnect
    <2> HIDE DEF l, r
    <2>3. /\ r \in TabStates /\ r.joined = None /\ r.owner = None
          /\ r.live = l.live /\ r.room = None /\ ~r.joining /\ r.media = l.media
      BY <2>1, <2>2 DEF TabStates
    <2>4. /\ r \in TabStates /\ r.joined = None /\ r.owner = None /\ r.live \subseteq t.live
          /\ r.room = None /\ ~r.joining /\ r.live = t.live \ {t.raw, t.cached}
          /\ \A i \in Joins : r.media[i] = IF i = t.room THEN "gone" ELSE t.media[i]
      BY <2>1, <2>3
    <2> QED
      BY <1>1, <2>4 DEF r
  <1>2. CASE ~(t.joined # None /\ ~t.reconciled /\ b)
    BY <1>2 DEF FinalDisconnect
  <1> QED
    BY <1>1, <1>2

\* A disconnected room ends the call or the join it belongs to.
LEMMA DisconnectKept ==
    ASSUME NEW t \in TabStates, NEW j \in Joins, NEW duplicate \in BOOLEAN
    PROVE  LET lost == Closed(t, j)
               moved == IF duplicate /\ lost.room = j THEN MovedAway(lost) ELSE lost
               r == FinalDisconnect(moved, moved.room = j)
           IN  /\ Kept(t, r)
               /\ Stays(t, r) \/ Leaves(t, r)
               /\ Empty(t) => Stays(t, r)
  <1> DEFINE lost == Closed(t, j)
             moved == IF duplicate /\ lost.room = j THEN MovedAway(lost) ELSE lost
             r == FinalDisconnect(moved, moved.room = j)
             away == LeaveVoice(lost, TRUE)
  <1> SUFFICES Kept(t, r) /\ (Stays(t, r) \/ Leaves(t, r)) /\ (Empty(t) => Stays(t, r))
    OBVIOUS
  <1>1. /\ lost \in TabStates /\ Stays(t, lost)
        /\ lost.room = t.room /\ lost.joining = t.joining /\ lost.reconciled = t.reconciled
        /\ Empty(t) => Empty(lost)
        /\ \A i \in Joins : \A s : Setup(t, i, s) => Setup(lost, i, s)
        /\ InCall(t) => t.room # None /\ (t.room # j => InCall(lost))
    BY LostKept
  <1>2. /\ lost.raw = t.raw /\ lost.cached = t.cached
        /\ \A i \in Joins : lost.media[i] = IF i = j THEN "gone" ELSE t.media[i]
    <2>1. /\ lost = [t EXCEPT !.media = lost.media]
          /\ \A i \in Joins : lost.media[i] = IF i = j THEN "gone" ELSE t.media[i]
      BY ClosedFacts DEF OrNone
    <2> HIDE DEF lost
    <2> QED
      BY <2>1 DEF TabStates
  <1> HIDE DEF lost
  <1>3. CASE duplicate /\ lost.room = j
    <2>1. moved = MovedAway(lost) /\ lost.room # None
      BY <1>3, JoinsAreNotNone
    <2>2. moved = away
      BY <2>1 DEF MovedAway
    <2>3. /\ Kept(lost, moved) /\ Leaves(lost, moved)
      BY <1>1, <2>2, LeaveKept
    <2>4. /\ away.owner = None /\ ~away.joining /\ away.joined = None /\ away.room = None
          /\ away.live = lost.live \ {lost.raw, lost.cached}
          /\ \A i \in Joins : away.media[i] = IF i = lost.room THEN "gone" ELSE lost.media[i]
      BY <1>1, LeaveFacts
    <2>5. r = moved /\ moved \in TabStates
      <3>1. moved \in TabStates /\ moved.joined = None
        BY <2>3 DEF Kept, Leaves
      <3> HIDE DEF moved, away
      <3> QED
        BY <3>1 DEF FinalDisconnect
    <2> HIDE DEF r, moved, away
    <2>6. ~Empty(t)
      BY <1>1, <2>1 DEF Empty
    <2>7. InCall(t) => Empty(r)
      BY <1>1, <1>2, <1>3, <2>2, <2>4, <2>5 DEF InCall, Empty, NoneConnected, Stays
    <2>8. \A i \in Joins : \A s : Setup(t, i, s) => Setup(r, i, s)
      BY <1>1, <2>3, <2>5 DEF Kept
    <2>9. Kept(t, r) /\ Leaves(t, r)
      BY <1>1, <2>3, <2>5, <2>6, <2>7, <2>8 DEF Kept, Leaves, Stays
    <2> QED
      BY <2>6, <2>9
  <1>4. CASE ~(duplicate /\ lost.room = j)
    <2>1. moved = lost /\ r = FinalDisconnect(lost, lost.room = j) /\ (lost.room = j) \in BOOLEAN
      BY <1>4
    <2> HIDE DEF r, moved
    <2>2. \/ /\ lost.joined = None \/ lost.reconciled \/ lost.room # j
             /\ r = lost
          \/ /\ lost.joined # None
             /\ r \in TabStates /\ r.joined = None /\ r.owner = None /\ r.live \subseteq lost.live
             /\ r.room = None /\ ~r.joining
             /\ r.live = lost.live \ {lost.raw, lost.cached}
             /\ \A i \in Joins : r.media[i] = IF i = lost.room THEN "gone" ELSE lost.media[i]
      BY <1>1, <2>1, FinalKept
    <2>3. CASE /\ lost.joined = None \/ lost.reconciled \/ lost.room # j
               /\ r = lost
      <3>1. InCall(t) => InCall(r)
        BY <1>1, <2>3 DEF InCall, Stays
      <3>2. Kept(t, r) /\ Stays(t, r)
        BY <1>1, <2>3, <3>1 DEF Kept
      <3> QED
        BY <3>2
    <2>4. CASE /\ lost.joined # None
               /\ r \in TabStates /\ r.joined = None /\ r.owner = None /\ r.live \subseteq lost.live
               /\ r.room = None /\ ~r.joining
               /\ r.live = lost.live \ {lost.raw, lost.cached}
               /\ \A i \in Joins : r.media[i] = IF i = lost.room THEN "gone" ELSE lost.media[i]
      <3>1. ~Empty(t) /\ \A i \in Joins : \A s : ~Setup(t, i, s)
        BY <1>1, <2>4 DEF Empty, Setup, Stays
      <3>2. InCall(t) => Empty(r)
        BY <1>1, <1>2, <2>4 DEF InCall, Empty, NoneConnected, Stays
      <3>3. Kept(t, r) /\ Leaves(t, r)
        BY <1>1, <2>4, <3>1, <3>2 DEF Kept, Leaves, Stays
      <3> QED
        BY <3>1, <3>3
    <2> QED
      BY <2>2, <2>3, <2>4
  <1> QED
    BY <1>3, <1>4

LEMMA UnplugKept ==
    ASSUME NEW t \in TabStates
    PROVE  LET r == [t EXCEPT !.live = @ \ {t.raw}] IN
           /\ Kept(t, r) /\ r.joined = t.joined /\ r.owner = t.owner
           /\ r.live = t.live \ {t.raw}
  <1> DEFINE r == [t EXCEPT !.live = @ \ {t.raw}]
  <1>1. /\ r \in TabStates /\ r.joined = t.joined /\ r.owner = t.owner
        /\ r.live = t.live \ {t.raw} /\ r.room = t.room /\ r.joining = t.joining
        /\ r.reconciled = t.reconciled /\ r.raw = t.raw /\ r.cached = t.cached
        /\ r.media = t.media
    BY DEF TabStates
  <1> HIDE DEF r
  <1>2. Empty(t) => Empty(r)
    BY <1>1 DEF Empty, NoneConnected
  <1>3. InCall(t) => InCall(r)
    BY <1>1 DEF InCall
  <1>4. \A j \in Joins : \A s : Setup(t, j, s) => Setup(r, j, s)
    BY <1>1 DEF Setup
  <1>5. Kept(t, r) /\ r.joined = t.joined /\ r.owner = t.owner /\ r.live = t.live \ {t.raw}
    BY <1>1, <1>2, <1>3, <1>4 DEF Kept
  <1> QED
    BY <1>5 DEF r

\* Messages and the mirror in the store are no part of it.
SameCall(t, r) ==
    /\ r \in TabStates
    /\ r.joined = t.joined /\ r.owner = t.owner /\ r.live = t.live /\ r.room = t.room
    /\ r.joining = t.joining /\ r.reconciled = t.reconciled /\ r.raw = t.raw
    /\ r.cached = t.cached /\ r.media = t.media

LEMMA SameKept ==
    ASSUME NEW t, NEW r, SameCall(t, r)
    PROVE  Kept(t, r) /\ Stays(t, r)
  <1>1. Empty(t) => Empty(r)
    BY DEF SameCall, Empty, NoneConnected
  <1>2. InCall(t) => InCall(r)
    BY DEF SameCall, InCall
  <1>3. \A j \in Joins : \A s : Setup(t, j, s) => Setup(r, j, s)
    BY DEF SameCall, Setup
  <1> QED
    BY <1>1, <1>2, <1>3 DEF Kept, Stays, SameCall

-----------------------------------------------------------------------------
(* The server's side and the counters keep their types *)

LEMMA SpendFacts ==
    ASSUME spent \in [Spendable -> Nat], NEW what \in Spendable, Spend(what)
    PROVE  spent' \in [Spendable -> Nat]
  BY DEF Spend

LEMMA TellFacts ==
    ASSUME down \in Seq({"left", "moved"}), NEW event \in {"left", "moved"}, Tell(event)
    PROVE  down' \in Seq({"left", "moved"})
  BY DEF Tell

LEMMA RestFacts ==
    ASSUME TypeOK, [Next]_vars
    PROVE  TypedRest'
  <1> USE DEF TypedRest
  <1>1. /\ mounted \in BOOLEAN /\ down \in Seq({"left", "moved"}) /\ session \in Sessions
        /\ rival \in BOOLEAN /\ spent \in [Spendable -> Nat]
        /\ tab \in TabStates
    BY DEF TypeOK
  <1>2. NoSession \in Sessions
    BY DEF NoSession, Sessions, OrNone
  <1>3. down # <<>> => Tail(down) \in Seq({"left", "moved"})
    BY <1>1
  <1>4. CASE UNCHANGED vars
    BY <1>1, <1>4 DEF vars
  <1>5. ASSUME NEW j \in Joins, NEW c \in Channels, AskMicrophone(j, c) \/ MoveVoice(j, c)
        PROVE  TypedRest'
    BY <1>1, <1>5 DEF AskMicrophone, MoveVoice
  <1>6. ASSUME NEW j \in Joins, MicrophoneGranted(j) PROVE TypedRest'
    BY <1>1, <1>6 DEF MicrophoneGranted
  <1>7. ASSUME NEW j \in Joins, MicrophoneDenied(j) PROVE TypedRest'
    <2>1. spent' \in [Spendable -> Nat]
      BY <1>1, <1>7, SpendFacts DEF MicrophoneDenied, Spendable
    <2> QED
      BY <1>1, <1>7, <2>1 DEF MicrophoneDenied
  <1>8. CASE Leave \/ Navigate \/ Unplug
    <2>1. spent' \in [Spendable -> Nat]
      BY <1>1, <1>8, SpendFacts DEF Leave, Navigate, Unplug, Spendable
    <2> QED
      BY <1>1, <1>8, <2>1 DEF Leave, Navigate, Unplug
  <1>9. CASE Unmount \/ FollowMirror \/ SocketReopens
    BY <1>1, <1>9 DEF Unmount, FollowMirror, SocketReopens
  <1>10. ASSUME NEW j \in Joins, JoinStep(j) PROVE TypedRest'
    <2>1. CASE JoinFails(j)
      <3>1. spent' \in [Spendable -> Nat]
        BY <1>1, <2>1, SpendFacts DEF JoinFails, Spendable
      <3> QED
        BY <1>1, <2>1, <3>1 DEF JoinFails
    <2>2. CASE ~JoinFails(j)
      BY <1>1, <1>10, <2>2 DEF JoinStep, CaptureMicrophone, Prepare, BuildTrack, TokenReceived,
         TurnReceived, RoomConnected, Published, CancelClosed, Released
    <2> QED
      BY <2>1, <2>2
  <1>11. ASSUME NEW j \in Joins, NEW duplicate \in BOOLEAN, RoomDisconnected(j, duplicate)
         PROVE  TypedRest'
    <2>1. spent' \in [Spendable -> Nat]
      BY <1>1, <1>11, SpendFacts DEF RoomDisconnected, Spendable
    <2> QED
      BY <1>1, <1>11, <2>1 DEF RoomDisconnected
  <1>12. CASE MirrorDeparture \/ VoiceSessionMoved
    BY <1>1, <1>3, <1>12 DEF MirrorDeparture, VoiceSessionMoved
  <1>13. CASE SocketDrops
    <2>1. spent' \in [Spendable -> Nat]
      BY <1>1, <1>13, SpendFacts DEF SocketDrops, Spendable
    <2>2. session' \in Sessions /\ down' \in Seq({"left", "moved"})
      BY <1>1, <1>13 DEF SocketDrops, Sessions
    <2> QED
      BY <1>1, <1>13, <2>1, <2>2 DEF SocketDrops
  <1>14. CASE ServerReceives
    <2>1. tab.up \in Seq(Notes) /\ tab.up # <<>>
      BY <1>1, <1>14 DEF TabStates, ServerReceives
    <2>2. Head(tab.up) \in Notes
      BY <2>1
    <2>3. CASE Head(tab.up).type = "join"
      <3>1. Head(tab.up).channel \in Channels
        BY <2>2, <2>3 DEF Notes
      <3> QED
        BY <1>1, <1>14, <2>3, <3>1 DEF ServerReceives, Sessions, OrNone
    <2>4. CASE Head(tab.up).type # "join" /\ session.at = "here"
      <3>1. Tell("left") /\ session' = NoSession /\ UNCHANGED <<mounted, rival, spent>>
        BY <1>14, <2>4 DEF ServerReceives
      <3> QED
        BY <1>1, <1>2, <3>1, TellFacts
    <2>5. CASE Head(tab.up).type # "join" /\ session.at # "here"
      BY <1>1, <1>14, <2>5 DEF ServerReceives
    <2> QED
      BY <2>3, <2>4, <2>5
  <1>15. CASE ServerForgets \/ ElsewhereLeaves
    <2>1. Tell("left") /\ session' = NoSession /\ UNCHANGED <<mounted, spent>>
          /\ rival' \in BOOLEAN
      BY <1>1, <1>15 DEF ServerForgets, ElsewhereLeaves
    <2> QED
      BY <1>1, <1>2, <2>1, TellFacts
  <1>16. CASE ServerRevokes
    <2>1. Tell("left") /\ session' = NoSession /\ UNCHANGED <<mounted, rival>>
          /\ Spend("revoke")
      BY <1>16 DEF ServerRevokes
    <2>2. spent' \in [Spendable -> Nat]
      BY <1>1, <2>1, SpendFacts DEF Spendable
    <2> QED
      BY <1>1, <1>2, <2>1, <2>2, TellFacts
  <1>17. CASE ElsewhereConnects
    <2>1. spent' \in [Spendable -> Nat]
      BY <1>1, <1>17, SpendFacts DEF ElsewhereConnects, Spendable
    <2> QED
      BY <1>1, <1>17, <2>1 DEF ElsewhereConnects
  <1>18. CASE ElsewhereFails
    BY <1>1, <1>18 DEF ElsewhereFails
  <1>19. ASSUME NEW c \in Channels, ElsewhereJoins(c) PROVE TypedRest'
    <2>1. session' \in Sessions /\ UNCHANGED <<mounted, rival, spent>>
      BY <1>19 DEF ElsewhereJoins, Sessions, OrNone
    <2>2. Tell("moved") \/ UNCHANGED down
      BY <1>19 DEF ElsewhereJoins
    <2> QED
      BY <1>1, <2>1, <2>2, TellFacts
  <1> QED
    BY <1>4, <1>5, <1>6, <1>7, <1>8, <1>9, <1>10, <1>11, <1>12, <1>13, <1>14, <1>15, <1>16,
       <1>17, <1>18, <1>19 DEF Next, User, Events, Server

-----------------------------------------------------------------------------
(* The steps that leave every join where it is *)

\* Nothing new opens, or what there was has been left.
Remains ==
    /\ tab'.joined = tab.joined /\ tab'.owner = tab.owner /\ tab'.live \subseteq tab.live
    /\ mounted' \in {mounted, FALSE}

Hung == Leaves(tab, tab') /\ ~Empty(tab)

Outside ==
    \/ Leave \/ Unmount \/ Unplug \/ Events \/ Server
    \/ \E j \in Joins, duplicate \in BOOLEAN : RoomDisconnected(j, duplicate)
    \/ UNCHANGED vars

LEMMA LeftFacts ==
    ASSUME tab \in TabStates, NEW b \in BOOLEAN, tab' = LeaveVoice(tab, b),
           tab.joining \/ tab.joined # None \/ tab.room # None
    PROVE  Kept(tab, tab') /\ Hung
  BY LeaveKept DEF Hung, Empty

LEMMA SameFacts ==
    ASSUME SameCall(tab, tab'), UNCHANGED mounted
    PROVE  Kept(tab, tab') /\ Remains
  BY SameKept DEF Remains, Stays

LEMMA AnnounceFacts ==
    ASSUME tab \in TabStates, SocketReopens
    PROVE  SameCall(tab, tab') /\ UNCHANGED <<join, pending, mounted>>
  <1> DEFINE open == [tab EXCEPT !.online = TRUE]
             told == Send(open, "join", tab.joined)
  <1>1. SameCall(tab, open) /\ open \in TabStates /\ open.joined = tab.joined
    BY DEF TabStates, SameCall
  <1>2. /\ tab' \in {open, told} /\ (tab.joined = None => tab' = open)
        /\ UNCHANGED <<join, pending, mounted>>
    BY DEF SocketReopens
  <1>3. CASE tab.joined # None
    <2>1. [type |-> "join", channel |-> tab.joined] \in Notes
      BY <1>3 DEF Notes, TabStates, OrNone
    <2> HIDE DEF open
    <2>2. told \in TabStates /\ told = [open EXCEPT !.up = told.up]
      BY <1>1, <2>1, SendFacts
    <2> HIDE DEF told
    <2>3. SameCall(tab, told)
      BY <1>1, <2>2 DEF SameCall, TabStates
    <2> QED
      BY <1>1, <1>2, <2>3
  <1>4. CASE tab.joined = None
    BY <1>1, <1>2, <1>4
  <1> QED
    BY <1>3, <1>4

LEMMA OutsideFacts ==
    ASSUME TypeOK, Outside
    PROVE  Kept(tab, tab') /\ (Remains \/ Hung) /\ UNCHANGED <<join, pending>>
  <1>1. tab \in TabStates /\ mounted \in BOOLEAN /\ SameCall(tab, tab)
    BY DEF TypeOK, SameCall
  <1>2. CASE Leave
    BY <1>1, <1>2, LeftFacts DEF Leave
  <1>3. CASE Unmount
    <2>1. CASE tab.joined # None \/ tab.joining \/ tab.room # None
      BY <1>1, <1>3, <2>1, LeftFacts DEF Unmount
    <2>2. CASE ~(tab.joined # None \/ tab.joining \/ tab.room # None)
      <3>1. tab' = tab /\ mounted' = FALSE /\ UNCHANGED <<join, pending>>
        BY <1>3, <2>2 DEF Unmount
      <3> QED
        BY <1>1, <3>1, SameKept DEF Remains
    <2> QED
      BY <2>1, <2>2
  <1>4. CASE Unplug
    <2>1. /\ tab' = [tab EXCEPT !.live = @ \ {tab.raw}]
          /\ UNCHANGED <<join, pending, mounted>>
      BY <1>4 DEF Unplug
    <2> QED
      BY <1>1, <2>1, UnplugKept DEF Remains
  <1>5. CASE MirrorDeparture
    <2>1. /\ tab' = [tab EXCEPT !.mirror = None] /\ UNCHANGED <<join, pending, mounted>>
      BY <1>5 DEF MirrorDeparture
    <2>2. SameCall(tab, tab')
      BY <1>1, <2>1 DEF SameCall, TabStates, OrNone
    <2> QED
      BY <2>1, <2>2, SameFacts
  <1>6. CASE FollowMirror
    BY <1>1, <1>6, LeftFacts DEF FollowMirror
  <1>7. CASE VoiceSessionMoved
    <2>1. /\ tab' = (IF mounted THEN MovedAway(tab) ELSE tab)
          /\ UNCHANGED <<join, pending, mounted>>
      BY <1>7 DEF VoiceSessionMoved
    <2>2. CASE tab' = tab
      BY <1>1, <2>1, <2>2, SameFacts
    <2>3. CASE tab' = MovedAway(tab) /\ tab' # tab
      BY <1>1, <2>1, <2>3, MovedKept DEF Hung, Empty
    <2> QED
      BY <2>1, <2>2, <2>3
  <1>8. CASE SocketDrops
    <2>1. /\ tab' = [tab EXCEPT !.online = FALSE, !.up = <<>>]
          /\ UNCHANGED <<join, pending, mounted>>
      BY <1>8 DEF SocketDrops
    <2>2. <<>> \in Seq(Notes)
      OBVIOUS
    <2>3. SameCall(tab, tab')
      BY <1>1, <2>1, <2>2 DEF SameCall, TabStates
    <2> QED
      BY <2>1, <2>3, SameFacts
  <1>9. CASE SocketReopens
    BY <1>1, <1>9, AnnounceFacts, SameFacts
  <1>10. CASE ServerReceives
    <2>1. /\ tab' = [tab EXCEPT !.up = Tail(@)] /\ tab.up # <<>>
          /\ UNCHANGED <<join, pending, mounted>>
      BY <1>10 DEF ServerReceives
    <2>2. tab.up \in Seq(Notes)
      BY <1>1 DEF TabStates
    <2>3. Tail(tab.up) \in Seq(Notes)
      BY <2>1, <2>2
    <2>4. SameCall(tab, tab')
      BY <1>1, <2>1, <2>3 DEF SameCall, TabStates
    <2> QED
      BY <2>1, <2>4, SameFacts
  <1>11. CASE (Server /\ ~ServerReceives) \/ UNCHANGED vars
    <2>1. UNCHANGED <<tab, join, pending, mounted>>
      BY <1>11 DEF Server, ServerForgets, ServerRevokes, ElsewhereConnects, ElsewhereFails,
         ElsewhereLeaves, ElsewhereJoins, vars
    <2> QED
      BY <1>1, <2>1, SameFacts
  <1>12. ASSUME NEW j \in Joins, NEW duplicate \in BOOLEAN, RoomDisconnected(j, duplicate)
         PROVE  Kept(tab, tab') /\ (Remains \/ Hung) /\ UNCHANGED <<join, pending>>
    <2>1. UNCHANGED <<join, pending, mounted>>
      BY <1>12 DEF RoomDisconnected
    <2>2. /\ Kept(tab, tab')
          /\ Stays(tab, tab') \/ Leaves(tab, tab')
          /\ Empty(tab) => Stays(tab, tab')
      BY <1>1, <1>12, DisconnectKept DEF RoomDisconnected
    <2> QED
      BY <2>1, <2>2 DEF Remains, Hung, Stays
  <1> QED
    BY <1>2, <1>3, <1>4, <1>5, <1>6, <1>7, <1>8, <1>9, <1>10, <1>11, <1>12 DEF Outside, Events

\* Opening another channel touches an attempt at its prompt and nothing else.
LEMMA NavigateFacts ==
    ASSUME IInv, Navigate
    PROVE  /\ Typed' /\ tab' = tab /\ mounted' = mounted
           /\ \E j \in Joins : Asking(j) /\ join[j].current /\ Asking(j)' /\ ~join'[j].current
  <1>1. Typed
    BY TypeOKParts DEF IInv
  <1>2. PICK j \in Joins : join[j].step = "prompt" /\ join[j].current
    BY DEF Navigate
  <1>3. Asking(j)
    BY <1>2, TheJoin DEF Idle
  <1>4. /\ join' = [i \in Joins |-> [join[i] EXCEPT !.current = @ /\ join[i].step # "prompt"]]
        /\ tab' = tab /\ pending' = pending /\ mounted' = mounted
    BY DEF Navigate
  <1>5. ASSUME NEW i \in Joins
        PROVE  /\ join'[i] \in JoinStates /\ join'[i].step = join[i].step
               /\ join'[i].channel = join[i].channel
               /\ join'[i].current = (join[i].current /\ join[i].step # "prompt")
    <2>1. join[i] \in JoinStates
      BY <1>1 DEF Typed
    <2>2. join'[i] = [join[i] EXCEPT !.current = @ /\ join[i].step # "prompt"]
      BY <1>4
    <2> QED
      BY <2>1, <2>2 DEF JoinStates
  <1>6. join' \in [Joins -> JoinStates]
    BY <1>4, <1>5
  <1>7. Asking(j)' /\ ~join'[j].current
    BY <1>2, <1>3, <1>4, <1>5 DEF Asking, Others, Idle
  <1> QED
    BY <1>1, <1>2, <1>3, <1>4, <1>6, <1>7 DEF Typed

-----------------------------------------------------------------------------
(* The invariant *)

LEMMA IInvInit == Init => IInv
  <1> SUFFICES ASSUME Init PROVE IInv
    OBVIOUS
  <1>1. tab \in TabStates /\ Empty(tab)
    BY DEF Init, TabStates, Empty, NoneConnected, OrNone, RoomStates
  <1>2. join \in [Joins -> JoinStates] /\ \A j \in Joins : Idle(join[j])
    BY DEF Init, JoinStates, Steps, OrNone, Idle
  <1>3. session \in Sessions
    BY DEF Init, NoSession, Sessions, OrNone
  <1>4. /\ pending = FALSE /\ mounted = TRUE /\ rival = FALSE
        /\ down \in Seq({"left", "moved"}) /\ spent \in [Spendable -> Nat]
    BY DEF Init
  <1> QED
    BY <1>1, <1>2, <1>3, <1>4 DEF IInv, TypeOK, Free

LEMMA IInvStep == IInv /\ [Next]_vars => IInv'
  <1> SUFFICES ASSUME IInv, [Next]_vars PROVE IInv'
    OBVIOUS
  <1>1. TypeOK /\ TypedRest'
    BY RestFacts DEF IInv
  <1>2. SUFFICES Typed' /\ (Free' \/ \E j \in Joins : Asking(j)' \/ Working(j)')
    BY <1>1, TypeOKParts DEF IInv
  <1>3. CASE Outside
    <2>1. Kept(tab, tab') /\ UNCHANGED <<join, pending>>
      BY <1>1, <1>3, OutsideFacts
    <2> QED
      BY <2>1, KeptFacts DEF IInv
  <1>4. ASSUME NEW j \in Joins, NEW c \in Channels, AskMicrophone(j, c)
        PROVE  Typed' /\ Asking(j)'
    BY <1>4, AskFacts
  <1>5. ASSUME NEW j \in Joins, NEW c \in Channels, MoveVoice(j, c)
        PROVE  Typed' /\ (Free' \/ Working(j)')
    BY <1>5, MoveFacts
  <1>6. ASSUME NEW j \in Joins, MicrophoneGranted(j)
        PROVE  Typed' /\ (Free' \/ Working(j)')
    BY <1>6, GrantedFacts
  <1>7. ASSUME NEW j \in Joins, MicrophoneDenied(j) PROVE Typed' /\ Free'
    BY <1>7, DeniedFacts
  <1>8. CASE Navigate
    BY <1>8, NavigateFacts
  <1>9. ASSUME NEW j \in Joins, JoinStep(j) PROVE Typed' /\ (Free' \/ Working(j)')
    BY <1>9, StepFacts DEF GoesAhead, GivesUp, BeginsCall, Ends
  <1> QED
    BY <1>3, <1>4, <1>5, <1>6, <1>7, <1>8, <1>9 DEF Next, User, Outside

THEOREM Invariant == Spec => []IInv
  BY IInvInit, IInvStep, PTL DEF Spec

\* The tab's refs, its joins, its messages and the session keep their types.
THEOREM TypeCorrect == Spec => []TypeOK
  <1>1. IInv => TypeOK
    BY DEF IInv
  <1> QED
    BY <1>1, Invariant, PTL

\* Whatever the order of leaves, failures, late permissions and takeovers, a
\* microphone that runs belongs to the call or to a join that has not settled.
THEOREM MicrophoneIsAlwaysOwned == Spec => []MicrophoneIsOwned
  <1>1. IInv => MicrophoneIsOwned
    BY DEF IInv, MicrophoneIsOwned, Free, Asking, Working, Empty, InCall, Setup, Suspended,
       Active, Idle
  <1> QED
    BY <1>1, Invariant, PTL

\* A tab in voice has its own connected room, and no other room is connected:
\* a join that settles late neither takes the new call down nor leaves a room.
THEOREM CallAlwaysHasItsRoom == Spec => []CallHasItsRoom
  <1>1. IInv => CallHasItsRoom
    BY DEF IInv, CallHasItsRoom, Free, Asking, Working, Empty, InCall, Setup, NoneConnected
  <1> QED
    BY <1>1, Invariant, PTL

-----------------------------------------------------------------------------
(* The promise of a call *)

\* What the user sees of the request, for a tab in each of its modes.
Wanted(j) == tab.owner = j /\ join[j].step \notin {"closing", "releasing"}

LEMMA RequestNow ==
    /\ Free => Request = "none"
    /\ \A j \in Joins : Asking(j) =>
          Request = IF join[j].current /\ mounted THEN "open" ELSE "dropped"
    /\ \A j \in Joins : Working(j) => Request = IF Wanted(j) THEN "open" ELSE "dropped"
  <1>1. Free => Request = "none"
    BY DEF Free, Request, Active, Idle
  <1>2. ASSUME NEW j \in Joins, Asking(j)
        PROVE  Request = IF join[j].current /\ mounted THEN "open" ELSE "dropped"
    BY <1>2 DEF Asking, Others, Request, Active, Suspended, Idle
  <1>3. ASSUME NEW j \in Joins, Working(j)
        PROVE  Request = IF Wanted(j) THEN "open" ELSE "dropped"
    BY <1>3 DEF Working, Others, Request, Active, Suspended, Idle, Wanted
  <1> QED
    BY <1>1, <1>2, <1>3

LEMMA RequestNext ==
    /\ Free' => Request' = "none"
    /\ \A j \in Joins : Asking(j)' =>
          Request' = IF join'[j].current /\ mounted' THEN "open" ELSE "dropped"
    /\ \A j \in Joins : Working(j)' => Request' = IF Wanted(j)' THEN "open" ELSE "dropped"
  <1>1. Free' => Request' = "none"
    BY DEF Free, Request, Active, Idle
  <1>2. ASSUME NEW j \in Joins, Asking(j)'
        PROVE  Request' = IF join'[j].current /\ mounted' THEN "open" ELSE "dropped"
    BY <1>2 DEF Asking, Others, Request, Active, Suspended, Idle
  <1>3. ASSUME NEW j \in Joins, Working(j)'
        PROVE  Request' = IF Wanted(j)' THEN "open" ELSE "dropped"
    BY <1>3 DEF Working, Others, Request, Active, Suspended, Idle, Wanted
  <1> QED
    BY <1>1, <1>2, <1>3

Mic == tab.live # {}

\* A step of the promise, spelled out for the tab.
Allowed(c, c2, q, q2, m, m2) ==
    \/ q = "none" /\ q2 = "open" /\ c2 = None /\ (m2 => m)
    \/ q # "none" /\ m2 = TRUE /\ c2 = c /\ q2 = q
    \/ q = "open" /\ q2 = "dropped" /\ c2 = c /\ m2 = m
    \/ q = "open" /\ q2 = "none" /\ c2 \in Channels /\ m2 = m
    \/ q2 = "none" /\ c2 = None /\ m2 = FALSE
    \/ c2 = None /\ q2 = (IF q = "none" THEN "none" ELSE "dropped") /\ (m2 => m /\ q # "none")
    \/ m2 = FALSE /\ c2 = c /\ q2 = q
    \/ c2 = c /\ q2 = q /\ m2 = m

Promised == Allowed(tab.joined, tab'.joined, Request, Request', Mic, Mic')

LEMMA PromisedIs == Promised => [Promise!Next]_(Promise!vars)
  BY DEF Promised, Allowed, Mic, Promise!Next, Promise!vars, Promise!Ask, Promise!OpenMicrophone,
     Promise!Drop, Promise!Begin, Promise!GiveUp, Promise!HangUp, Promise!Unplug

LEMMA EmptyMic ==
    /\ Empty(tab) => ~Mic /\ tab.joined = None
    /\ Empty(tab') => ~Mic' /\ tab'.joined = None
    /\ tab'.live = tab.live => Mic' = Mic
    /\ tab'.live \subseteq tab.live => (Mic' = Mic \/ Mic' = FALSE) /\ (Mic' => Mic)
    /\ tab'.live = {} => ~Mic'
  BY DEF Empty, Mic

\* A step that touches no join: it hangs up, unplugs, drops the request at its
\* prompt, or is none of the promise's business.
LEMMA OutsidePromised ==
    ASSUME IInv, Outside
    PROVE  Promised
  <1>1. TypeOK /\ mounted \in BOOLEAN
    BY DEF IInv, TypeOK
  <1>2. /\ Kept(tab, tab') /\ (Remains \/ Hung) /\ UNCHANGED <<join, pending>>
        /\ (Free => Free')
        /\ \A j \in Joins : (Asking(j) => Asking(j)') /\ (Working(j) => Working(j)')
    <2>1. Kept(tab, tab') /\ (Remains \/ Hung) /\ UNCHANGED <<join, pending>>
      BY <1>1, OutsideFacts
    <2> QED
      BY <2>1, KeptFacts
  <1>3. CASE Free
    <2>1. Request = "none" /\ Request' = "none"
      BY <1>2, <1>3, RequestNow, RequestNext
    <2>2. CASE Remains
      BY <2>1, <2>2, EmptyMic DEF Remains, Promised, Allowed
    <2>3. CASE Hung
      <3>1. InCall(tab)
        BY <1>3, <2>3 DEF Free, Hung
      <3>2. Empty(tab')
        BY <2>3, <3>1 DEF Hung, Leaves
      <3> QED
        BY <2>1, <3>2, EmptyMic DEF Promised, Allowed
    <2> QED
      BY <1>2, <2>2, <2>3
  <1>4. ASSUME NEW j \in Joins, Asking(j) PROVE Promised
    <2>1. Remains /\ Empty(tab) /\ Empty(tab') /\ join' = join
      BY <1>2, <1>4 DEF Asking, Hung, Kept
    <2>2. /\ Request = (IF join[j].current /\ mounted THEN "open" ELSE "dropped")
          /\ Request' = (IF join[j].current /\ mounted' THEN "open" ELSE "dropped")
      BY <1>2, <1>4, <2>1, RequestNow, RequestNext
    <2>3. mounted' => mounted
      BY <2>1 DEF Remains
    <2>4. Request' = Request \/ (Request = "open" /\ Request' = "dropped")
      BY <2>2, <2>3
    <2>5. Mic = FALSE /\ Mic' = FALSE /\ tab.joined = None /\ tab'.joined = None
      BY <2>1 DEF Empty, Mic
    <2> QED
      BY <2>4, <2>5 DEF Promised, Allowed
  <1>5. ASSUME NEW j \in Joins, Working(j) PROVE Promised
    <2>1. /\ Request = (IF Wanted(j) THEN "open" ELSE "dropped")
          /\ Request' = (IF Wanted(j)' THEN "open" ELSE "dropped")
      BY <1>2, <1>5, RequestNow, RequestNext
    <2>2. CASE Remains
      <3>1. Request' = Request
        BY <1>2, <2>1, <2>2 DEF Remains, Wanted
      <3> QED
        BY <2>2, <3>1, EmptyMic DEF Remains, Promised, Allowed
    <2>3. CASE Hung
      <3>1. Request' = "dropped" /\ Request # "none"
        BY <2>1, <2>3, JoinsAreNotNone DEF Hung, Leaves, Wanted
      <3> QED
        BY <2>3, <3>1, EmptyMic DEF Hung, Leaves, Promised, Allowed
    <2> QED
      BY <1>2, <2>2, <2>3
  <1> QED
    BY <1>3, <1>4, <1>5 DEF IInv

\* A step of a join under way: the microphone opens or nothing changes, the
\* request is dropped, the call begins, or the request is given up.
LEMMA StepPromised ==
    ASSUME IInv, NEW j \in Joins, JoinStep(j)
    PROVE  Promised
  <1>1. /\ Working(j)
        /\ GoesAhead(j) \/ GivesUp(j) \/ BeginsCall(j) \/ Ends
    BY StepFacts
  <1>2. tab.joined = None /\ Request = IF Wanted(j) THEN "open" ELSE "dropped"
    BY <1>1, RequestNow DEF Working, Setup
  <1>3. CASE GoesAhead(j)
    <2>1. Request = "open" /\ Request' = "open" /\ tab'.joined = None
      BY <1>2, <1>3, RequestNext DEF GoesAhead, Wanted
    <2>2. Mic' = TRUE \/ Mic' = Mic
      BY <1>3 DEF GoesAhead, Mic
    <2> QED
      BY <1>2, <2>1, <2>2 DEF Promised, Allowed
  <1>4. CASE GivesUp(j)
    <2>1. Request' = "dropped" /\ tab'.joined = None /\ Request \in {"open", "dropped"}
      BY <1>2, <1>4, RequestNext DEF GivesUp, Wanted
    <2>2. CASE tab'.live = tab.live
      BY <1>2, <2>1, <2>2, EmptyMic DEF Promised, Allowed
    <2>3. CASE tab.owner # j /\ tab'.live = {}
      BY <1>2, <2>1, <2>3, EmptyMic DEF Promised, Allowed
    <2> QED
      BY <1>4, <2>2, <2>3 DEF GivesUp
  <1>5. CASE BeginsCall(j)
    <2>1. Request = "open" /\ Request' = "none" /\ tab'.joined \in Channels
      BY <1>2, <1>5, RequestNext DEF BeginsCall, Wanted
    <2> QED
      BY <1>5, <2>1, EmptyMic DEF BeginsCall, Promised, Allowed
  <1>6. CASE Ends
    <2>1. Request' = "none" /\ Empty(tab')
      BY <1>6, RequestNext DEF Ends
    <2> QED
      BY <2>1, EmptyMic DEF Promised, Allowed
  <1> QED
    BY <1>1, <1>3, <1>4, <1>5, <1>6

LEMMA MovePromised ==
    ASSUME IInv, NEW j \in Joins, NEW c \in Channels, MoveVoice(j, c)
    PROVE  Promised
  <1>1. /\ Free
        /\ \/ Free' /\ Empty(tab')
           \/ /\ Working(j)' /\ tab'.owner = j /\ join'[j].step \in {"prepare", "mic"}
              /\ tab'.live # {} => tab.live # {}
    BY MoveFacts
  <1>2. Request = "none"
    BY <1>1, RequestNow
  <1>3. CASE Free' /\ Empty(tab')
    <2>1. Request' = "none"
      BY <1>3, RequestNext
    <2> QED
      BY <1>3, <2>1, EmptyMic DEF Promised, Allowed
  <1>4. CASE /\ Working(j)' /\ tab'.owner = j /\ join'[j].step \in {"prepare", "mic"}
             /\ tab'.live # {} => tab.live # {}
    <2>1. Request' = "open" /\ tab'.joined = None
      BY <1>4, RequestNext DEF Wanted, Working, Setup
    <2> QED
      BY <1>2, <1>4, <2>1 DEF Promised, Allowed, Mic
  <1> QED
    BY <1>1, <1>3, <1>4

LEMMA PromptPromised ==
    ASSUME IInv, NEW j \in Joins, MicrophoneGranted(j) \/ MicrophoneDenied(j)
    PROVE  Promised
  <1>1. /\ Asking(j)
        /\ \/ Free' /\ Empty(tab')
           \/ /\ Working(j)' /\ tab'.owner = j /\ tab'.live # {}
              /\ join'[j].step \in {"prepare", "mic"} /\ join[j].current /\ mounted
    BY GrantedFacts, DeniedFacts
  <1>2. CASE Free' /\ Empty(tab')
    <2>1. Request' = "none"
      BY <1>2, RequestNext
    <2> QED
      BY <1>2, <2>1, EmptyMic DEF Promised, Allowed
  <1>3. CASE /\ Working(j)' /\ tab'.owner = j /\ tab'.live # {}
             /\ join'[j].step \in {"prepare", "mic"} /\ join[j].current /\ mounted
    <2>1. Request = "open" /\ tab.joined = None
      BY <1>1, <1>3, RequestNow DEF Asking, Empty
    <2>2. Request' = "open" /\ tab'.joined = None
      BY <1>3, RequestNext DEF Wanted, Working, Setup
    <2> QED
      BY <1>3, <2>1, <2>2 DEF Promised, Allowed, Mic
  <1> QED
    BY <1>1, <1>2, <1>3

LEMMA AskPromised ==
    ASSUME IInv, NEW j \in Joins, NEW c \in Channels, AskMicrophone(j, c)
    PROVE  Promised
  <1>1. /\ Free /\ Empty(tab) /\ Asking(j)' /\ tab' = tab
        /\ join'[j].current /\ mounted'
    BY AskFacts
  <1>2. Request = "none" /\ Request' = "open" /\ tab'.joined = None /\ (Mic' => Mic)
    BY <1>1, RequestNow, RequestNext, EmptyMic DEF Empty
  <1> QED
    BY <1>2 DEF Promised, Allowed

LEMMA NavigatePromised ==
    ASSUME IInv, Navigate
    PROVE  Promised
  <1>1. PICK j \in Joins : Asking(j) /\ join[j].current /\ Asking(j)' /\ ~join'[j].current
    BY NavigateFacts
  <1>2. tab' = tab
    BY NavigateFacts
  <1>3. Request' = "dropped" /\ Request \in {"open", "dropped"}
    BY <1>1, RequestNow, RequestNext
  <1> QED
    BY <1>2, <1>3, EmptyMic DEF Promised, Allowed

\* The tab implements the safety part of CallPromise (KeepsPromise without the
\* promise that an open microphone closes): it asks, opens the microphone,
\* begins, drops, hangs up and gives up only as the promise allows.
THEOREM ImplementsPromise ==
    Spec => Promise!Init /\ [][Promise!Next]_(Promise!vars)
  <1>1. Init => Promise!Init
    <2> SUFFICES ASSUME Init PROVE Promise!Init
      OBVIOUS
    <2>1. tab.joined = None /\ tab.live = {} /\ \A j \in Joins : Idle(join[j])
      BY DEF Init, Idle
    <2> QED
      BY <2>1 DEF Promise!Init, Request, Active, Idle
  <1>2. IInv /\ [Next]_vars => [Promise!Next]_(Promise!vars)
    <2> SUFFICES ASSUME IInv, [Next]_vars PROVE Promised
      BY PromisedIs
    <2> QED
      BY OutsidePromised, StepPromised, MovePromised, PromptPromised, AskPromised,
         NavigatePromised DEF Next, User, Outside
  <1> QED
    BY <1>1, <1>2, Invariant, PTL DEF Spec

\* What the user gets from the promise: the microphone is open only in a call or
\* while a request of theirs has not settled.
THEOREM NobodyEverListens == Spec => []Promise!NobodyListens
  <1> USE DEF Promise!NobodyListens
  <1>1. Promise!Init => Promise!NobodyListens
    BY DEF Promise!Init
  <1>2. Promise!NobodyListens /\ [Promise!Next]_(Promise!vars) => Promise!NobodyListens'
    BY NoneAssumption DEF Promise!vars, Promise!Next, Promise!Ask, Promise!OpenMicrophone,
       Promise!Drop, Promise!Begin, Promise!GiveUp, Promise!HangUp, Promise!Unplug
  <1> QED
    BY <1>1, <1>2, ImplementsPromise, PTL

-----------------------------------------------------------------------------
(* What the tab has told the server.  Without another device, the last      *)
(* message on its way to the server says where the tab is; when there is    *)
(* none, the session does, or a departure is on its way to the tab.         *)

Final(s) == s[Len(s)]
LeaveNote == [type |-> "leave", channel |-> None]
JoinNote(c) == [type |-> "join", channel |-> c]

Spoken(t, s, d) ==
    /\ ~t.online => t.up = <<>> /\ s.at # "here"
    /\ t.online /\ t.up # <<>> =>
          Final(t.up) = IF t.joined = None THEN LeaveNote ELSE JoinNote(t.joined)
    /\ t.online /\ t.up = <<>> /\ t.joined = None => s.at # "here"
    /\ t.online /\ t.up = <<>> /\ t.joined # None =>
          s = [at |-> "here", channel |-> t.joined] \/ d # <<>> \/ t.mirror = None

Alone == ~rival /\ session.at # "elsewhere" /\ \A i \in DOMAIN down : down[i] = "left"

SInv == spent["elsewhere"] = 0 => Alone /\ (mounted => Spoken(tab, session, down))

\* What a step may say: nothing, that the call is left, or where it is.
Quietly(t, r) ==
    /\ r \in TabStates
    /\ r.joined = t.joined /\ r.mirror = t.mirror /\ r.online = t.online /\ r.up = t.up

Says(t, r, note) ==
    /\ r \in TabStates /\ r.online = t.online
    /\ r.up = IF t.online THEN Append(t.up, note) ELSE t.up

SaysLeft(t, r) == r.joined = None /\ Says(t, r, LeaveNote)
SaysJoined(t, r) == r.joined \in Channels /\ Says(t, r, JoinNote(r.joined))

LEMMA Quietest == \A t \in TabStates : Quietly(t, t)
  BY DEF Quietly

LEMMA QuietThenQuiet ==
    ASSUME NEW t, NEW r, NEW u, Quietly(t, r), Quietly(r, u)
    PROVE  Quietly(t, u)
  BY DEF Quietly

LEMMA LeftThenQuiet ==
    ASSUME NEW t, NEW r, NEW u, SaysLeft(t, r), Quietly(r, u)
    PROVE  SaysLeft(t, u)
  BY DEF Quietly, SaysLeft, Says

LEMMA QuietThenLeft ==
    ASSUME NEW t, NEW r, NEW u, Quietly(t, r), SaysLeft(r, u)
    PROVE  SaysLeft(t, u)
  BY DEF Quietly, SaysLeft, Says

LEMMA NotesFacts ==
    /\ LeaveNote \in Notes
    /\ \A c \in Channels : JoinNote(c) \in Notes
  BY DEF Notes, LeaveNote, JoinNote

LEMMA Appending ==
    ASSUME NEW s \in Seq(Notes), NEW note \in Notes
    PROVE  Append(s, note) # <<>> /\ Final(Append(s, note)) = note
  BY DEF Final

LEMMA Receiving ==
    ASSUME NEW s \in Seq(Notes), s # <<>>
    PROVE  /\ Tail(s) \in Seq(Notes)
           /\ Tail(s) # <<>> => Final(Tail(s)) = Final(s)
           /\ Tail(s) = <<>> => Final(s) = Head(s)
  BY DEF Final

LEMMA QuietlySpoken ==
    ASSUME NEW t \in TabStates, NEW r, NEW s, NEW d, Spoken(t, s, d), Quietly(t, r)
    PROVE  Spoken(r, s, d)
  BY DEF Spoken, Quietly

\* Offline, nothing is said, and the session is not this tab's.
LEMMA LeftSpoken ==
    ASSUME NEW t \in TabStates, NEW r, NEW s, NEW d, Spoken(t, s, d), SaysLeft(t, r)
    PROVE  Spoken(r, s, d)
  <1>1. t.up \in Seq(Notes)
    BY DEF TabStates
  <1>2. Append(t.up, LeaveNote) # <<>> /\ Final(Append(t.up, LeaveNote)) = LeaveNote
    BY <1>1, Appending, NotesFacts
  <1> QED
    BY <1>2 DEF Spoken, SaysLeft, Says

LEMMA JoinedSpoken ==
    ASSUME NEW t \in TabStates, NEW r, NEW s, NEW d, Spoken(t, s, d), SaysJoined(t, r)
    PROVE  Spoken(r, s, d)
  <1>1. t.up \in Seq(Notes) /\ JoinNote(r.joined) \in Notes /\ r.joined # None
    BY NotesFacts, ChannelsAreNotNone DEF TabStates, SaysJoined
  <1> DEFINE note == JoinNote(r.joined)
             up == Append(t.up, note)
  <1>2. up # <<>> /\ Final(up) = note
    BY <1>1, Appending
  <1>3. r.online = t.online /\ r.up = IF t.online THEN up ELSE t.up
    BY DEF SaysJoined, Says
  <1> HIDE DEF up
  <1> QED
    BY <1>1, <1>2, <1>3 DEF Spoken

-----------------------------------------------------------------------------
(* What the parts of the hook say *)

LEMMA ClosedQuietly ==
    ASSUME NEW t \in TabStates, NEW j \in OrNone(Joins)
    PROVE  Quietly(t, Closed(t, j))
  <1> DEFINE r == Closed(t, j)
  <1>1. r \in TabStates /\ r = [t EXCEPT !.media = r.media]
    BY ClosedFacts
  <1> HIDE DEF r
  <1>2. Quietly(t, r)
    BY <1>1 DEF Quietly, TabStates
  <1> QED
    BY <1>2 DEF r

LEMMA SendSays ==
    ASSUME NEW t \in TabStates, NEW type, NEW c, [type |-> type, channel |-> c] \in Notes
    PROVE  /\ Says(t, Send(t, type, c), [type |-> type, channel |-> c])
           /\ Send(t, type, c).joined = t.joined /\ Send(t, type, c).mirror = t.mirror
           /\ Send(t, type, c).room = t.room
  <1> DEFINE r == Send(t, type, c)
             note == [type |-> type, channel |-> c]
  <1>1. r \in TabStates /\ r = [t EXCEPT !.up = r.up]
    BY SendFacts
  <1>2. r.up = IF t.online THEN Append(t.up, note) ELSE t.up
    BY DEF Send, TabStates
  <1> HIDE DEF r, note
  <1>3. /\ r.online = t.online /\ r.joined = t.joined /\ r.mirror = t.mirror
        /\ r.room = t.room
    BY <1>1 DEF TabStates
  <1> QED
    BY <1>1, <1>2, <1>3 DEF Says, r, note

LEMMA LeaveSays ==
    ASSUME NEW t \in TabStates
    PROVE  SaysLeft(t, LeaveVoice(t, FALSE))
  <1> DEFINE told == Send(t, "leave", None)
             closed == Closed(told, t.room)
             r == LeaveVoice(t, FALSE)
  <1>1. told \in TabStates /\ Says(t, told, LeaveNote) /\ told.room = t.room
    BY SendSays, NotesFacts DEF Says, LeaveNote
  <1>2. t.room \in OrNone(Joins)
    BY DEF TabStates
  <1> HIDE DEF told
  <1>3. Quietly(told, closed)
    BY <1>1, <1>2, ClosedQuietly
  <1>4. r = [closed EXCEPT
                !.owner = None, !.joining = FALSE, !.joined = None, !.mirror = None,
                !.room = None, !.raw = None, !.cached = None, !.capture = None,
                !.live = @ \ {t.raw, t.cached}]
    BY <1>1 DEF LeaveVoice, told
  <1>5. r \in TabStates
    BY LeaveFacts
  <1> HIDE DEF closed, r
  <1>6. r.joined = None /\ r.online = closed.online /\ r.up = closed.up
    BY <1>3, <1>4 DEF Quietly, TabStates
  <1>7. SaysLeft(t, r)
    BY <1>1, <1>3, <1>5, <1>6 DEF SaysLeft, Says, Quietly
  <1> QED
    BY <1>7 DEF r

LEMMA SettleSays ==
    ASSUME NEW j, NEW t, Settle(j, t)
    PROVE  tab' = t
  BY DEF Settle

LEMMA ReleaseQuietly ==
    ASSUME NEW j, NEW t \in TabStates, Release(j, t)
    PROVE  Quietly(t, tab')
  <1> DEFINE closed == Closed(t, t.room)
  <1>1. Quietly(t, closed) /\ tab' = [closed EXCEPT !.room = None]
    BY ClosedQuietly DEF Release, TabStates
  <1> HIDE DEF closed
  <1>2. Quietly(closed, tab')
    BY <1>1 DEF Quietly, TabStates, OrNone
  <1> QED
    BY <1>1, <1>2, QuietThenQuiet

LEMMA JoinVoiceQuietly ==
    ASSUME NEW j \in Joins, NEW c, NEW t \in TabStates, NEW stream \in BOOLEAN,
           JoinVoice(j, c, t, stream)
    PROVE  Quietly(t, tab')
  <1>1. CASE ~t.online
    <2>1. tab' = [t EXCEPT !.live = @ \ {j}]
      BY <1>1 DEF JoinVoice, Settle
    <2> QED
      BY <2>1 DEF Quietly, TabStates
  <1>2. CASE t.online /\ (t.joined = c \/ t.joining)
    <2>1. tab' = t
      BY <1>2 DEF JoinVoice, Settle
    <2> QED
      BY <2>1 DEF Quietly
  <1>3. CASE t.online /\ ~(t.joined = c \/ t.joining)
    <2> DEFINE k == IF stream THEN t.capture ELSE j
    <2>1. k \in OrNone(Joins)
      BY DEF TabStates, OrNone
    <2>2. tab' = [t EXCEPT !.joining = TRUE, !.owner = j, !.reconciled = FALSE, !.capture = k]
      BY <1>3 DEF JoinVoice
    <2> HIDE DEF k
    <2> QED
      BY <2>1, <2>2 DEF Quietly, TabStates, OrNone
  <1> QED
    BY <1>1, <1>2, <1>3

LEMMA CancelQuietly ==
    ASSUME tab \in TabStates, NEW j \in Joins, Cancel(j)
    PROVE  Quietly(tab, tab')
  <1> DEFINE t == [tab EXCEPT !.live = @ \ {j}]
  <1>1. Quietly(tab, t) /\ t \in TabStates
    BY DEF Quietly, TabStates
  <1>2. \/ tab' = Closed(t, j)
        \/ Settle(j, t)
        \/ Release(j, t)
    BY DEF Cancel
  <1> HIDE DEF t
  <1>3. Quietly(t, tab')
    <2>1. CASE tab' = Closed(t, j)
      BY <1>1, <2>1, ClosedQuietly DEF OrNone
    <2>2. CASE Settle(j, t)
      BY <1>1, <2>2, SettleSays, Quietest
    <2>3. CASE Release(j, t)
      BY <1>1, <2>3, ReleaseQuietly
    <2> QED
      BY <1>2, <2>1, <2>2, <2>3
  <1> QED
    BY <1>1, <1>3, QuietThenQuiet

LEMMA ContinueQuietly ==
    ASSUME tab \in TabStates, NEW j \in Joins, NEW t, NEW step, Quietly(tab, t),
           Continue(j, t, step)
    PROVE  Quietly(tab, tab')
  BY CancelQuietly DEF Continue

\* One step of a join under way says nothing, or that the call has begun.
LEMMA StepSays ==
    ASSUME IInv, NEW j \in Joins, JoinStep(j)
    PROVE  Quietly(tab, tab') \/ SaysJoined(tab, tab')
  <1>1. tab \in TabStates /\ Quietly(tab, tab)
    BY Quietest DEF IInv, TypeOK
  <1>2. CASE CaptureMicrophone(j)
    <2> DEFINE t == [tab EXCEPT !.cached = j, !.live = @ \cup {j}]
    <2>1. Quietly(tab, t)
      BY <1>1 DEF Quietly, TabStates, OrNone
    <2>2. Continue(j, t, "prepare") \/ Release(j, tab)
      BY <1>2 DEF CaptureMicrophone
    <2> HIDE DEF t
    <2> QED
      BY <1>1, <2>1, <2>2, ContinueQuietly, ReleaseQuietly
  <1>3. CASE Prepare(j)
    <2> DEFINE t == [tab EXCEPT !.raw = j]
    <2>1. Quietly(tab, t)
      BY <1>1 DEF Quietly, TabStates, OrNone
    <2>2. Continue(j, t, "build")
      BY <1>3 DEF Prepare
    <2> HIDE DEF t
    <2> QED
      BY <1>1, <2>1, <2>2, ContinueQuietly
  <1>4. CASE BuildTrack(j)
    BY <1>1, <1>4, ContinueQuietly DEF BuildTrack
  <1>5. ASSUME NEW state \in RoomStates PROVE Quietly(tab, [tab EXCEPT !.media[j] = state])
    <2>1. [tab.media EXCEPT ![j] = state] \in [Joins -> RoomStates]
      BY <1>1 DEF TabStates
    <2> DEFINE m == [tab.media EXCEPT ![j] = state]
    <2>2. [tab EXCEPT !.media[j] = state] = [tab EXCEPT !.media = m]
      BY <1>1 DEF TabStates
    <2> HIDE DEF m
    <2> QED
      BY <1>1, <2>1, <2>2 DEF Quietly, TabStates, m
  <1>6. CASE TokenReceived(j)
    <2> DEFINE fresh == [tab EXCEPT !.media[j] = "new"]
               t == [tab EXCEPT !.room = j, !.media[j] = "new"]
    <2>1. t = [fresh EXCEPT !.room = j]
      BY <1>1 DEF TabStates
    <2>2. Quietly(tab, fresh)
      BY <1>5 DEF RoomStates
    <2>3. Continue(j, t, "turn")
      BY <1>6 DEF TokenReceived
    <2> HIDE DEF fresh, t
    <2>4. Quietly(fresh, t)
      BY <2>1, <2>2 DEF Quietly, TabStates, OrNone
    <2> QED
      BY <1>1, <2>2, <2>3, <2>4, ContinueQuietly, QuietThenQuiet
  <1>7. CASE TurnReceived(j)
    BY <1>1, <1>5, <1>7, ContinueQuietly DEF TurnReceived, RoomStates
  <1>8. CASE RoomConnected(j)
    BY <1>1, <1>5, <1>8, ContinueQuietly DEF RoomConnected, RoomStates
  <1>9. CASE Published(j)
    <2> DEFINE c == join[j].channel
               told == Send(tab, "join", c)
               r == Registered(tab, j, c)
    <2>1. c \in Channels
      BY <1>9, TheJoin DEF Published, Idle, Working
    <2>2. Says(tab, told, JoinNote(c))
      BY <1>1, <2>1, SendSays, NotesFacts DEF JoinNote
    <2>3. r = [told EXCEPT !.joined = c, !.mirror = c, !.joining = FALSE]
      BY DEF Registered
    <2>4. Cancel(j) \/ Release(j, tab) \/ Settle(j, r)
      BY <1>9 DEF Published
    <2> HIDE DEF told, c, r
    <2>5. SaysJoined(tab, r)
      <3>1. /\ r \in TabStates /\ r.joined = c /\ r.online = told.online /\ r.up = told.up
        BY <2>1, <2>2, <2>3 DEF Says, TabStates, OrNone
      <3> QED
        BY <2>1, <2>2, <3>1 DEF SaysJoined, Says
    <2> QED
      BY <1>1, <2>4, <2>5, CancelQuietly, ReleaseQuietly, SettleSays
  <1>10. CASE JoinFails(j)
    BY <1>1, <1>10, ReleaseQuietly DEF JoinFails
  <1>11. CASE CancelClosed(j)
    BY <1>1, <1>11, ReleaseQuietly, SettleSays DEF CancelClosed
  <1>12. CASE Released(j)
    <2> DEFINE still == IF tab.owner = j THEN FALSE ELSE tab.joining
    <2>1. still \in BOOLEAN
      BY <1>1 DEF TabStates
    <2>2. tab' = [tab EXCEPT !.live = @ \ {tab.raw, tab.cached, j},
                             !.raw = None, !.cached = None, !.capture = None,
                             !.joining = still]
      BY <1>12, SettleSays DEF Released
    <2> HIDE DEF still
    <2> QED
      BY <1>1, <2>1, <2>2 DEF Quietly, TabStates, OrNone
  <1> QED
    BY <1>2, <1>3, <1>4, <1>6, <1>7, <1>8, <1>9, <1>10, <1>11, <1>12 DEF JoinStep

\* What the user, the device and LiveKit make the tab say, on its own device.
LEMMA UserSays ==
    ASSUME IInv, ~rival, mounted',
           User \/ \E j \in Joins : JoinStep(j) \/ \E duplicate \in BOOLEAN :
                                                      RoomDisconnected(j, duplicate)
    PROVE  /\ Quietly(tab, tab') \/ SaysLeft(tab, tab') \/ SaysJoined(tab, tab')
           /\ UNCHANGED <<mounted, down, session, rival>>
  <1>1. tab \in TabStates /\ Quietly(tab, tab)
    BY Quietest DEF IInv, TypeOK
  <1>2. ASSUME NEW j \in Joins, NEW c \in Channels, AskMicrophone(j, c)
        PROVE  Quietly(tab, tab') /\ UNCHANGED <<mounted, down, session, rival>>
    BY <1>1, <1>2 DEF AskMicrophone
  <1>3. ASSUME NEW j \in Joins, NEW c \in Channels, MoveVoice(j, c)
        PROVE  SaysLeft(tab, tab') /\ UNCHANGED <<mounted, down, session, rival>>
    <2> DEFINE stream == tab.raw \in tab.live
               left == LeaveVoice(tab, FALSE)
               t == IF stream THEN [left EXCEPT !.live = @ \cup {j}] ELSE left
    <2>1. SaysLeft(tab, left) /\ left \in TabStates
      BY <1>1, LeaveSays DEF SaysLeft, Says
    <2>2. JoinVoice(j, c, t, stream)
      BY <1>3 DEF MoveVoice
    <2>3. stream \in BOOLEAN
      OBVIOUS
    <2>4. UNCHANGED <<mounted, down, session, rival>>
      BY <1>3 DEF MoveVoice
    <2> HIDE DEF left, stream
    <2>5. Quietly(left, t)
      <3>1. CASE stream
        BY <2>1, <3>1 DEF Quietly, TabStates
      <3>2. CASE ~stream
        BY <2>1, <3>2, Quietest
      <3> QED
        BY <2>3, <3>1, <3>2
    <2> HIDE DEF t
    <2>6. Quietly(t, tab')
      BY <2>2, <2>3, <2>5, JoinVoiceQuietly DEF Quietly
    <2> QED
      BY <2>1, <2>4, <2>5, <2>6, LeftThenQuiet
  <1>4. ASSUME NEW j \in Joins, MicrophoneGranted(j)
        PROVE  Quietly(tab, tab') /\ UNCHANGED <<mounted, down, session, rival>>
    <2> DEFINE t == [tab EXCEPT !.live = @ \cup {j}]
    <2>1. Quietly(tab, t) /\ t \in TabStates
      BY <1>1 DEF Quietly, TabStates
    <2>2. /\ JoinVoice(j, join[j].channel, t, TRUE) \/ Settle(j, tab)
          /\ UNCHANGED <<mounted, down, session, rival>>
      BY <1>4 DEF MicrophoneGranted
    <2> HIDE DEF t
    <2> QED
      BY <1>1, <2>1, <2>2, JoinVoiceQuietly, QuietThenQuiet, SettleSays
  <1>5. ASSUME NEW j \in Joins, MicrophoneDenied(j)
        PROVE  Quietly(tab, tab') /\ UNCHANGED <<mounted, down, session, rival>>
    BY <1>1, <1>5, SettleSays DEF MicrophoneDenied
  <1>6. CASE Leave
    BY <1>1, <1>6, LeaveSays DEF Leave
  <1>7. CASE Navigate
    BY <1>1, <1>7 DEF Navigate
  <1>8. CASE Unmount
    BY <1>8 DEF Unmount
  <1>9. CASE Unplug
    <2>1. Quietly(tab, tab')
      BY <1>1, <1>9 DEF Unplug, Quietly, TabStates
    <2> QED
      BY <1>9, <2>1 DEF Unplug
  <1>10. ASSUME NEW j \in Joins, JoinStep(j)
         PROVE  /\ Quietly(tab, tab') \/ SaysJoined(tab, tab')
                /\ UNCHANGED <<mounted, down, session, rival>>
    <2>1. UNCHANGED <<mounted, down, session, rival>>
      BY <1>10 DEF JoinStep, CaptureMicrophone, Prepare, BuildTrack, TokenReceived,
         TurnReceived, RoomConnected, Published, JoinFails, CancelClosed, Released
    <2> QED
      BY <1>10, <2>1, StepSays
  <1>11. ASSUME NEW j \in Joins, NEW duplicate \in BOOLEAN, RoomDisconnected(j, duplicate)
         PROVE  /\ Quietly(tab, tab') \/ SaysLeft(tab, tab')
                /\ UNCHANGED <<mounted, down, session, rival>>
    <2> DEFINE lost == Closed(tab, j)
               left == LeaveVoice(lost, FALSE)
    <2>1. Quietly(tab, lost) /\ lost \in TabStates
      BY <1>1, ClosedQuietly DEF OrNone, Quietly
    <2>2. /\ tab' = FinalDisconnect(lost, lost.room = j)
          /\ UNCHANGED <<mounted, down, session, rival>>
      BY <1>11 DEF RoomDisconnected
    <2> HIDE DEF lost
    <2>3. tab' = lost \/ tab' = [left EXCEPT !.reconciled = TRUE]
      BY <2>2 DEF FinalDisconnect
    <2>4. SaysLeft(lost, left)
      BY <2>1, LeaveSays
    <2> HIDE DEF left
    <2>5. Quietly(left, [left EXCEPT !.reconciled = TRUE])
      BY <2>4 DEF SaysLeft, Says, Quietly, TabStates
    <2> QED
      BY <2>1, <2>2, <2>3, <2>4, <2>5, QuietThenLeft, LeftThenQuiet
  <1> QED
    BY <1>2, <1>3, <1>4, <1>5, <1>6, <1>7, <1>8, <1>9, <1>10, <1>11 DEF User

LEMMA SpentElsewhere ==
    ASSUME spent \in [Spendable -> Nat], NEW what \in Spendable, Spend(what),
           spent'["elsewhere"] = 0
    PROVE  spent["elsewhere"] = 0 /\ what # "elsewhere"
  <1>1. "elsewhere" \in Spendable
    BY DEF Spendable
  <1>2. spent' = [spent EXCEPT ![what] = spent[what] + 1] /\ spent[what] \in Nat
    BY DEF Spend
  <1>3. CASE what = "elsewhere"
    BY <1>1, <1>2, <1>3
  <1>4. CASE what # "elsewhere"
    BY <1>1, <1>2, <1>4
  <1> QED
    BY <1>3, <1>4

\* The budget only grows, and pays for every other device.
LEMMA NobodyElse ==
    ASSUME TypeOK, [Next]_vars, spent'["elsewhere"] = 0
    PROVE  spent["elsewhere"] = 0 /\ ~ElsewhereConnects
  <1>1. spent \in [Spendable -> Nat]
    BY DEF TypeOK
  <1>2. spent' = spent \/ \E what \in Spendable : Spend(what)
    BY DEF Next, User, AskMicrophone, MoveVoice, MicrophoneGranted, MicrophoneDenied, Leave,
       Navigate, Unmount, Unplug, JoinStep, CaptureMicrophone, Prepare, BuildTrack,
       TokenReceived, TurnReceived, RoomConnected, Published, JoinFails, CancelClosed,
       Released, RoomDisconnected, Events, MirrorDeparture, FollowMirror, VoiceSessionMoved,
       SocketDrops, SocketReopens, Server, ServerReceives, ServerForgets, ServerRevokes,
       ElsewhereConnects, ElsewhereFails, ElsewhereLeaves, ElsewhereJoins, Spendable, vars
  <1>3. spent["elsewhere"] = 0
    BY <1>1, <1>2, SpentElsewhere
  <1>4. ~ElsewhereConnects
    BY <1>1, SpentElsewhere DEF ElsewhereConnects, Spendable
  <1> QED
    BY <1>3, <1>4

LEMMA TellsLeft ==
    ASSUME down \in Seq({"left", "moved"}), \A i \in DOMAIN down : down[i] = "left",
           Tell("left")
    PROVE  /\ \A i \in DOMAIN down' : down'[i] = "left"
           /\ tab.online \/ down # <<>> => down' # <<>>
  <1>1. CASE tab.online
    <2>1. down' = Append(down, "left")
      BY <1>1 DEF Tell
    <2> QED
      BY <2>1
  <1>2. CASE ~tab.online
    BY <1>2 DEF Tell
  <1> QED
    BY <1>1, <1>2

SIndHyp == IInv /\ IInv' /\ Alone /\ (mounted => Spoken(tab, session, down))

LEMMA EventsSpoken ==
    ASSUME SIndHyp, Events
    PROVE  Alone' /\ (mounted' => Spoken(tab, session, down)')
  <1>1. /\ tab \in TabStates /\ down \in Seq({"left", "moved"}) /\ tab.up \in Seq(Notes)
        /\ session \in Sessions
    BY DEF SIndHyp, IInv, TypeOK, TabStates
  <1>2. ~rival /\ session.at # "elsewhere" /\ \A i \in DOMAIN down : down[i] = "left"
    BY DEF SIndHyp, Alone
  <1>3. CASE MirrorDeparture
    <2>1. /\ tab' = [tab EXCEPT !.mirror = None] /\ down' = Tail(down) /\ down # <<>>
          /\ UNCHANGED <<mounted, session, rival>>
      BY <1>3 DEF MirrorDeparture
    <2>2. \A i \in DOMAIN down' : down'[i] = "left"
      BY <1>1, <1>2, <2>1
    <2>3. /\ tab'.mirror = None /\ tab'.joined = tab.joined /\ tab'.up = tab.up
          /\ tab'.online = tab.online
      BY <1>1, <2>1 DEF TabStates
    <2>4. Alone'
      BY <1>2, <2>1, <2>2 DEF Alone
    <2>5. mounted' => Spoken(tab', session', down')
      BY <2>1, <2>3 DEF SIndHyp, Spoken
    <2> QED
      BY <2>4, <2>5
  <1>4. CASE FollowMirror
    <2>1. tab' = LeaveVoice(tab, FALSE) /\ UNCHANGED <<mounted, session, rival, down>> /\ mounted
      BY <1>4 DEF FollowMirror
    <2>2. SaysLeft(tab, tab')
      BY <1>1, <2>1, LeaveSays
    <2>3. Spoken(tab', session, down)
      BY <1>1, <2>1, <2>2, LeftSpoken DEF SIndHyp
    <2> QED
      BY <1>2, <2>1, <2>3 DEF Alone
  <1>5. CASE VoiceSessionMoved
    <2>1. down # <<>> /\ Head(down) = "moved"
      BY <1>5 DEF VoiceSessionMoved
    <2>2. 1 \in DOMAIN down /\ down[1] = Head(down)
      BY <1>1, <2>1
    <2> QED
      BY <1>2, <2>1, <2>2
  <1>6. CASE SocketDrops
    <2>1. /\ tab' = [tab EXCEPT !.online = FALSE, !.up = <<>>] /\ down' = <<>>
          /\ session' = [session EXCEPT !.at = IF @ = "here" THEN "old" ELSE @]
          /\ UNCHANGED <<mounted, rival>>
      BY <1>6 DEF SocketDrops
    <2>2. tab'.online = FALSE /\ tab'.up = <<>>
      BY <1>1, <2>1 DEF TabStates
    <2>3. session'.at # "here" /\ session'.at # "elsewhere"
      BY <1>1, <1>2, <2>1 DEF Sessions
    <2> QED
      BY <1>2, <2>1, <2>2, <2>3 DEF Alone, Spoken
  <1>7. CASE SocketReopens
    <2> DEFINE open == [tab EXCEPT !.online = TRUE]
               told == Send(open, "join", tab.joined)
    <2>1. /\ ~tab.online /\ UNCHANGED <<mounted, session, rival, down>>
          /\ tab' = IF mounted /\ tab.joined # None /\ tab.room # None
                       /\ tab.media[tab.room] # "gone" THEN told ELSE open
      BY <1>7 DEF SocketReopens
    <2>2. /\ open \in TabStates /\ open.joined = tab.joined /\ open.online
          /\ open.up = tab.up /\ open.mirror = tab.mirror
      BY <1>1 DEF TabStates
    <2> HIDE DEF open
    <2>3. ASSUME mounted PROVE Spoken(tab', session, down)
      <3>1. tab.up = <<>> /\ session.at # "here"
        BY <2>1, <2>3 DEF SIndHyp, Spoken
      <3>2. CASE tab.joined = None
        <4>1. tab' = open
          BY <2>1, <3>2
        <4> QED
          BY <2>2, <3>1, <3>2, <4>1 DEF Spoken
      <3>3. CASE tab.joined # None
        <4>1. tab.room # None /\ tab.media[tab.room] = "connected"
          BY <3>3 DEF SIndHyp, IInv, Free, Asking, Working, Empty, InCall, Setup
        <4>2. tab' = told
          BY <2>1, <2>3, <3>3, <4>1
        <4>3. tab.joined \in Channels
          BY <1>1, <3>3 DEF TabStates, OrNone
        <4>4. Says(open, told, JoinNote(tab.joined)) /\ told.joined = tab.joined
          BY <2>2, <4>3, SendSays, NotesFacts DEF JoinNote
        <4> HIDE DEF told
        <4>5. told.online /\ told.up = Append(tab.up, JoinNote(tab.joined))
          BY <2>2, <4>4 DEF Says
        <4>6. told.up # <<>> /\ Final(told.up) = JoinNote(tab.joined)
          BY <1>1, <4>3, <4>5, Appending, NotesFacts
        <4> QED
          BY <3>3, <4>2, <4>4, <4>5, <4>6 DEF Spoken
      <3> QED
        BY <3>2, <3>3
    <2> QED
      BY <1>2, <2>1, <2>3 DEF Alone
  <1> QED
    BY <1>3, <1>4, <1>5, <1>6, <1>7 DEF Events

LEMMA ServerSpoken ==
    ASSUME SIndHyp, Server, ~ElsewhereConnects
    PROVE  Alone' /\ (mounted' => Spoken(tab, session, down)')
  <1>1. /\ tab \in TabStates /\ down \in Seq({"left", "moved"}) /\ tab.up \in Seq(Notes)
        /\ session \in Sessions
    BY DEF SIndHyp, IInv, TypeOK, TabStates
  <1>2. ~rival /\ session.at # "elsewhere" /\ \A i \in DOMAIN down : down[i] = "left"
    BY DEF SIndHyp, Alone
  <1>3. CASE ServerReceives
    <2>1. /\ tab' = [tab EXCEPT !.up = Tail(@)] /\ tab.up # <<>>
          /\ UNCHANGED <<mounted, rival>>
      BY <1>3 DEF ServerReceives
    <2>2. /\ Tail(tab.up) \in Seq(Notes)
          /\ Tail(tab.up) # <<>> => Final(Tail(tab.up)) = Final(tab.up)
          /\ Tail(tab.up) = <<>> => Final(tab.up) = Head(tab.up)
      BY <1>1, <2>1, Receiving
    <2>3. /\ tab'.mirror = tab.mirror /\ tab'.joined = tab.joined /\ tab'.up = Tail(tab.up)
          /\ tab'.online = tab.online
      BY <1>1, <2>1, <2>2 DEF TabStates
    <2>4. CASE Head(tab.up).type = "join"
      <3>1. session' = [at |-> "here", channel |-> Head(tab.up).channel] /\ down' = down
        BY <1>3, <2>4 DEF ServerReceives
      <3>2. Alone'
        BY <1>2, <2>1, <3>1 DEF Alone
      <3>3. ASSUME mounted PROVE Spoken(tab', session', down')
        <4>1. /\ tab.online
              /\ Final(tab.up) = IF tab.joined = None THEN LeaveNote ELSE JoinNote(tab.joined)
          BY <2>1, <3>3 DEF SIndHyp, Spoken
        <4>2. Tail(tab.up) = <<>> => /\ tab.joined # None
                                    /\ session' = [at |-> "here", channel |-> tab.joined]
          BY <2>2, <2>4, <3>1, <4>1 DEF LeaveNote, JoinNote
        <4> QED
          BY <2>2, <2>3, <4>1, <4>2 DEF Spoken
      <3> QED
        BY <2>1, <3>2, <3>3
    <2>5. CASE Head(tab.up).type # "join"
      <3>1. IF session.at = "here" THEN session' = NoSession /\ Tell("left")
                                   ELSE UNCHANGED <<session, down>>
        BY <1>3, <2>5 DEF ServerReceives
      <3>2. session'.at # "here" /\ session'.at # "elsewhere"
        BY <1>2, <3>1 DEF NoSession
      <3>3. Alone'
        BY <1>1, <1>2, <2>1, <3>1, <3>2, TellsLeft DEF Alone
      <3>4. ASSUME mounted PROVE Spoken(tab', session', down')
        <4>1. /\ tab.online
              /\ Final(tab.up) = IF tab.joined = None THEN LeaveNote ELSE JoinNote(tab.joined)
          BY <2>1, <3>4 DEF SIndHyp, Spoken
        <4>2. Tail(tab.up) = <<>> => tab.joined = None
          BY <2>2, <2>5, <4>1 DEF LeaveNote, JoinNote
        <4> QED
          BY <2>2, <2>3, <3>2, <4>1, <4>2 DEF Spoken
      <3> QED
        BY <2>1, <3>3, <3>4
    <2> QED
      BY <2>4, <2>5
  <1>4. CASE ServerForgets \/ ServerRevokes
    <2>1. /\ session' = NoSession /\ Tell("left") /\ UNCHANGED <<tab, mounted, rival>>
          /\ ServerForgets => session.at = "old"
      BY <1>4 DEF ServerForgets, ServerRevokes
    <2>2. /\ \A i \in DOMAIN down' : down'[i] = "left"
          /\ tab.online \/ down # <<>> => down' # <<>>
      BY <1>1, <1>2, <2>1, TellsLeft
    <2>3. session'.at = "none"
      BY <2>1 DEF NoSession
    <2>4. Alone'
      BY <1>2, <2>1, <2>2, <2>3 DEF Alone
    <2>5. mounted' => Spoken(tab', session', down')
      BY <2>1, <2>2, <2>3 DEF SIndHyp, Spoken
    <2> QED
      BY <2>4, <2>5
  <1>5. ~ElsewhereFails /\ ~ElsewhereLeaves /\ \A c \in Channels : ~ElsewhereJoins(c)
    BY <1>2 DEF ElsewhereFails, ElsewhereLeaves, ElsewhereJoins
  <1> QED
    BY <1>3, <1>4, <1>5 DEF Server

LEMMA SInvInit == Init => SInv
  BY DEF Init, SInv, Alone, Spoken, NoSession

LEMMA SInvStep == IInv /\ IInv' /\ SInv /\ [Next]_vars => SInv'
  <1> SUFFICES ASSUME IInv, IInv', SInv, [Next]_vars, spent'["elsewhere"] = 0
               PROVE  Alone' /\ (mounted' => Spoken(tab, session, down)')
    BY DEF SInv
  <1>1. TypeOK /\ tab \in TabStates
    BY DEF IInv, TypeOK
  <1>2. spent["elsewhere"] = 0 /\ ~ElsewhereConnects
    BY <1>1, NobodyElse
  <1>3. SIndHyp
    BY <1>2 DEF SInv, SIndHyp
  <1>4. CASE User \/ \E j \in Joins : JoinStep(j) \/ \E duplicate \in BOOLEAN :
                                                       RoomDisconnected(j, duplicate)
    <2>1. UNCHANGED <<down, session, rival>>
      BY <1>4 DEF User, AskMicrophone, MoveVoice, MicrophoneGranted, MicrophoneDenied, Leave,
         Navigate, Unmount, Unplug, JoinStep, CaptureMicrophone, Prepare, BuildTrack,
         TokenReceived, TurnReceived, RoomConnected, Published, JoinFails, CancelClosed,
         Released, RoomDisconnected
    <2>2. Alone'
      BY <1>3, <2>1 DEF SIndHyp, Alone
    <2>3. ASSUME mounted' PROVE Spoken(tab', session, down)
      <3>1. /\ Quietly(tab, tab') \/ SaysLeft(tab, tab') \/ SaysJoined(tab, tab')
            /\ mounted
        BY <1>3, <1>4, <2>3, UserSays DEF SIndHyp, Alone
      <3>2. Spoken(tab, session, down)
        BY <1>3, <3>1 DEF SIndHyp
      <3> QED
        BY <1>1, <3>1, <3>2, QuietlySpoken, LeftSpoken, JoinedSpoken
    <2> QED
      BY <2>1, <2>2, <2>3
  <1>5. CASE UNCHANGED vars
    BY <1>3, <1>5 DEF vars, SIndHyp, Alone, Spoken
  <1> QED
    BY <1>2, <1>3, <1>4, <1>5, EventsSpoken, ServerSpoken DEF Next

\* While no other device of the account joins voice: once everything that was
\* sent has arrived and the hook has followed the store, the server lists the
\* account in the channel the tab is in, and in none of this tab's when it is
\* in none, however its socket dropped, came back or was told of a departure.
THEOREM ServerAlwaysAgrees == Spec => []ServerAgrees
  <1>1. SInv => ServerAgrees
    BY DEF SInv, Spoken, ServerAgrees, Quiet
  <1> QED
    BY <1>1, SInvInit, SInvStep, Invariant, PTL DEF Spec
=============================================================================
