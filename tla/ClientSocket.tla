---------------------------- MODULE ClientSocket ----------------------------
(***************************************************************************)
(* The web client's connection to the server: the socket store             *)
(* (stores/socket.ts), the effects that connect and disconnect it          *)
(* (pages/AppShell.tsx, App.tsx, components/UserBar.tsx) and, outside the  *)
(* client, the server that accepts a credential, drops connections and     *)
(* closes those whose session is no longer valid.                          *)
(***************************************************************************)
EXTENDS Integers, FiniteSets

CONSTANTS
    MaxIds,       \* connection numbers, a bound of the model
    MaxAttempts,  \* RECONNECT_MAX_ATTEMPTS
    None,
    Limit         \* budgets of what the user, the network and others do

Ids == 1..MaxIds
Spendable ==
    {"signin", "logout", "password", "revoke", "drop", "fail", "fault", "resume"}

ASSUME IdsAssumption == MaxIds \in Nat
ASSUME AttemptsAssumption == MaxAttempts \in Nat \ {0}
ASSUME NoneAssumption == None \notin Int
ASSUME LimitAssumption == Limit \in [Spendable -> Nat]

VARIABLES
    store,     \* the socket store
    ws,        \* per connection number: its WebSocket and that socket's credential
    session,   \* the signed-in session: the auth store and what the server accepts
    spent

vars == <<store, ws, session, spent>>

\* A credential is the number of the account's token version.
Credentials == Nat
OrNone(S) == {None} \cup S
Stores ==
    [ref        : OrNone(Ids),    \* socket
     id         : 0..MaxIds,      \* connectionId
     connected  : BOOLEAN,        \* isConnected
     token      : OrNone(Credentials),
     should     : BOOLEAN,        \* shouldReconnect
     foreground : BOOLEAN,        \* foregroundReconnectAllowed
     attempt    : 0..MaxAttempts, \* reconnectAttempt
     timer      : OrNone(Ids),    \* the connection whose loss set reconnectTimer
     was        : BOOLEAN]        \* wasConnectedBefore
SocketStates ==
    {"none", "connecting", "open", "closing", "closed",
     "expired"}                   \* closed with AUTH_EXPIRED_CLOSE_CODE
Sessions ==
    [desktop : BOOLEAN,           \* the token is passed; on the web it is a cookie
     user    : BOOLEAN,           \* signed in
     leaving : BOOLEAN,           \* handleLogout ran, the user is still set
     setting : OrNone(Credentials), \* what the answer to a first password carries
     token   : Credentials,       \* the token or cookie the client holds
     valid   : Credentials]       \* the version the server accepts

Spend(what) == /\ spent[what] < Limit[what]
               /\ spent' = [spent EXCEPT ![what] = @ + 1]

Live(k) == ws[k].state \in {"connecting", "open"}
Busy(s) == s.ref # None /\ Live(s.ref)

-----------------------------------------------------------------------------
(* The operations of the store *)

\* Slip: the store does not note that the user's return may reconnect.
ConnectUnmarked(s, token, cookie) ==
    IF Busy(s)
    THEN /\ store' = [s EXCEPT !.timer = None, !.token = token, !.should = TRUE]
         /\ UNCHANGED ws
    ELSE /\ s.id < MaxIds
         /\ store' = [s EXCEPT !.timer = None, !.token = token, !.should = TRUE,
                               !.id = @ + 1, !.ref = s.id + 1]
         /\ ws' = [ws EXCEPT ![s.id + 1] =
                      [state |-> "connecting",
                       token |-> IF token = None THEN cookie ELSE token]]

\* connect: a live socket is kept, whatever credential it was opened with.
Connect(s, token, cookie) ==
    IF Busy(s)
    THEN /\ store' = [s EXCEPT !.timer = None, !.token = token, !.should = TRUE]
         /\ UNCHANGED ws
    ELSE /\ s.id < MaxIds
         /\ store' = [s EXCEPT !.timer = None, !.token = token, !.should = TRUE,
                               !.foreground = TRUE, !.id = @ + 1, !.ref = s.id + 1]
         /\ ws' = [ws EXCEPT ![s.id + 1] =
                      [state |-> "connecting",
                       token |-> IF token = None THEN cookie ELSE token]]

\* Slip: a pending timer and its intent survive.
DisconnectKeepsTimer ==
    /\ store.id < MaxIds
    /\ store' = [store EXCEPT !.token = None, !.foreground = FALSE, !.attempt = 0,
                              !.ref = None, !.connected = FALSE]
    /\ ws' = IF Busy(store) THEN [ws EXCEPT ![store.ref].state = "closing"] ELSE ws

\* disconnect: the socket's own close event comes later and finds another number.
Disconnect ==
    /\ store.id < MaxIds
    /\ store' = [store EXCEPT !.token = None, !.should = FALSE, !.foreground = FALSE,
                              !.attempt = 0, !.timer = None, !.id = @ + 1,
                              !.ref = None, !.connected = FALSE]
    /\ ws' = IF Busy(store) THEN [ws EXCEPT ![store.ref].state = "closing"] ELSE ws

\* Slip: one attempt more than there are delays.
AfterLossOnceMore(s, k) ==
    LET lost == [s EXCEPT !.ref = None, !.connected = FALSE]
    IN  IF s.should /\ s.attempt <= MaxAttempts
        THEN [lost EXCEPT !.attempt = @ + 1, !.timer = k]
        ELSE IF s.should THEN [lost EXCEPT !.should = FALSE, !.attempt = 0, !.timer = None]
        ELSE lost

\* onclose for any other reason than an expired session.
AfterLoss(s, k) ==
    LET lost == [s EXCEPT !.ref = None, !.connected = FALSE]
    IN  IF s.should /\ s.attempt < MaxAttempts
        THEN [lost EXCEPT !.attempt = @ + 1, !.timer = k]
        ELSE IF s.should THEN [lost EXCEPT !.should = FALSE, !.attempt = 0, !.timer = None]
        ELSE lost

\* onclose with AUTH_EXPIRED_CLOSE_CODE.
AfterExpiry(s) ==
    [s EXCEPT !.ref = None, !.connected = FALSE, !.should = FALSE, !.foreground = FALSE,
              !.attempt = 0, !.timer = None]

\* Slip: the close event of an earlier socket is not told apart.
ClosedUnguarded(k, end, after) ==
    /\ ws' = [ws EXCEPT ![k].state = end]
    /\ store' = after

\* A socket's close event; only the current connection's counts.
Closed(k, end, after) ==
    /\ ws' = [ws EXCEPT ![k].state = end]
    /\ store' = IF store.id = k THEN after ELSE store

-----------------------------------------------------------------------------
(* The session, as far as it drives the socket *)

\* A login; AppShell's effect connects.
SignIn ==
    /\ ~session.user
    /\ Spend("signin")
    /\ session' = [session EXCEPT !.user = TRUE, !.token = session.valid]
    /\ Connect(store, IF session.desktop THEN session.valid ELSE None, session.valid)

\* handleLogout, or the end of submitDeleteAccount.
LogOut ==
    /\ session.user /\ ~session.leaving
    /\ Spend("logout")
    /\ session' = [session EXCEPT !.leaving = TRUE]
    /\ Disconnect

\* The auth store lets the user go; App's effect disconnects again.
SignedOut ==
    /\ session.user /\ session.leaving
    /\ session' = [session EXCEPT !.user = FALSE, !.leaving = FALSE]
    /\ Disconnect
    /\ UNCHANGED spent

\* A request is answered 401: clearExpiredSession.
ExpiredSession ==
    /\ session.user /\ session.token # session.valid
    /\ session' = [session EXCEPT !.user = FALSE, !.leaving = FALSE]
    /\ Disconnect
    /\ UNCHANGED spent

\* Another device resets the password: every session ends.
RevokedElsewhere ==
    /\ session.user
    /\ Spend("revoke")
    /\ session' = [session EXCEPT !.valid = @ + 1]
    /\ UNCHANGED <<store, ws>>

\* The server sets an account's first password, which ends the token version.
PasswordIsSet ==
    /\ session.user /\ ~session.leaving /\ session.token = session.valid
    /\ session.setting = None
    /\ Spend("password")
    /\ session' = [session EXCEPT !.valid = @ + 1, !.setting = session.valid + 1]
    /\ UNCHANGED <<store, ws>>

\* The answer carries a token of that version; setAuth and setUser sign the
\* user in, also one who is signed out by then.  AppShell's effect connects when
\* the user or, on the desktop, the token is another.  A web logout may clear
\* the new cookie too.
PasswordAnswered ==
    /\ session.setting # None /\ ~session.leaving
    /\ \E kept \in {session.setting} \cup
                   IF session.user \/ session.desktop THEN {} ELSE {session.token} :
        /\ session' = [session EXCEPT !.setting = None, !.user = TRUE, !.token = kept]
        /\ IF session.desktop \/ ~session.user
           THEN Connect(store, IF session.desktop THEN kept ELSE None, kept)
           ELSE UNCHANGED <<store, ws>>
    /\ UNCHANGED spent

-----------------------------------------------------------------------------
(* The network and the server *)

\* Slip: the reconnection is not told apart from the first connection.
WsOpensAnew(k) ==
    /\ ws[k].state = "connecting" /\ ws[k].token = session.valid
    /\ ws' = [ws EXCEPT ![k].state = "open"]
    /\ store' = IF store.id = k
                THEN [store EXCEPT !.connected = TRUE, !.ref = k, !.attempt = 0,
                                   !.timer = None]
                ELSE store
    /\ UNCHANGED <<session, spent>>

\* The server accepts the credential; onopen.
WsOpens(k) ==
    /\ ws[k].state = "connecting" /\ ws[k].token = session.valid
    /\ ws' = [ws EXCEPT ![k].state = "open"]
    /\ store' = IF store.id = k
                THEN [store EXCEPT !.connected = TRUE, !.ref = k, !.attempt = 0,
                                   !.timer = None, !.was = TRUE]
                ELSE store
    /\ UNCHANGED <<session, spent>>

\* The upgrade is refused, or the network fails.
WsFails(k) ==
    /\ ws[k].state = "connecting"
    /\ IF ws[k].token = session.valid THEN Spend("fail") ELSE UNCHANGED spent
    /\ Closed(k, "closed", AfterLoss(store, k))
    /\ UNCHANGED session

\* The connection is lost; a server that finds the credential ended when the
\* client sends something breaks it off without a code.
WsDrops(k) ==
    /\ ws[k].state = "open"
    /\ IF ws[k].token = session.valid THEN Spend("drop") ELSE UNCHANGED spent
    /\ Closed(k, "closed", AfterLoss(store, k))
    /\ UNCHANGED session

\* is_ws_session_still_valid, every 30 seconds: it says no of a credential that
\* ended, and of any when Redis or the database fails.
WsExpires(k) ==
    /\ ws[k].state = "open"
    /\ IF ws[k].token = session.valid THEN Spend("fault") ELSE UNCHANGED spent
    /\ Closed(k, "expired", AfterExpiry(store))
    /\ UNCHANGED session

\* The close event of a socket that disconnect closed.
WsCloses(k) ==
    /\ ws[k].state = "closing"
    /\ Closed(k, "closed", AfterLoss(store, k))
    /\ UNCHANGED <<session, spent>>

\* The timer's callback.
TimerFires ==
    /\ store.timer # None
    /\ IF store.should /\ store.id = store.timer /\ ~Busy(store)
       THEN Connect(store, store.token, session.token) /\ UNCHANGED session
       ELSE /\ store' = [store EXCEPT !.timer = None]
            /\ UNCHANGED <<ws, session>>
    /\ UNCHANGED spent

\* resumeConnection: the page is shown again, the network is back, or a join
\* finds the socket closed.
ResumeConnection ==
    /\ session.user
    /\ store.foreground /\ ~Busy(store)
    /\ Spend("resume")
    /\ UNCHANGED session
    /\ Connect(store, store.token, session.token)

-----------------------------------------------------------------------------

Init ==
    /\ store = [ref |-> None, id |-> 0, connected |-> FALSE, token |-> None,
                should |-> FALSE, foreground |-> FALSE, attempt |-> 0, timer |-> None,
                was |-> FALSE]
    /\ ws = [k \in Ids |-> [state |-> "none", token |-> 0]]
    /\ session \in [desktop : BOOLEAN, user : {FALSE}, leaving : {FALSE},
                    setting : {None}, token : {0}, valid : {0}]
    /\ spent = [what \in Spendable |-> 0]

WsAnswers(k) == WsOpens(k) \/ WsFails(k)

Next ==
    \/ SignIn \/ LogOut \/ SignedOut \/ ExpiredSession
    \/ RevokedElsewhere \/ PasswordIsSet \/ PasswordAnswered
    \/ \E k \in Ids : WsAnswers(k) \/ WsDrops(k) \/ WsExpires(k) \/ WsCloses(k)
    \/ TimerFires \/ ResumeConnection

Spec == Init /\ [][Next]_vars

\* Timers fire, and a connection is accepted or fails.
Fairness == WF_vars(TimerFires) /\ \A k \in Ids : WF_vars(WsAnswers(k))
FairSpec == Spec /\ Fairness

-----------------------------------------------------------------------------
(* Properties *)

\* The store is what its interface declares.
TypeOK ==
    /\ store \in Stores
    /\ ws \in [Ids -> [state : SocketStates, token : Credentials]]
    /\ session \in Sessions
    /\ spent \in [Spendable -> Nat]

\* There is never a second connection: a socket that can still bring events is
\* the one the store knows, under its current number.
OneConnection == \A k \in Ids : Live(k) => store.ref = k /\ store.id = k

\* Nobody's connection survives a logout, and no timer is left to make one.
SignedOutIsSilent ==
    ~session.user \/ session.leaving =>
        /\ \A k \in Ids : ~Live(k)
        /\ store.timer = None /\ ~store.should /\ ~store.foreground

\* A signed-in client without a connection has a retry set, or the user's
\* return makes one.
Retries(excused) ==
    session.user /\ ~session.leaving =>
        Busy(store) \/ store.timer # None \/ store.foreground \/ excused

\* The server closed the last connection as expired.
Expired == store.id # 0 /\ ws[store.id].state = "expired"

\* Only the server's word that the session expired ends the retries: no loss,
\* no exhausted retry, no late answer or close event, no logout before.
RetriesUnlessExpired == Retries(Expired)

\* A client whose session the server accepts reconnects.
ActiveSessionRetries == Retries(session.token # session.valid)

\* The store keeps the promise of ClientLink.
LinkState ==
    IF store.connected THEN "up"
    ELSE IF Busy(store) \/ store.timer # None THEN "trying"
    ELSE IF store.foreground THEN "resting"
    ELSE "off"
Link == INSTANCE ClientLink WITH link <- LinkState, was <- store.was
KeepsLink == Link!LinkSpec
=============================================================================
