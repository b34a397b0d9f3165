------------------------- MODULE ClientSocketProofs -------------------------
(***************************************************************************)
(* For any number of connections, attempts, sign-ins and failures: the     *)
(* socket store keeps one connection, none of a session that ended, a way  *)
(* back for every session the server did not call expired, and takes only  *)
(* the steps ClientLink allows.                                            *)
(***************************************************************************)
EXTENDS ClientSocket, TLAPS

-----------------------------------------------------------------------------
(* The inductive invariant *)

\* The live socket is the one the store holds, under its current number.
Sole ==
    /\ \A k \in Ids : Live(k) <=> store.ref = k
    /\ store.ref # None => store.ref = store.id

\* As long as the store holds a socket, a loss is answered by a retry.
Armed == store.ref # None => store.should /\ store.foreground

\* isConnected says that the socket is open, and then no attempt is counted.
Connected ==
    /\ store.connected <=> \E k \in Ids : ws[k].state = "open"
    /\ store.connected => store.attempt = 0

\* A socket that was asked to close has an old number.
Outdated == \A k \in Ids : ws[k].state = "closing" => k < store.id

Leaving == session.leaving => session.user

\* Without a way back the server has closed the last connection as expired.
ExpiredOrReturns ==
    session.user /\ ~session.leaving => store.foreground \/ Expired

IInv ==
    /\ TypeOK /\ Sole /\ Armed /\ Connected /\ Outdated
    /\ Leaving /\ ExpiredOrReturns /\ SignedOutIsSilent

\* The part of it that is about the store and its sockets alone.
Conn ==
    /\ store \in Stores
    /\ ws \in [Ids -> [state : SocketStates, token : Credentials]]
    /\ Sole /\ Armed /\ Connected /\ Outdated

LEMMA NumbersAreNotNone == \A k \in Ids : k # None /\ k \in Nat
  BY NoneAssumption, IdsAssumption DEF Ids

\* A store is busy exactly when it holds a socket.
LEMMA BusyHolds == Conn => (Busy(store) <=> store.ref # None)
  <1> SUFFICES ASSUME Conn PROVE Busy(store) <=> store.ref # None
    OBVIOUS
  <1>1. store.ref \in OrNone(Ids)
    BY DEF Conn, Stores
  <1> QED
    BY <1>1 DEF Conn, Sole, Busy, OrNone

-----------------------------------------------------------------------------
(* What the store's operations do to the invariant *)

\* connect: a held socket stays, or the next number gets the only live one.
LEMMA ConnectStep ==
    ASSUME Conn, NEW t \in OrNone(Credentials), NEW c \in Credentials,
           Connect(store, t, c)
    PROVE  /\ Conn'
           /\ store'.foreground /\ store'.should /\ store'.timer = None
           /\ store'.ref # None /\ store'.connected = store.connected
           /\ store'.was = store.was /\ store'.token = t
           /\ store'.id >= store.id
           /\ \A k \in Ids : \/ ws'[k].token = ws[k].token
                             \/ ws'[k].token = IF t = None THEN c ELSE t
  <1>1. CASE Busy(store)
    <2>1. /\ store' = [store EXCEPT !.timer = None, !.token = t, !.should = TRUE]
          /\ ws' = ws
      BY <1>1 DEF Connect
    <2>2. store.ref # None
      BY <1>1, BusyHolds
    <2>3. store' \in Stores
      BY <2>1 DEF Conn, Stores, OrNone
    <2>4. /\ store'.ref = store.ref /\ store'.id = store.id
          /\ store'.foreground = store.foreground /\ store'.attempt = store.attempt
          /\ store'.connected = store.connected /\ store'.was = store.was
          /\ store'.should /\ store'.timer = None /\ store'.token = t
      BY <2>1 DEF Conn, Stores
    <2>5. Conn'
      BY <2>1, <2>2, <2>3, <2>4 DEF Conn, Sole, Armed, Connected, Outdated, Live
    <2> QED
      BY <2>1, <2>2, <2>4, <2>5 DEF Conn, Armed, Stores, Ids
  <1>2. CASE ~Busy(store)
    <2> DEFINE n == store.id + 1
    <2>1. /\ store.id < MaxIds
          /\ store' = [store EXCEPT !.timer = None, !.token = t, !.should = TRUE,
                                    !.foreground = TRUE, !.id = n, !.ref = n]
          /\ ws' = [ws EXCEPT ![n] = [state |-> "connecting",
                                      token |-> IF t = None THEN c ELSE t]]
      BY <1>2 DEF Connect
    <2>2. store.ref = None
      BY <1>2, BusyHolds
    <2>3. n \in Ids /\ n \in 0..MaxIds /\ store.id \in Nat
      BY <2>1, IdsAssumption DEF Conn, Stores, Ids
    <2>4. store' \in Stores
      BY <2>1, <2>3 DEF Conn, Stores, OrNone
    <2>5. /\ store'.ref = n /\ store'.id = n /\ store'.foreground /\ store'.should
          /\ store'.timer = None /\ store'.connected = store.connected
          /\ store'.was = store.was /\ store'.token = t /\ store'.attempt = store.attempt
      BY <2>1 DEF Conn, Stores
    <2>6. (IF t = None THEN c ELSE t) \in Credentials
      BY DEF OrNone
    <2>7. ws' \in [Ids -> [state : SocketStates, token : Credentials]]
      BY <2>1, <2>3, <2>6 DEF Conn, SocketStates
    <2>8. /\ ws'[n].state = "connecting"
          /\ ws'[n].token = IF t = None THEN c ELSE t
          /\ \A k \in Ids \ {n} : ws'[k] = ws[k]
      BY <2>1, <2>3 DEF Conn
    <2>9. n # None
      BY <2>3, NumbersAreNotNone
    <2>10. \A k \in Ids : ~Live(k)
      BY <2>2, NumbersAreNotNone DEF Conn, Sole
    <2>11. Sole'
      BY <2>5, <2>8, <2>10, <2>3 DEF Sole, Live
    <2>12. ~store.connected /\ \A k \in Ids : ws'[k].state # "open"
      BY <2>8, <2>10 DEF Conn, Connected, Live
    <2>13. Outdated'
      BY <2>3, <2>5, <2>8, NumbersAreNotNone DEF Conn, Outdated
    <2> QED
      BY <2>3, <2>4, <2>5, <2>7, <2>8, <2>9, <2>11, <2>12, <2>13
         DEF Conn, Armed, Connected
  <1> QED
    BY <1>1, <1>2

\* disconnect: no socket is live, and no intent is left.
LEMMA DisconnectStep ==
    ASSUME Conn, Disconnect
    PROVE  /\ Conn'
           /\ \A k \in Ids : ~Live(k)'
           /\ store'.timer = None /\ ~store'.should /\ ~store'.foreground
           /\ store'.ref = None /\ ~store'.connected /\ store'.was = store.was
           /\ store'.token = None
           /\ \A k \in Ids : ws'[k].token = ws[k].token
  <1> DEFINE n == store.id + 1
  <1>1. /\ store.id < MaxIds
        /\ store' = [store EXCEPT !.token = None, !.should = FALSE, !.foreground = FALSE,
                                  !.attempt = 0, !.timer = None, !.id = n,
                                  !.ref = None, !.connected = FALSE]
        /\ ws' = IF Busy(store) THEN [ws EXCEPT ![store.ref].state = "closing"] ELSE ws
    BY DEF Disconnect
  <1>2. n \in 0..MaxIds /\ store.id \in Nat
    BY <1>1, IdsAssumption DEF Conn, Stores
  <1> DEFINE silent ==
               [store EXCEPT !.token = None, !.should = FALSE, !.foreground = FALSE,
                             !.attempt = 0, !.timer = None]
  <1>a. 0 \in 0..MaxAttempts
    BY AttemptsAssumption
  <1>b. silent \in Stores
    BY <1>a DEF Conn, Stores, OrNone
  <1>c. store' = [silent EXCEPT !.id = n, !.ref = None, !.connected = FALSE]
    BY <1>1
  <1> HIDE DEF silent, n
  <1>3. store' \in Stores
    BY <1>b, <1>c, <1>2 DEF Stores, OrNone
  <1> USE DEF n
  <1>4. /\ store'.ref = None /\ store'.id = n /\ ~store'.foreground /\ ~store'.should
        /\ store'.timer = None /\ ~store'.connected /\ store'.was = store.was
        /\ store'.token = None
    BY <1>1 DEF Conn, Stores
  <1>5. store.ref \in OrNone(Ids) /\ (Busy(store) <=> store.ref # None)
    BY BusyHolds DEF Conn, Stores
  <1>6. ws' \in [Ids -> [state : SocketStates, token : Credentials]]
    BY <1>1, <1>5 DEF Conn, SocketStates, OrNone
  <1>7. \A k \in Ids : ws'[k].token = ws[k].token
    BY <1>1, <1>5 DEF Conn, OrNone
  <1>8. \A k \in Ids : ws'[k].state = IF store.ref = k THEN "closing" ELSE ws[k].state
    BY <1>1, <1>5, NumbersAreNotNone DEF Conn, OrNone
  <1>9. \A k \in Ids : ~Live(k)'
    BY <1>8 DEF Conn, Sole, Live
  <1>10. Sole'
    BY <1>4, <1>9, NumbersAreNotNone DEF Sole
  <1>11. Connected'
    BY <1>4, <1>9 DEF Connected, Live
  <1>12. Outdated'
    BY <1>2, <1>4, <1>8, NumbersAreNotNone DEF Conn, Sole, Outdated
  <1> QED
    BY <1>3, <1>4, <1>6, <1>7, <1>9, <1>10, <1>11, <1>12 DEF Conn, Armed

\* A close event is the held socket's, or that of a socket asked to close,
\* whose number is old and changes nothing.
LEMMA LossStep ==
    ASSUME Conn, NEW k \in Ids, Live(k) \/ ws[k].state = "closing",
           Closed(k, "closed", AfterLoss(store, k))
    PROVE  /\ Conn'
           /\ store'.foreground = store.foreground /\ store'.was = store.was
           /\ store'.token = store.token /\ store'.id = store.id
           /\ \A j \in Ids : ws'[j].token = ws[j].token
           /\ \A j \in Ids : Live(j)' => Live(j)
           /\ Live(k) => /\ ~store'.connected /\ store'.ref = None
                         /\ store'.timer # None \/ ~store.connected
           /\ ~Live(k) => store' = store
  <1>1. /\ ws' = [ws EXCEPT ![k].state = "closed"]
        /\ store' = IF store.id = k THEN AfterLoss(store, k) ELSE store
    BY DEF Closed
  <1>2. /\ ws' \in [Ids -> [state : SocketStates, token : Credentials]]
        /\ \A j \in Ids : ws'[j].token = ws[j].token
        /\ \A j \in Ids : ws'[j].state = IF j = k THEN "closed" ELSE ws[j].state
    BY <1>1 DEF Conn, SocketStates
  <1>3. CASE Live(k)
    <2>1. store.ref = k /\ store.id = k /\ store.should /\ store.foreground
      BY <1>3, NumbersAreNotNone DEF Conn, Sole, Armed
    <2>2. store.attempt \in 0..MaxAttempts /\ store \in Stores
      BY DEF Conn, Stores
    <2>3. \/ /\ store.attempt < MaxAttempts
             /\ store' = [store EXCEPT !.ref = None, !.connected = FALSE,
                                       !.attempt = store.attempt + 1, !.timer = k]
          \/ /\ ~(store.attempt < MaxAttempts)
             /\ store' = [store EXCEPT !.ref = None, !.connected = FALSE,
                                       !.should = FALSE, !.attempt = 0, !.timer = None]
      BY <1>1, <2>1, <2>2 DEF AfterLoss, Stores
    <2>4. /\ store' \in Stores
          /\ store'.ref = None /\ ~store'.connected /\ store'.foreground
          /\ store'.was = store.was /\ store'.token = store.token /\ store'.id = k
          /\ store'.timer # None \/ ~(store.attempt < MaxAttempts)
      <3>1. CASE store.attempt < MaxAttempts
        <4>1. store.attempt + 1 \in 0..MaxAttempts
          BY <2>2, <3>1, AttemptsAssumption
        <4>2. k \in OrNone(Ids) /\ None \in OrNone(Ids)
          BY DEF OrNone
        <4> HIDE DEF OrNone
        <4> QED
          BY <2>1, <2>2, <2>3, <3>1, <4>1, <4>2, NumbersAreNotNone DEF Stores
      <3>2. CASE ~(store.attempt < MaxAttempts)
        <4>1. 0 \in 0..MaxAttempts /\ None \in OrNone(Ids)
          BY AttemptsAssumption DEF OrNone
        <4> QED
          BY <2>1, <2>2, <2>3, <3>2, <4>1 DEF Stores
      <3> QED
        BY <3>1, <3>2
    <2>5. \A j \in Ids : ~Live(j)'
      BY <1>2, <2>1, NumbersAreNotNone DEF Conn, Sole, Live
    <2>6. Sole' /\ Armed' /\ Connected'
      BY <2>4, <2>5, NumbersAreNotNone DEF Sole, Armed, Connected, Live
    <2>7. Outdated'
      BY <1>2, <2>1, <2>4 DEF Conn, Outdated
    <2>8. store'.timer # None \/ ~store.connected
      BY <2>4, AttemptsAssumption DEF Conn, Connected
    <2> QED
      BY <1>2, <1>3, <2>1, <2>4, <2>5, <2>6, <2>7, <2>8 DEF Conn
  <1>4. CASE ~Live(k)
    <2>1. k < store.id
      BY <1>4 DEF Conn, Outdated
    <2>2. store' = store
      BY <1>1, <2>1, NumbersAreNotNone
    <2>3. \A j \in Ids : Live(j)' <=> Live(j)
      BY <1>2, <1>4 DEF Live
    <2>4. \A j \in Ids : ws'[j].state = "open" <=> ws[j].state = "open"
      BY <1>2, <1>4 DEF Live
    <2>5. Sole' /\ Armed' /\ Connected' /\ Outdated'
      BY <1>2, <2>2, <2>3, <2>4 DEF Conn, Sole, Armed, Connected, Outdated
    <2> QED
      BY <1>2, <1>4, <2>2, <2>3, <2>5 DEF Conn
  <1> QED
    BY <1>3, <1>4

\* The server closes a socket as expired.
LEMMA ExpiryStep ==
    ASSUME Conn, NEW k \in Ids, ws[k].state = "open", Closed(k, "expired", AfterExpiry(store))
    PROVE  /\ Conn'
           /\ ~store'.connected /\ store'.ref = None /\ store'.was = store.was
           /\ store'.token = store.token /\ store'.id = k
           /\ store'.timer = None /\ ~store'.foreground
           /\ \A j \in Ids : ws'[j].token = ws[j].token
  <1>1. store.ref = k /\ store.id = k
    BY NumbersAreNotNone DEF Conn, Sole, Live
  <1>2. /\ ws' = [ws EXCEPT ![k].state = "expired"]
        /\ store' = [store EXCEPT !.ref = None, !.connected = FALSE, !.should = FALSE,
                                  !.foreground = FALSE, !.attempt = 0, !.timer = None]
    BY <1>1 DEF Closed, AfterExpiry
  <1>3. /\ ws' \in [Ids -> [state : SocketStates, token : Credentials]]
        /\ \A j \in Ids : ws'[j].token = ws[j].token
        /\ \A j \in Ids : ws'[j].state = IF j = k THEN "expired" ELSE ws[j].state
    BY <1>2 DEF Conn, SocketStates
  <1>4. 0 \in 0..MaxAttempts
    BY AttemptsAssumption
  <1>5. /\ store' \in Stores
        /\ store'.ref = None /\ ~store'.connected /\ ~store'.foreground
        /\ store'.timer = None /\ ~store'.should /\ store'.was = store.was
        /\ store'.token = store.token /\ store'.id = k
    BY <1>1, <1>2, <1>4 DEF Conn, Stores, OrNone
  <1>6. \A j \in Ids : ~Live(j)'
    BY <1>1, <1>3, NumbersAreNotNone DEF Conn, Sole, Live
  <1>7. Sole' /\ Armed' /\ Connected'
    BY <1>5, <1>6, NumbersAreNotNone DEF Sole, Armed, Connected, Live
  <1>8. Outdated'
    BY <1>1, <1>3, <1>5 DEF Conn, Outdated
  <1> QED
    BY <1>3, <1>5, <1>7, <1>8 DEF Conn

\* onopen comes for the held socket only.
LEMMA OpenStep ==
    ASSUME Conn, NEW k \in Ids, WsOpens(k)
    PROVE  /\ Conn'
           /\ ~store.connected /\ store.ref # None
           /\ store'.connected /\ store'.was /\ store'.ref = store.ref
           /\ store'.foreground = store.foreground /\ store'.token = store.token
           /\ store'.id = store.id
           /\ \A j \in Ids : ws'[j].token = ws[j].token
           /\ \A j \in Ids : Live(j)' <=> Live(j)
  <1>1. ws[k].state = "connecting" /\ store.ref = k /\ store.id = k
    BY NumbersAreNotNone DEF WsOpens, Conn, Sole, Live
  <1>2. /\ ws' = [ws EXCEPT ![k].state = "open"]
        /\ store' = [store EXCEPT !.connected = TRUE, !.ref = k, !.attempt = 0,
                                  !.timer = None, !.was = TRUE]
    BY <1>1 DEF WsOpens
  <1>3. /\ ws' \in [Ids -> [state : SocketStates, token : Credentials]]
        /\ \A j \in Ids : ws'[j].token = ws[j].token
        /\ \A j \in Ids : ws'[j].state = IF j = k THEN "open" ELSE ws[j].state
    BY <1>2 DEF Conn, SocketStates
  <1>4. 0 \in 0..MaxAttempts
    BY AttemptsAssumption
  <1>5. /\ store' \in Stores
        /\ store'.ref = k /\ store'.connected /\ store'.foreground = store.foreground
        /\ store'.should = store.should /\ store'.was /\ store'.attempt = 0
        /\ store'.token = store.token /\ store'.id = k
    BY <1>1, <1>2, <1>4 DEF Conn, Stores, OrNone
  <1>6. \A j \in Ids : Live(j)' <=> Live(j)
    BY <1>1, <1>3 DEF Live
  <1>7. \A j \in Ids : ws[j].state # "open"
    BY <1>1 DEF Conn, Sole, Live
  <1>8. Sole' /\ Armed' /\ Connected'
    BY <1>1, <1>3, <1>5, <1>6 DEF Conn, Sole, Armed, Connected
  <1>9. Outdated'
    BY <1>1, <1>3, <1>5 DEF Conn, Outdated
  <1> QED
    BY <1>1, <1>3, <1>5, <1>6, <1>7, <1>8, <1>9, NumbersAreNotNone DEF Conn, Connected

-----------------------------------------------------------------------------
(* The invariant is inductive *)

Spending == [Spendable -> Nat]

LEMMA SpendType ==
    ASSUME spent \in Spending, NEW what \in Spendable, Spend(what)
    PROVE  spent' \in Spending
  BY DEF Spend, Spending

Parts ==
    /\ Conn /\ session \in Sessions /\ spent \in Spending
    /\ Leaving /\ ExpiredOrReturns /\ SignedOutIsSilent

LEMMA IInvParts == (IInv <=> Parts) /\ (IInv' <=> Parts')
  BY DEF IInv, Parts, Conn, TypeOK, Spending

\* A signed-in session that connects has a way back.
LEMMA ConnectKeeps ==
    ASSUME IInv, NEW t \in OrNone(Credentials), NEW c \in Credentials,
           Connect(store, t, c), session' \in Sessions,
           session'.user, ~session'.leaving, spent' \in Spending
    PROVE  IInv'
  <1>1. Conn
    BY IInvParts DEF Parts
  <1>2. Conn' /\ store'.foreground
    BY <1>1, ConnectStep
  <1>4. Leaving' /\ ExpiredOrReturns' /\ SignedOutIsSilent'
    BY <1>2 DEF Leaving, ExpiredOrReturns, SignedOutIsSilent
  <1> QED
    BY <1>2, <1>4, IInvParts DEF Parts

\* A session that ends disconnects, and what is left is silent.
LEMMA DisconnectKeeps ==
    ASSUME IInv, Disconnect, session' \in Sessions, session'.leaving => session'.user,
           ~session'.user \/ session'.leaving, spent' \in Spending
    PROVE  IInv'
  <1>1. Conn
    BY IInvParts DEF Parts
  <1>2. /\ Conn'
        /\ \A k \in Ids : ~Live(k)'
        /\ store'.timer = None /\ ~store'.should /\ ~store'.foreground
    BY <1>1, DisconnectStep
  <1>4. Leaving' /\ ExpiredOrReturns' /\ SignedOutIsSilent'
    BY <1>2 DEF Leaving, ExpiredOrReturns, SignedOutIsSilent
  <1> QED
    BY <1>2, <1>4, IInvParts DEF Parts

\* The session alone changes, and nobody signs in or out.
LEMMA SessionKeeps ==
    ASSUME IInv, UNCHANGED <<store, ws>>, session' \in Sessions,
           session'.user = session.user,
           session'.leaving = session.leaving, spent' \in Spending
    PROVE  IInv'
  <1>1. /\ Conn /\ Leaving /\ ExpiredOrReturns /\ SignedOutIsSilent
        /\ session \in Sessions
    BY IInvParts DEF Parts
  <1>2. Conn'
    BY <1>1 DEF Conn, Sole, Armed, Connected, Outdated, Live
  <1>3. Leaving' /\ ExpiredOrReturns' /\ SignedOutIsSilent'
    BY <1>1 DEF Leaving, ExpiredOrReturns, Expired, SignedOutIsSilent, Live
  <1> QED
    BY <1>2, <1>3, IInvParts DEF Parts

LEMMA LossKeeps ==
    ASSUME IInv, NEW k \in Ids, Live(k) \/ ws[k].state = "closing",
           Closed(k, "closed", AfterLoss(store, k)), UNCHANGED session, spent' \in Spending
    PROVE  IInv'
  <1>1. /\ Conn /\ Leaving /\ ExpiredOrReturns /\ SignedOutIsSilent
        /\ session \in Sessions
    BY IInvParts DEF Parts
  <1>2. /\ Conn'
        /\ store'.foreground = store.foreground
        /\ store'.id = store.id
        /\ \A j \in Ids : Live(j)' => Live(j)
        /\ ~Live(k) => store' = store
    BY <1>1, LossStep
  <1>a. \A j \in Ids : ws[j].state = "expired" => ws'[j].state = "expired"
    BY <1>1 DEF Closed, Live, Conn
  <1>3. Leaving'
    BY <1>1, <1>2 DEF Leaving
  <1>4. store.id # 0 => store.id \in Ids
    BY <1>1, IdsAssumption DEF Conn, Stores, Ids
  <1>5. ExpiredOrReturns'
    BY <1>1, <1>2, <1>a, <1>4 DEF ExpiredOrReturns, Expired
  <1>6. SignedOutIsSilent'
    BY <1>1, <1>2 DEF SignedOutIsSilent
  <1> QED
    BY <1>1, <1>2, <1>3, <1>5, <1>6, IInvParts DEF Parts

LEMMA ExpiryKeeps == ASSUME IInv, NEW k \in Ids, WsExpires(k) PROVE IInv'
  <1>1. /\ Conn /\ Leaving /\ SignedOutIsSilent
        /\ session \in Sessions /\ spent \in Spending
    BY IInvParts DEF Parts
  <1>2. /\ ws[k].state = "open"
        /\ Closed(k, "expired", AfterExpiry(store)) /\ session' = session
        /\ spent' \in Spending
    BY <1>1, SpendType DEF WsExpires, Spendable
  <1>3. Conn' /\ store'.id = k
    BY <1>1, <1>2, ExpiryStep
  <1>a. ws'[k].state = "expired"
    BY <1>1, <1>2 DEF Closed, Conn
  <1>4. Leaving'
    BY <1>1, <1>2 DEF Leaving
  <1>5. ExpiredOrReturns'
    BY <1>3, <1>a, IdsAssumption DEF ExpiredOrReturns, Expired, Ids
  <1>6. Live(k)
    BY <1>2 DEF Live
  <1>7. SignedOutIsSilent'
    BY <1>1, <1>2, <1>6 DEF SignedOutIsSilent
  <1> QED
    BY <1>1, <1>2, <1>3, <1>4, <1>5, <1>7, IInvParts DEF Parts

LEMMA OpenKeeps == ASSUME IInv, NEW k \in Ids, WsOpens(k) PROVE IInv'
  <1>1. /\ Conn /\ Leaving /\ ExpiredOrReturns /\ SignedOutIsSilent
        /\ session \in Sessions /\ spent \in Spending
    BY IInvParts DEF Parts
  <1>2. session' = session /\ spent' = spent /\ Live(k)
    BY DEF WsOpens, Live
  <1>3. /\ Conn'
        /\ store'.foreground = store.foreground /\ store'.id = store.id
        /\ \A j \in Ids : Live(j)' <=> Live(j)
    BY <1>1, OpenStep
  <1>a. \A j \in Ids : ws[j].state = "expired" => ws'[j].state = "expired"
    BY <1>1 DEF WsOpens, Conn
  <1>4. Leaving'
    BY <1>1, <1>2 DEF Leaving
  <1>5. store.id # 0 => store.id \in Ids
    BY <1>1, IdsAssumption DEF Conn, Stores, Ids
  <1>6. ExpiredOrReturns' /\ SignedOutIsSilent'
    BY <1>1, <1>2, <1>3, <1>a, <1>5 DEF ExpiredOrReturns, Expired, SignedOutIsSilent
  <1> QED
    BY <1>1, <1>2, <1>3, <1>4, <1>6, IInvParts DEF Parts

\* A timer that finds its intent gone, or another connection, does nothing.
LEMMA IdleTimerStep ==
    ASSUME Conn, store' = [store EXCEPT !.timer = None], ws' = ws
    PROVE  /\ Conn'
           /\ store'.ref = store.ref /\ store'.id = store.id /\ store'.timer = None
           /\ store'.foreground = store.foreground /\ store'.should = store.should
           /\ store'.connected = store.connected /\ store'.was = store.was
           /\ store'.token = store.token /\ store'.attempt = store.attempt
  <1>1. /\ store' \in Stores
        /\ store'.ref = store.ref /\ store'.id = store.id /\ store'.timer = None
        /\ store'.foreground = store.foreground /\ store'.should = store.should
        /\ store'.connected = store.connected /\ store'.was = store.was
        /\ store'.token = store.token /\ store'.attempt = store.attempt
    BY DEF Conn, Stores, OrNone
  <1> QED
    BY <1>1 DEF Conn, Sole, Armed, Connected, Outdated, Live

LEMMA TimerKeeps == ASSUME IInv, TimerFires PROVE IInv'
  <1>1. /\ Conn /\ Leaving /\ ExpiredOrReturns /\ SignedOutIsSilent
        /\ session \in Sessions /\ spent \in Spending
    BY IInvParts DEF Parts
  <1>2. session' = session /\ spent' = spent /\ store.timer # None
    BY DEF TimerFires
  <1>3. CASE Connect(store, store.token, session.token)
    <2>1. store.token \in OrNone(Credentials) /\ session.token \in Credentials
      BY <1>1 DEF Conn, Stores, Sessions
    <2>2. session.user /\ ~session.leaving
      BY <1>1, <1>2 DEF SignedOutIsSilent
    <2> QED
      BY <1>1, <1>2, <1>3, <2>1, <2>2, ConnectKeeps
  <1>4. CASE store' = [store EXCEPT !.timer = None] /\ ws' = ws
    <2>1. /\ Conn' /\ store'.id = store.id /\ store'.timer = None
          /\ store'.foreground = store.foreground /\ store'.should = store.should
          /\ store'.token = store.token
      BY <1>1, <1>4, IdleTimerStep
    <2>2. Leaving' /\ ExpiredOrReturns'
      BY <1>1, <1>2, <1>4, <2>1 DEF Leaving, ExpiredOrReturns, Expired
    <2>3. SignedOutIsSilent'
      BY <1>1, <1>2, <1>4, <2>1 DEF SignedOutIsSilent, Live
    <2> QED
      BY <1>1, <1>2, <2>1, <2>2, <2>3, IInvParts DEF Parts
  <1> QED
    BY <1>3, <1>4 DEF TimerFires

LEMMA SessionType ==
    ASSUME session \in Sessions
    PROVE  /\ session.valid \in Nat /\ session.token \in Nat
           /\ session.valid + 1 \in Nat /\ session.valid \in Credentials
           /\ session.valid \in OrNone(Credentials) /\ None \in OrNone(Credentials)
           /\ session.token \in Credentials
  BY DEF Sessions, Credentials, OrNone

LEMMA IInvInit == Init => IInv
  <1> SUFFICES ASSUME Init PROVE IInv
    OBVIOUS
  <1>1. /\ store.ref = None /\ store.id = 0 /\ ~store.connected /\ store.token = None
        /\ ~store.should /\ ~store.foreground /\ store.timer = None
        /\ store \in Stores
    <2>1. 0 \in 0..MaxAttempts /\ 0 \in 0..MaxIds
      BY AttemptsAssumption, IdsAssumption
    <2> QED
      BY <2>1 DEF Init, Stores, OrNone
  <1>2. /\ \A k \in Ids : ws[k].state = "none"
        /\ ws \in [Ids -> [state : SocketStates, token : Credentials]]
    BY DEF Init, SocketStates, Credentials
  <1>3. /\ session \in Sessions /\ ~session.user /\ ~session.leaving
    <2>1. PICK d \in BOOLEAN, u \in {FALSE}, l \in {FALSE}, n \in {None},
               t \in {0}, v \in {0} :
            session = [desktop |-> d, user |-> u, leaving |-> l, setting |-> n,
                       token |-> t, valid |-> v]
      BY DEF Init
    <2>2. 0 \in Credentials /\ None \in OrNone(Credentials)
      BY DEF Credentials, OrNone
    <2> QED
      BY <2>1, <2>2 DEF Sessions
  <1>4. spent \in Spending
    BY DEF Init, Spending
  <1>5. Conn
    BY <1>1, <1>2, NumbersAreNotNone
       DEF Conn, Sole, Armed, Connected, Outdated, Live
  <1>6. Leaving /\ ExpiredOrReturns /\ SignedOutIsSilent
    BY <1>1, <1>2, <1>3 DEF Leaving, ExpiredOrReturns, SignedOutIsSilent, Live
  <1> QED
    BY <1>3, <1>4, <1>5, <1>6, IInvParts DEF Parts

\* Every action keeps the invariant.
LEMMA IInvStep == IInv /\ [Next]_vars => IInv'
  <1> SUFFICES ASSUME IInv, [Next]_vars PROVE IInv'
    OBVIOUS
  <1>0. /\ Conn /\ session \in Sessions /\ spent \in Spending
        /\ Leaving /\ SignedOutIsSilent
    BY IInvParts DEF Parts
  <1>1. CASE SignIn
    <2>1. /\ session' \in Sessions /\ session'.user /\ ~session'.leaving
      BY <1>0, <1>1, SessionType DEF SignIn, Sessions, Credentials, Leaving
    <2>2. spent' \in Spending
      BY <1>0, <1>1, SpendType DEF SignIn, Spendable
    <2>3. (IF session.desktop THEN session.valid ELSE None) \in OrNone(Credentials)
      BY <1>0, SessionType
    <2> QED
      BY <1>0, <1>1, <2>1, <2>2, <2>3, SessionType, ConnectKeeps DEF SignIn
  <1>2. CASE LogOut
    <2>1. session' \in Sessions /\ session'.leaving /\ session'.user
      BY <1>0, <1>2 DEF LogOut, Sessions
    <2>2. spent' \in Spending
      BY <1>0, <1>2, SpendType DEF LogOut, Spendable
    <2> QED
      BY <1>2, <2>1, <2>2, DisconnectKeeps DEF LogOut
  <1>3. CASE SignedOut \/ ExpiredSession
    <2>1. /\ session' \in Sessions /\ ~session'.leaving /\ ~session'.user
          /\ Disconnect /\ spent' = spent
      BY <1>0, <1>3 DEF SignedOut, ExpiredSession, Sessions
    <2> QED
      BY <1>0, <2>1, DisconnectKeeps
  <1>4. CASE RevokedElsewhere \/ PasswordIsSet
    <2>1. session.valid + 1 \in Credentials /\ session.valid + 1 \in OrNone(Credentials)
      BY <1>0, SessionType DEF Credentials, OrNone
    <2>2. /\ session' \in Sessions /\ session'.leaving = session.leaving
          /\ session'.user = session.user /\ UNCHANGED <<store, ws>>
      BY <1>0, <1>4, <2>1 DEF RevokedElsewhere, PasswordIsSet, Sessions
    <2>3. spent' \in Spending
      BY <1>0, <1>4, SpendType DEF RevokedElsewhere, PasswordIsSet, Spendable
    <2> QED
      BY <2>2, <2>3, SessionKeeps
  <1>5. CASE PasswordAnswered
    <2>1. PICK kept \in {session.setting} \cup
                        IF session.user \/ session.desktop THEN {} ELSE {session.token} :
            /\ session' = [session EXCEPT !.setting = None, !.user = TRUE, !.token = kept]
            /\ IF session.desktop \/ ~session.user
               THEN Connect(store, IF session.desktop THEN kept ELSE None, kept)
               ELSE UNCHANGED <<store, ws>>
      BY <1>5 DEF PasswordAnswered
    <2>2. ~session.leaving /\ session.setting # None /\ spent' = spent
      BY <1>5 DEF PasswordAnswered
    <2>3. kept \in Credentials
      BY <1>0, <2>1, <2>2, SessionType DEF Sessions, OrNone
    <2>4. /\ session' \in Sessions /\ session'.user
          /\ session'.leaving = session.leaving
      BY <1>0, <2>1, <2>3 DEF Sessions, OrNone
    <2>5. CASE session.desktop \/ ~session.user
      <3>1. (IF session.desktop THEN kept ELSE None) \in OrNone(Credentials)
        BY <2>3 DEF OrNone
      <3> QED
        BY <1>0, <2>1, <2>2, <2>3, <2>4, <2>5, <3>1, ConnectKeeps
    <2>6. CASE ~(session.desktop \/ ~session.user)
      BY <1>0, <2>1, <2>2, <2>4, <2>6, SessionKeeps DEF Sessions
    <2> QED
      BY <2>5, <2>6
  <1>6. ASSUME NEW k \in Ids, WsAnswers(k) \/ WsDrops(k) \/ WsExpires(k) \/ WsCloses(k)
        PROVE  IInv'
    <2>1. CASE WsOpens(k)
      BY <2>1, OpenKeeps
    <2>2. CASE WsFails(k)
      <3>1. spent' \in Spending
        BY <1>0, <2>2, SpendType DEF WsFails, Spendable
      <3> QED
        BY <2>2, <3>1, LossKeeps DEF WsFails, Live
    <2>3. CASE WsDrops(k)
      <3>1. spent' \in Spending
        BY <1>0, <2>3, SpendType DEF WsDrops, Spendable
      <3> QED
        BY <2>3, <3>1, LossKeeps DEF WsDrops, Live
    <2>4. CASE WsExpires(k)
      BY <2>4, ExpiryKeeps
    <2>5. CASE WsCloses(k)
      BY <1>0, <2>5, LossKeeps DEF WsCloses
    <2> QED
      BY <1>6, <2>1, <2>2, <2>3, <2>4, <2>5 DEF WsAnswers
  <1>7. CASE TimerFires
    BY <1>7, TimerKeeps
  <1>8. CASE ResumeConnection
    <2>1. spent' \in Spending
      BY <1>0, <1>8, SpendType DEF ResumeConnection, Spendable
    <2>2. session' = session /\ session.user /\ ~session.leaving
      BY <1>0, <1>8 DEF ResumeConnection, SignedOutIsSilent
    <2>3. store.token \in OrNone(Credentials)
      BY <1>0 DEF Conn, Stores
    <2> QED
      BY <1>0, <1>8, <2>1, <2>2, <2>3, SessionType, ConnectKeeps DEF ResumeConnection
  <1>9. CASE UNCHANGED vars
    BY <1>0, <1>9, SessionType, SessionKeeps DEF vars
  <1> QED
    BY <1>1, <1>2, <1>3, <1>4, <1>5, <1>6, <1>7, <1>8, <1>9 DEF Next

\* The inductive invariant holds of every behaviour.
THEOREM Invariant == Spec => []IInv
  BY IInvInit, IInvStep, PTL DEF Spec

-----------------------------------------------------------------------------
(* What follows *)

\* The store is what its interface declares: numbers and attempts stay within
\* their bounds.
THEOREM TypeCorrect == Spec => []TypeOK
  <1>1. IInv => TypeOK
    BY DEF IInv
  <1> QED
    BY <1>1, Invariant, PTL

\* No order of sign-ins, losses, timers and late close events makes a second
\* connection.
THEOREM AlwaysOneConnection == Spec => []OneConnection
  <1>1. IInv => OneConnection
    BY NumbersAreNotNone DEF IInv, Sole, OneConnection
  <1> QED
    BY <1>1, Invariant, PTL

\* After a logout or an expired session nothing is connected or about to be.
THEOREM SignedOutIsAlwaysSilent == Spec => []SignedOutIsSilent
  <1>1. IInv => SignedOutIsSilent
    BY DEF IInv
  <1> QED
    BY <1>1, Invariant, PTL

\* A signed-in client always has a way back to a connection, unless the
\* server closed the last one as expired.
THEOREM AlwaysRetriesUnlessExpired == Spec => []RetriesUnlessExpired
  <1>1. IInv => RetriesUnlessExpired
    BY DEF IInv, ExpiredOrReturns, RetriesUnlessExpired, Retries
  <1> QED
    BY <1>1, Invariant, PTL

-----------------------------------------------------------------------------
(* The store implements ClientLink: every step is one of the link's, or none *)

\* LinkState without the sockets.
LEMMA LinkOfStore ==
    /\ Conn => LinkState = IF store.connected THEN "up"
                           ELSE IF store.ref # None \/ store.timer # None THEN "trying"
                           ELSE IF store.foreground THEN "resting" ELSE "off"
    /\ Conn' => LinkState' = IF store'.connected THEN "up"
                             ELSE IF store'.ref # None \/ store'.timer # None THEN "trying"
                             ELSE IF store'.foreground THEN "resting" ELSE "off"
  <1>1. Conn => (Busy(store) <=> store.ref # None)
    BY BusyHolds
  <1>2. Conn' => (Busy(store)' <=> store'.ref # None)
    <2> SUFFICES ASSUME Conn' PROVE Busy(store)' <=> store'.ref # None
      OBVIOUS
    <2>1. store'.ref \in OrNone(Ids)
      BY DEF Conn, Stores
    <2> QED
      BY <2>1 DEF Conn, Sole, Busy, OrNone
  <1> QED
    BY <1>1, <1>2 DEF LinkState

\* An open socket is the connected store's; a store that is connected holds it.
LEMMA OpenIsUp ==
    ASSUME Conn
    PROVE  /\ \A k \in Ids : ws[k].state = "open" => store.connected
           /\ store.connected => store.ref # None
           /\ \A k \in Ids : ws[k].state = "connecting" => ~store.connected
           /\ \A k \in Ids : Live(k) => store.ref # None /\ store.foreground
  BY NumbersAreNotNone DEF Conn, Connected, Sole, Live, Armed

\* The steps of the link.
LinkStep ==
    \/ LinkState' = LinkState /\ store'.was = store.was
    \/ /\ LinkState \in {"off", "resting"} /\ LinkState' = "trying"
       /\ store'.was = store.was
    \/ LinkState = "trying" /\ LinkState' = "up" /\ store'.was = TRUE
    \/ LinkState = "up" /\ LinkState' = "trying" /\ store'.was = store.was
    \/ LinkState = "trying" /\ LinkState' = "resting" /\ store'.was = store.was
    \/ LinkState # "off" /\ LinkState' = "off" /\ store'.was = store.was

LEMMA LinkStepIs == LinkStep => [Link!LinkNext]_(Link!link_vars)
  BY DEF LinkStep, Link!LinkNext, Link!link_vars, Link!Wanted, Link!Opens, Link!Loses,
         Link!Exhausted, Link!Ends

LEMMA ConnectLinks ==
    ASSUME Conn, NEW t \in OrNone(Credentials), NEW c \in Credentials,
           Connect(store, t, c)
    PROVE  LinkStep
  <1>1. /\ Conn'
        /\ store'.ref # None /\ store'.connected = store.connected
        /\ store'.was = store.was
    BY ConnectStep
  <1> QED
    BY <1>1, LinkOfStore DEF LinkStep

LEMMA DisconnectLinks == ASSUME Conn, Disconnect PROVE LinkStep
  <1>1. /\ Conn'
        /\ store'.timer = None /\ ~store'.foreground /\ store'.ref = None
        /\ ~store'.connected /\ store'.was = store.was
    BY DisconnectStep
  <1> QED
    BY <1>1, LinkOfStore DEF LinkStep

LEMMA LossLinks ==
    ASSUME Conn, NEW k \in Ids, Live(k) \/ ws[k].state = "closing",
           Closed(k, "closed", AfterLoss(store, k))
    PROVE  LinkStep
  <1>1. /\ Conn'
        /\ store'.foreground = store.foreground /\ store'.was = store.was
        /\ Live(k) => /\ ~store'.connected /\ store'.ref = None
                      /\ store'.timer # None \/ ~store.connected
        /\ ~Live(k) => store' = store
    BY LossStep
  <1>2. CASE Live(k)
    BY <1>1, <1>2, OpenIsUp, LinkOfStore DEF LinkStep
  <1>3. CASE ~Live(k)
    BY <1>1, <1>3, LinkOfStore DEF LinkStep
  <1> QED
    BY <1>2, <1>3

LEMMA NextLinks == IInv /\ [Next]_vars => LinkStep
  <1> SUFFICES ASSUME IInv, [Next]_vars PROVE LinkStep
    OBVIOUS
  <1>0. Conn /\ session \in Sessions /\ store.token \in OrNone(Credentials)
    BY IInvParts DEF Parts, Conn, Stores
  <1>1. CASE SignIn
    BY <1>0, <1>1, SessionType, ConnectLinks DEF SignIn
  <1>2. CASE LogOut \/ SignedOut \/ ExpiredSession
    BY <1>0, <1>2, DisconnectLinks DEF LogOut, SignedOut, ExpiredSession
  <1>3. CASE UNCHANGED <<store, ws>>
    BY <1>3 DEF LinkStep, LinkState, Busy, Live
  <1>4. CASE PasswordAnswered
    <2>1. PICK kept \in {session.setting} \cup
                        IF session.user \/ session.desktop THEN {} ELSE {session.token} :
            IF session.desktop \/ ~session.user
            THEN Connect(store, IF session.desktop THEN kept ELSE None, kept)
            ELSE UNCHANGED <<store, ws>>
      BY <1>4 DEF PasswordAnswered
    <2>2. kept \in Credentials
      BY <1>0, <1>4, <2>1, SessionType DEF PasswordAnswered, Sessions, OrNone
    <2>3. (IF session.desktop THEN kept ELSE None) \in OrNone(Credentials)
      BY <2>2 DEF OrNone
    <2> QED
      BY <1>0, <1>3, <2>1, <2>2, <2>3, ConnectLinks
  <1>5. ASSUME NEW k \in Ids, WsAnswers(k) \/ WsDrops(k) \/ WsExpires(k) \/ WsCloses(k)
        PROVE  LinkStep
    <2>1. CASE WsOpens(k)
      <3>1. /\ Conn' /\ ~store.connected /\ store.ref # None
            /\ store'.connected /\ store'.was
        BY <1>0, <2>1, OpenStep
      <3>2. store'.was = TRUE
        BY <3>1 DEF Conn, Stores
      <3> QED
        BY <1>0, <3>1, <3>2, LinkOfStore DEF LinkStep
    <2>2. CASE WsFails(k) \/ WsDrops(k) \/ WsCloses(k)
      BY <1>0, <2>2, LossLinks DEF WsFails, WsDrops, WsCloses, Live
    <2>3. CASE WsExpires(k)
      <3>1. /\ Conn'
            /\ ~store'.connected /\ store'.ref = None /\ store'.was = store.was
            /\ store'.timer = None /\ ~store'.foreground
        BY <1>0, <2>3, ExpiryStep DEF WsExpires
      <3> QED
        BY <1>0, <3>1, LinkOfStore DEF LinkStep
    <2> QED
      BY <1>5, <2>1, <2>2, <2>3 DEF WsAnswers
  <1>6. CASE TimerFires
    <2>1. CASE Connect(store, store.token, session.token)
      BY <1>0, <2>1, SessionType, ConnectLinks
    <2>2. CASE store' = [store EXCEPT !.timer = None] /\ ws' = ws
      <3>1. /\ Conn'
            /\ store'.ref = store.ref /\ store'.timer = None
            /\ store'.foreground = store.foreground
            /\ store'.connected = store.connected /\ store'.was = store.was
        BY <1>0, <2>2, IdleTimerStep
      <3>2. store.timer # None
        BY <1>6 DEF TimerFires
      <3> QED
        BY <1>0, <3>1, <3>2, LinkOfStore DEF LinkStep
    <2> QED
      BY <1>6, <2>1, <2>2 DEF TimerFires
  <1>7. CASE ResumeConnection
    BY <1>0, <1>7, SessionType, ConnectLinks DEF ResumeConnection
  <1>8. CASE RevokedElsewhere \/ PasswordIsSet \/ UNCHANGED vars
    BY <1>3, <1>8 DEF RevokedElsewhere, PasswordIsSet, vars
  <1> QED
    BY <1>1, <1>2, <1>4, <1>5, <1>6, <1>7, <1>8 DEF Next

\* The store implements the safety part of ClientLink (KeepsLink without the
\* promise that a client does not try forever): it starts off, and connects,
\* loses, retries, rests and ends only as the link does.
THEOREM ImplementsLink ==
    Spec => Link!LinkInit /\ [][Link!LinkNext]_(Link!link_vars)
  <1>1. Init => Link!LinkInit
    <2> SUFFICES ASSUME Init PROVE Link!LinkInit
      OBVIOUS
    <2>1. Conn
      BY IInvInit, IInvParts DEF Parts
    <2>2. /\ ~store.connected /\ store.ref = None /\ store.timer = None
          /\ ~store.foreground /\ store.was = FALSE
      BY DEF Init
    <2> QED
      BY <2>1, <2>2, LinkOfStore DEF Link!LinkInit
  <1>2. IInv /\ [Next]_vars => [Link!LinkNext]_(Link!link_vars)
    BY NextLinks, LinkStepIs
  <1> QED
    BY <1>1, <1>2, Invariant, PTL DEF Spec

=============================================================================
