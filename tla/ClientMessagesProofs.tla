------------------------ MODULE ClientMessagesProofs ------------------------
(***************************************************************************)
(* For any number of channels, messages, requests and scenarios: however   *)
(* often the request of a message is lost, failed and retried, the server  *)
(* has the message once; and the lists of the browser, however the answers *)
(* and the events of several channels interleave, hold what they should:   *)
(* they have their types, one channel's messages are never put into        *)
(* another's list, what a list shows as being sent is being sent, and once *)
(* nothing is under way the list on the screen is up to date.              *)
(***************************************************************************)
EXTENDS ClientMessages, FiniteSetTheorems, SequenceTheorems, WellFoundedInduction, TLAPS

-----------------------------------------------------------------------------
(* The invariant: what the server and the requests to send are, and that   *)
(* two messages of one request are never both there.                       *)

Entry == [channel : OrNone(Channels), request : OrNone(Attempts), present : BOOLEAN]

Sent == [Attempts -> [channel : OrNone(Channels), text : OrNone(Texts), born : Nat]]

SendTypes ==
    /\ log \in Seq(Entry)
    /\ open \in OrNone(Channels)
    /\ attempt \in Sent
    /\ posts \subseteq Posts

Same(a, n) == log[n].request = a /\ log[n].present

NoneTwice ==
    \A a \in Attempts : \A m, n \in Rows : Same(a, m) /\ Same(a, n) => m = n

IInv == SendTypes /\ NoneTwice

-----------------------------------------------------------------------------
(* The log *)

LEMMA Unwritten ==
    ASSUME IInv, log' = log, open' \in OrNone(Channels), attempt' \in Sent, posts' \subseteq Posts
    PROVE  IInv'
  BY DEF IInv, SendTypes, NoneTwice, Same, Rows

LEMMA Written ==
    ASSUME IInv, NEW c \in OrNone(Channels), NEW r \in OrNone(Attempts),
           log' = Append(log, [channel |-> c, request |-> r, present |-> TRUE]),
           r = None \/ RequestedRows(r) = {},
           open' = open, attempt' = attempt, posts' \subseteq Posts
    PROVE  IInv'
  <1> DEFINE e == [channel |-> c, request |-> r, present |-> TRUE]
             N == Len(log)
  <1>1. e \in Entry /\ e.request = r
    BY DEF Entry
  <1>2. log \in Seq(Entry) /\ open \in OrNone(Channels) /\ attempt \in Sent
    BY DEF IInv, SendTypes
  <1>3. log' = Append(log, e)
    OBVIOUS
  <1> HIDE DEF e
  <1>4. /\ log' \in Seq(Entry) /\ N \in Nat /\ Rows = 1 .. N /\ Rows' = 1 .. (N + 1)
        /\ \A n \in 1 .. N : log'[n] = log[n]
        /\ log'[N + 1] = e
    BY <1>1, <1>2, <1>3 DEF Rows
  <1>5. ASSUME NEW a \in Attempts, NEW m \in Rows', NEW n \in Rows', Same(a, m)', Same(a, n)'
        PROVE  m = n
    <2>1. CASE m \in Rows /\ n \in Rows
      BY <1>4, <1>5, <2>1 DEF IInv, NoneTwice, Same
    <2>2. ASSUME NEW k \in Rows', NEW l \in Rows', k \in Rows, l = N + 1,
                 Same(a, k)', Same(a, l)'
          PROVE  FALSE
      <3>1. r = a /\ Same(a, k)
        BY <1>1, <1>4, <2>2 DEF Same
      <3>2. r # None /\ k \in RequestedRows(r)
        BY <2>2, <3>1, NoneAssumption DEF RequestedRows, Same
      <3> QED
        BY <3>2
    <2>3. \A k \in Rows' : k \in Rows \/ k = N + 1
      BY <1>4
    <2> QED
      BY <1>5, <2>1, <2>2, <2>3
  <1> QED
    BY <1>2, <1>4, <1>5 DEF IInv, SendTypes, NoneTwice

LEMMA Removed ==
    ASSUME IInv, NEW n \in Rows, log' = [log EXCEPT ![n].present = FALSE],
           UNCHANGED <<open, attempt, posts>>
    PROVE  IInv'
  <1> DEFINE e == [log[n] EXCEPT !.present = FALSE]
  <1>1. log \in Seq(Entry) /\ Rows = 1 .. Len(log) /\ Len(log) \in Nat
    BY DEF IInv, SendTypes, Rows
  <1>2. log[n] \in Entry
    BY <1>1
  <1>3. e \in Entry /\ ~e.present
    BY <1>2 DEF Entry
  <1>4. log' = [log EXCEPT ![n] = e]
    OBVIOUS
  <1> HIDE DEF e
  <1>5. /\ log' \in Seq(Entry) /\ Rows' = Rows
        /\ log'[n] = e /\ \A k \in Rows \ {n} : log'[k] = log[k]
    <2>1. n \in 1 .. Len(log)
      BY <1>1
    <2>2. /\ log' \in Seq(Entry) /\ Len(log') = Len(log)
          /\ log'[n] = e /\ \A k \in 1 .. Len(log) \ {n} : log'[k] = log[k]
      <3>1. log \in Seq(Entry) /\ e \in Entry
        BY <1>1, <1>3
      <3>2. /\ [log EXCEPT ![n] = e] \in Seq(Entry)
            /\ Len([log EXCEPT ![n] = e]) = Len(log)
            /\ \A k \in 1 .. Len(log) :
                  [log EXCEPT ![n] = e][k] = IF k = n THEN e ELSE log[k]
        BY ONLY <2>1, <3>1, ExceptSeq
      <3> QED
        BY <1>4, <2>1, <3>2
    <2>3. Rows' = 1 .. Len(log')
      BY <2>2 DEF Rows
    <2> QED
      BY <1>1, <2>2, <2>3
  <1>6. \A a \in Attempts : \A k \in Rows : Same(a, k)' => Same(a, k)
    BY <1>3, <1>5 DEF Same
  <1> QED
    BY <1>5, <1>6 DEF IInv, SendTypes, NoneTwice

-----------------------------------------------------------------------------
(* The steps *)

LEMMA StoreKeeps ==
    ASSUME IInv, NEW p, Store(p)
    PROVE  IInv'
  <1>1. p \in Posts /\ p.attempt \in Attempts /\ posts \subseteq Posts
    BY DEF Store, IInv, SendTypes, Posts
  <1>2. Rows \subseteq Nat /\ Len(log') \in Nat
    <2>1. log \in Seq(Entry)
      BY DEF IInv, SendTypes
    <2>2. log' = log \/ \E e : log' = Append(log, e)
      BY DEF Store, StoreMessage
    <2>3. \A e : Len(Append(log, e)) = Len(log) + 1
      BY <2>1
    <2> QED
      BY <2>1, <2>2, <2>3 DEF Rows
  <1>3. ASSUME NEW n \in Nat, Answer(p, n)
        PROVE  posts' \subseteq Posts
    <2>1. [p EXCEPT !.row = n] \in Posts
      BY <1>1 DEF Posts, OrNone
    <2> QED
      BY <1>1, <1>3, <2>1 DEF Answer
  <1>4. open' = open /\ attempt' = attempt
    BY DEF Store, view
  <1>5. CASE RequestedRows(p.attempt) # {} /\ log' = log
    <2>1. PICK n \in RequestedRows(p.attempt) : Answer(p, n)
      BY <1>5 DEF Store
    <2>2. n \in Nat
      BY <1>2 DEF RequestedRows
    <2> QED
      BY <1>3, <1>4, <1>5, <2>1, <2>2, Unwritten DEF IInv, SendTypes
  <1>6. CASE /\ RequestedRows(p.attempt) = {}
             /\ StoreMessage(attempt[p.attempt].channel, p.attempt)
             /\ Answer(p, Len(log'))
    <2>1. posts' \subseteq Posts
      BY <1>2, <1>3, <1>6
    <2>2. attempt[p.attempt].channel \in OrNone(Channels) /\ p.attempt \in OrNone(Attempts)
      BY <1>1 DEF IInv, SendTypes, Sent, OrNone
    <2> QED
      BY <1>4, <1>6, <2>1, <2>2, Written DEF StoreMessage
  <1> QED
    BY <1>5, <1>6 DEF Store

LEMMA LinkKeeps ==
    ASSUME IInv, LinkStep \/ LeaveView \/ ReturnToView \/ HandleEvent
    PROVE  IInv'
  <1>1. UNCHANGED <<log, open, attempt, posts>>
    BY DEF LinkStep, Connects, Subscribes, Disconnects, GivesUp, SeeksConnection, LeaveView,
       ReturnToView, HandleEvent, view, sending
  <1> QED
    BY <1>1, Unwritten DEF IInv, SendTypes

LEMMA ListKeeps ==
    ASSUME IInv, ListStep
    PROVE  IInv'
  <1>1. UNCHANGED <<log, attempt, posts>>
    BY DEF ListStep, OpenChannel, LoadOlder, ReturnToLatest, JumpTo, ReadPage, Answered,
       RequestFails, sending
  <1>2. open' \in OrNone(Channels)
    <2>1. CASE \E c \in Channels : OpenChannel(c)
      BY <2>1 DEF OpenChannel, OrNone
    <2>2. CASE ~\E c \in Channels : OpenChannel(c)
      <3>1. open' = open
        BY <2>2 DEF ListStep, LoadOlder, ReturnToLatest, JumpTo, ReadPage, Answered,
           RequestFails, view
      <3> QED
        BY <3>1 DEF IInv, SendTypes
    <2> QED
      BY <2>1, <2>2
  <1> QED
    BY <1>1, <1>2, Unwritten DEF IInv, SendTypes

LEMMA SendKeeps ==
    ASSUME IInv, NEW a \in Attempts, Retry(a) \/ Discard(a) \/ \E t \in Texts : Send(a, t)
    PROVE  IInv'
  <1>1. /\ posts \subseteq Posts /\ attempt \in Sent
        /\ log \in Seq(Entry) /\ open \in OrNone(Channels)
        /\ log' = log /\ open' = open
    <2>1. log' = log /\ open' = open
      BY DEF Retry, Discard, Send, view
    <2> QED
      BY <2>1 DEF IInv, SendTypes
  <1>2. \A retry \in BOOLEAN : [attempt |-> a, retry |-> retry, row |-> None] \in Posts
    BY DEF Posts, OrNone
  <1>3. posts' \subseteq Posts
    <2>1. \/ posts' \subseteq posts
          \/ posts' = posts \cup {[attempt |-> a, retry |-> TRUE, row |-> None]}
          \/ posts' = posts \cup {[attempt |-> a, retry |-> FALSE, row |-> None]}
      BY DEF Retry, Discard, Send, sending
    <2>2. /\ [attempt |-> a, retry |-> TRUE, row |-> None] \in Posts
          /\ [attempt |-> a, retry |-> FALSE, row |-> None] \in Posts
      BY <1>2
    <2> QED
      BY <1>1, <2>1, <2>2
  <1>4. attempt' \in Sent
    <2>1. CASE attempt' = attempt
      BY <1>1, <2>1
    <2>2. ASSUME NEW t \in Texts, Send(a, t) PROVE attempt' \in Sent
      <3> DEFINE d == [channel |-> open, text |-> t, born |-> Len(log)]
      <3>0. Len(log) \in Nat
        BY <1>1
      <3>1. d \in [channel : OrNone(Channels), text : OrNone(Texts), born : Nat]
        BY <1>1, <3>0 DEF OrNone
      <3>2. attempt' = [attempt EXCEPT ![a] = d]
        BY <2>2 DEF Send
      <3> HIDE DEF d
      <3> QED
        BY <1>1, <3>1, <3>2 DEF Sent
    <2> QED
      BY <2>1, <2>2 DEF Retry, Discard, sending
  <1> QED
    BY <1>1, <1>3, <1>4, Unwritten

LEMMA AnswerKeeps ==
    ASSUME IInv, NEW p \in posts, SendConfirmed(p) \/ SendFails(p)
    PROVE  IInv'
  <1>1. UNCHANGED <<log, open, attempt>> /\ posts' \subseteq posts
    BY DEF SendConfirmed, SendFails, view
  <1> QED
    BY <1>1, Unwritten DEF IInv, SendTypes

LEMMA DeletionKeeps ==
    ASSUME IInv,
           \/ \E n \in Rows : DeleteMessage(n) \/ IsDeleted(n)
           \/ \E q \in removals : Delete(q) \/ DeleteRefused(q) \/ DeleteConfirmed(q)
    PROVE  IInv'
  <1>1. UNCHANGED <<open, attempt, posts>>
    BY DEF DeleteMessage, IsDeleted, Delete, DeleteRefused, DeleteConfirmed, view, sending
  <1>2. log' = log \/ \E n : log' = [log EXCEPT ![n].present = FALSE]
    BY DEF DeleteMessage, IsDeleted, Delete, DeleteRefused, DeleteConfirmed
  <1>3. CASE log' = log
    BY <1>1, <1>3, Unwritten DEF IInv, SendTypes
  <1>4. ASSUME NEW n, log' = [log EXCEPT ![n].present = FALSE] PROVE IInv'
    <2>1. CASE n \in Rows
      BY <1>1, <1>4, <2>1, Removed
    <2>2. CASE n \notin Rows
      <3>1. log' = log
        BY <1>4, <2>2 DEF Rows, IInv, SendTypes
      <3> QED
        BY <1>3, <3>1
    <2> QED
      BY <2>1, <2>2
  <1> QED
    BY <1>2, <1>3, <1>4

LEMMA OtherPostsKeeps ==
    ASSUME IInv, NEW c \in Channels, OtherPosts(c)
    PROVE  IInv'
  <1>1. UNCHANGED <<open, attempt, posts>>
    BY DEF OtherPosts, view, sending
  <1>2. c \in OrNone(Channels) /\ None \in OrNone(Attempts) /\ posts \subseteq Posts
    BY DEF OrNone, IInv, SendTypes
  <1> QED
    BY <1>1, <1>2, Written DEF OtherPosts, StoreMessage

LEMMA InvInit == Init => IInv
  <1> SUFFICES ASSUME Init PROVE IInv
    OBVIOUS
  <1>1. log = <<>> /\ open = None /\ posts = {}
    BY DEF Init
  <1>2. [channel |-> None, text |-> None, born |-> 0]
            \in [channel : OrNone(Channels), text : OrNone(Texts), born : Nat]
    BY DEF OrNone
  <1>3. attempt \in Sent
    BY <1>2 DEF Init, Sent
  <1>4. log \in Seq(Entry) /\ Rows = {}
    BY <1>1 DEF Rows
  <1> QED
    BY <1>1, <1>3, <1>4 DEF IInv, SendTypes, NoneTwice, OrNone

LEMMA InvStep == IInv /\ [Next]_vars => IInv'
  <1> SUFFICES ASSUME IInv, [Next]_vars PROVE IInv'
    OBVIOUS
  <1>1. CASE UNCHANGED vars
    <2>1. UNCHANGED <<log, open, attempt, posts>>
      BY <1>1 DEF vars
    <2> QED
      BY <2>1, Unwritten DEF IInv, SendTypes
  <1>2. CASE LinkStep \/ LeaveView \/ ReturnToView \/ HandleEvent
    BY <1>2, LinkKeeps
  <1>3. CASE ListStep
    BY <1>3, ListKeeps
  <1>4. CASE SendStep
    BY <1>4, SendKeeps, StoreKeeps, AnswerKeeps, DeletionKeeps DEF SendStep
  <1>5. CASE (\E c \in Channels : OtherPosts(c)) \/ (\E n \in Rows : IsDeleted(n))
    BY <1>5, OtherPostsKeeps, DeletionKeeps
  <1> QED
    BY <1>1, <1>2, <1>3, <1>4, <1>5 DEF Next

LEMMA InvImplies == IInv => StoredOnce
  <1> SUFFICES ASSUME IInv, NEW a \in Attempts
               PROVE  Cardinality(RequestedRows(a)) <= 1
    BY DEF StoredOnce
  <1> DEFINE R == RequestedRows(a)
  <1>1. \A m, n \in R : m = n
    BY DEF RequestedRows, IInv, NoneTwice, Same
  <1> HIDE DEF R
  <1>2. CASE R = {}
    BY <1>2, FS_EmptySet DEF R
  <1>3. ASSUME NEW n \in R PROVE Cardinality(R) <= 1
    <2>1. R = {n}
      BY <1>1, <1>3
    <2>2. IsFiniteSet({n}) /\ Cardinality({n}) = 1
      BY FS_Singleton
    <2> QED
      BY <2>1, <2>2
  <1> QED
    BY <1>2, <1>3 DEF R

\* However its request is lost, fails or is retried, late or at once, and
\* whoever deletes it meanwhile, a message sent is on the server at most once:
\* the insert does nothing if the request id is there (send_message).
THEOREM AlwaysStoredOnce == Spec => []StoredOnce
  BY InvInit, InvStep, InvImplies, PTL DEF Spec

-----------------------------------------------------------------------------
(* The lists: what the operators on lists return, of whatever entries. A   *)
(* list that is defined by the rank of its elements, Ascending or ByTime,  *)
(* has a value at every place because ranking a finite set is onto.        *)

LEMMA RankingIsOnto ==
    ASSUME NEW D, IsFiniteSet(D), NEW f \in [D -> 1 .. Cardinality(D)],
           \A i, j \in D : f[i] = f[j] => i = j
    PROVE  \A k \in 1 .. Cardinality(D) : \E i \in D : f[i] = k
  <1> DEFINE T == 1 .. Cardinality(D)
  <1>1. Cardinality(D) \in Nat
    BY FS_CardinalityType
  <1>2. IsFiniteSet(T) /\ Cardinality(T) = Cardinality(D)
    BY <1>1, FS_Interval
  <1>3. f \in Injection(D, T)
    BY DEF Injection, IsInjective
  <1>4. f \in Surjection(D, T)
    BY <1>2, <1>3, FS_Injection
  <1> QED
    BY <1>4 DEF Surjection

LEMMA RankOf ==
    ASSUME NEW S, S \subseteq Nat, IsFiniteSet(S)
    PROVE  \A k \in 1 .. Cardinality(S) : \E n \in S : Cardinality({m \in S : m <= n}) = k
  <1> DEFINE below(n) == {m \in S : m <= n}
             f == [n \in S |-> Cardinality(below(n))]
  <1>1. \A n \in S : IsFiniteSet(below(n)) /\ Cardinality(below(n)) <= Cardinality(S)
                     /\ Cardinality(below(n)) \in Nat /\ n \in below(n)
    <2> SUFFICES ASSUME NEW n \in S
                 PROVE  IsFiniteSet(below(n)) /\ Cardinality(below(n)) <= Cardinality(S)
                        /\ Cardinality(below(n)) \in Nat /\ n \in below(n)
      OBVIOUS
    <2>1. below(n) \in SUBSET S /\ n \in below(n)
      OBVIOUS
    <2> QED
      BY <2>1, FS_Subset, FS_CardinalityType
  <1>2. \A n \in S : below(n) # {}
    BY <1>1
  <1>3. \A n \in S : Cardinality(below(n)) \in 1 .. Cardinality(S)
    <2>1. \A n \in S : Cardinality(below(n)) # 0
      BY <1>1, <1>2, FS_EmptySet
    <2>2. Cardinality(S) \in Nat
      BY FS_CardinalityType
    <2> HIDE DEF below
    <2> QED
      BY <1>1, <2>1, <2>2
  <1>4. \A m, n \in S : m < n => Cardinality(below(m)) # Cardinality(below(n))
    <2> SUFFICES ASSUME NEW m \in S, NEW n \in S, m < n, Cardinality(below(m)) = Cardinality(below(n))
                 PROVE  FALSE
      OBVIOUS
    <2>0. \A k \in S : k \in Nat
      OBVIOUS
    <2>1. below(m) \in SUBSET below(n)
      <3>1. m \in Nat /\ n \in Nat
        BY <2>0
      <3>2. ASSUME NEW k \in S, k <= m PROVE k <= n
        BY <2>0, <3>1, <3>2
      <3> QED
        BY <3>2
    <2>3. n \notin below(m) /\ n \in below(n)
      BY <2>0
    <2>2. below(n) = below(m)
      BY <1>1, <2>1, FS_Subset
    <2> QED
      BY <2>2, <2>3
  <1>5. f \in [S -> 1 .. Cardinality(S)]
    BY <1>3
  <1>6. \A m, n \in S : f[m] = f[n] => m = n
    <2>1. \A n \in S : f[n] = Cardinality(below(n)) /\ n \in Nat
      OBVIOUS
    <2> HIDE DEF below, f
    <2>2. \A m, n \in S : m < n \/ n < m \/ m = n
      BY <2>1
    <2> QED
      BY <1>4, <2>1, <2>2
  <1>7. \A k \in 1 .. Cardinality(S) : \E n \in S : f[n] = k
    BY <1>5, <1>6, RankingIsOnto
  <1> QED
    BY <1>7

LEMMA SmallestIn ==
    ASSUME NEW S, S \subseteq Nat, S # {}
    PROVE  \E n \in S : \A m \in S : n <= m
  <1>1. PICK n \in S : \A m \in S : <<m, n>> \notin OpToRel(<, Nat)
    BY NatLessThanWellFounded, WFMin
  <1>2. \A m \in S : m \in Nat /\ n \in Nat
    OBVIOUS
  <1>3. ASSUME NEW m \in S PROVE n <= m
    <2>1. ~(m < n)
      BY <1>1, <1>2 DEF OpToRel
    <2> QED
      BY <1>2, <2>1
  <1> QED
    BY <1>3

LEMMA AscendingLists ==
    ASSUME NEW S, S \subseteq Nat, IsFiniteSet(S)
    PROVE  /\ Ascending(S) \in Seq(S)
           /\ DOMAIN Ascending(S) = 1 .. Cardinality(S)
  <1>1. Cardinality(S) \in Nat
    BY FS_CardinalityType
  <1>2. \A k \in 1 .. Cardinality(S) :
            (CHOOSE n \in S : Cardinality({m \in S : m <= n}) = k) \in S
    BY RankOf
  <1>3. Ascending(S) \in [1 .. Cardinality(S) -> S]
    BY <1>2 DEF Ascending
  <1> QED
    BY <1>1, <1>3

LEMMA WithoutLists ==
    ASSUME NEW S, NEW list \in Seq(S), NEW gone
    PROVE  Without(list, gone) \in Seq(S \ gone)
  <1> DEFINE K == {i \in DOMAIN list : list[i] \notin gone}
             kept == Ascending(K)
  <1>1. K \subseteq Nat /\ IsFiniteSet(K)
    <2>1. Len(list) \in Nat /\ DOMAIN list = 1 .. Len(list)
      OBVIOUS
    <2>2. IsFiniteSet(1 .. Len(list))
      BY <2>1, FS_Interval
    <2>3. K \in SUBSET (1 .. Len(list))
      BY <2>1
    <2> QED
      BY <2>1, <2>2, <2>3, FS_Subset
  <1>2. kept \in Seq(K)
    BY <1>1, AscendingLists
  <1>3. Len(kept) \in Nat /\ DOMAIN kept = 1 .. Len(kept) /\ \A k \in DOMAIN kept : kept[k] \in K
    <2> HIDE DEF kept, K
    <2> QED
      BY <1>2, LenProperties, ElementOfSeq
  <1>4. \A i \in K : list[i] \in S \ gone
    OBVIOUS
  <1>5. Without(list, gone) = [k \in DOMAIN kept |-> list[kept[k]]]
    BY DEF Without
  <1> HIDE DEF kept, K
  <1>6. [k \in DOMAIN kept |-> list[kept[k]]] \in [1 .. Len(kept) -> S \ gone]
    BY <1>3, <1>4
  <1> QED
    BY <1>3, <1>5, <1>6

LEMMA ReplaceLists ==
    ASSUME NEW S, NEW T, NEW list \in Seq(S), NEW a, NEW by,
           \A e \in S : IF IsOf(e, a) THEN by \in T ELSE e \in T
    PROVE  Replace(list, a, by) \in Seq(T)
  <1>1. Len(list) \in Nat /\ DOMAIN list = 1 .. Len(list) /\ \A i \in DOMAIN list : list[i] \in S
    OBVIOUS
  <1>2. Replace(list, a, by) \in [1 .. Len(list) -> T]
    BY <1>1 DEF Replace
  <1> QED
    BY <1>1, <1>2

LEMMA AsRowsLists ==
    ASSUME NEW N, NEW S, NEW page \in Seq(N), \A n \in N : Row(n) \in S
    PROVE  AsRows(page) \in Seq(S)
  <1>1. Len(page) \in Nat /\ DOMAIN page = 1 .. Len(page) /\ \A i \in DOMAIN page : page[i] \in N
    OBVIOUS
  <1>2. AsRows(page) \in [1 .. Len(page) -> S]
    BY <1>1 DEF AsRows
  <1> QED
    BY <1>1, <1>2

LEMMA PlacesTaken ==
    ASSUME NEW S, NEW list \in Seq(S), \A e \in S : Time(e) \in Int
    PROVE  \A k \in 1 .. Len(list) : \E i \in DOMAIN list : Cardinality(UpTo(list, i)) = k
  <1> DEFINE D == DOMAIN list
             f == [i \in D |-> Cardinality(UpTo(list, i))]
  <1>1. Len(list) \in Nat /\ D = 1 .. Len(list) /\ \A i \in D : Time(list[i]) \in Int
    BY ElementOfSeq
  <1>2. IsFiniteSet(D) /\ Cardinality(D) = Len(list)
    BY <1>1, FS_Interval
  <1>3. \A i \in D : UpTo(list, i) \in SUBSET D /\ i \in UpTo(list, i)
    BY <1>1 DEF UpTo
  <1>4. \A i \in D : /\ IsFiniteSet(UpTo(list, i)) /\ Cardinality(UpTo(list, i)) \in Nat
                     /\ Cardinality(UpTo(list, i)) <= Cardinality(D)
                     /\ Cardinality(UpTo(list, i)) # 0
    BY <1>2, <1>3, FS_Subset, FS_CardinalityType, FS_EmptySet
  <1>5. \A i \in D : Cardinality(UpTo(list, i)) \in 1 .. Cardinality(D)
    BY <1>1, <1>2, <1>4
  <1>6. \A i, j \in D : i # j => Cardinality(UpTo(list, i)) # Cardinality(UpTo(list, j))
    <2> SUFFICES ASSUME NEW i \in D, NEW j \in D, i # j,
                        Cardinality(UpTo(list, i)) = Cardinality(UpTo(list, j))
                 PROVE  FALSE
      OBVIOUS
    <2> DEFINE t(k) == Time(list[k])
    <2>1. \A k \in D : t(k) \in Int /\ k \in Int
      BY <1>1
    <2>2. \A k, l \in D : k \in UpTo(list, l) <=> (t(k) < t(l) \/ (t(k) = t(l) /\ k <= l))
      BY DEF UpTo
    <2> HIDE DEF t
    <2>3. CASE i \notin UpTo(list, j)
      <3>1. t(j) < t(i) \/ (t(i) = t(j) /\ j < i)
        BY <2>1, <2>2, <2>3
      <3>2. UpTo(list, j) \in SUBSET UpTo(list, i)
        <4> SUFFICES ASSUME NEW k \in UpTo(list, j) PROVE k \in UpTo(list, i)
          OBVIOUS
        <4>1. k \in D /\ (t(k) < t(j) \/ (t(k) = t(j) /\ k <= j))
          BY <1>3, <2>2
        <4>2. t(k) < t(i) \/ (t(k) = t(i) /\ k <= i)
          BY <2>1, <3>1, <4>1
        <4> QED
          BY <2>2, <4>1, <4>2
      <3> QED
        BY <1>3, <1>4, <2>3, <3>2, FS_Subset
    <2>4. CASE i \in UpTo(list, j)
      <3>1. t(i) < t(j) \/ (t(i) = t(j) /\ i < j)
        BY <2>1, <2>2, <2>4
      <3>2. UpTo(list, i) \in SUBSET UpTo(list, j)
        <4> SUFFICES ASSUME NEW k \in UpTo(list, i) PROVE k \in UpTo(list, j)
          OBVIOUS
        <4>1. k \in D /\ (t(k) < t(i) \/ (t(k) = t(i) /\ k <= i))
          BY <1>3, <2>2
        <4>2. t(k) < t(j) \/ (t(k) = t(j) /\ k <= j)
          BY <2>1, <3>1, <4>1
        <4> QED
          BY <2>2, <4>1, <4>2
      <3>3. j \notin UpTo(list, i)
        BY <2>1, <2>2, <3>1
      <3> QED
        BY <1>3, <1>4, <3>2, <3>3, FS_Subset
    <2> QED
      BY <2>3, <2>4
  <1>7. \A k \in 1 .. Cardinality(D) : \E i \in D : f[i] = k
    <2>1. f \in [D -> 1 .. Cardinality(D)]
      BY <1>5
    <2>2. \A i, j \in D : f[i] = f[j] => i = j
      BY <1>6
    <2> HIDE DEF f, D
    <2> QED
      BY <1>2, <2>1, <2>2, RankingIsOnto
  <1> QED
    BY <1>2, <1>7

LEMMA ByTimeLists ==
    ASSUME NEW S, NEW list \in Seq(S), \A e \in S : Time(e) \in Int
    PROVE  ByTime(list) \in Seq(S)
  <1> DEFINE D == DOMAIN list
  <1>1. Len(list) \in Nat /\ D = 1 .. Len(list)
    OBVIOUS
  <1>2. \A k \in 1 .. Len(list) :
            (CHOOSE i \in D : Cardinality(UpTo(list, i)) = k) \in D
    BY PlacesTaken
  <1>3. ByTime(list) \in [1 .. Len(list) -> S]
    BY <1>1, <1>2 DEF ByTime
  <1> QED
    BY <1>1, <1>3

LEMMA MergeLists ==
    ASSUME NEW S, NEW L, NEW remote \in Seq(S), NEW local \in Seq(L),
           \A e \in S : Time(e) \in Int,
           \A e \in L \cap Locals : Local(e.attempt, "failed") \in S
    PROVE  MergeRemoteWithLocals(remote, local) \in Seq(S)
  <1> DEFINE kept == Without(local, ToSet(local) \ Locals)
             failed == [i \in DOMAIN kept |-> Local(kept[i].attempt, "failed")]
  <1>1. local \in Seq(ToSet(local)) /\ ToSet(local) \subseteq L
    BY DEF ToSet
  <1>2. kept \in Seq(ToSet(local) \ (ToSet(local) \ Locals))
    BY <1>1, WithoutLists
  <1>3. ToSet(local) \ (ToSet(local) \ Locals) \subseteq L \cap Locals
    BY <1>1
  <1> HIDE DEF kept
  <1>4. Len(kept) \in Nat /\ DOMAIN kept = 1 .. Len(kept) /\ \A i \in DOMAIN kept : kept[i] \in L \cap Locals
    BY <1>2, <1>3, LenProperties, ElementOfSeq
  <1>5. failed \in [1 .. Len(kept) -> S]
    BY <1>4
  <1>6. failed \in Seq(S)
    BY <1>4, <1>5
  <1> HIDE DEF failed
  <1>7. remote \o failed \in Seq(S)
    BY <1>6
  <1> QED
    BY <1>7, ByTimeLists DEF MergeRemoteWithLocals, kept, failed

LEMMA LatestLists ==
    ASSUME NEW S, NEW L, NEW latest \in Seq(S), NEW cached \in Seq(L),
           \A e \in S : Time(e) \in Int,
           \A e \in L \cap Locals : Local(e.attempt, "failed") \in S,
           L \ Locals \subseteq S
    PROVE  MergeLatestPage(latest, cached) \in Seq(S)
  <1> DEFINE merged == MergeRemoteWithLocals(latest, cached)
             O == {i \in DOMAIN cached : latest # <<>> /\ cached[i].id = latest[1].id}
             first == CHOOSE i \in O : \A j \in O : i <= j
             older == Without(SubSeq(cached, 1, first - 1), Locals)
  <1>1. merged \in Seq(S)
    BY MergeLists
  <1>2. CASE O = {}
    BY <1>1, <1>2 DEF MergeLatestPage
  <1>3. CASE O # {}
    <2>1. O \subseteq Nat /\ O \subseteq 1 .. Len(cached)
      OBVIOUS
    <2>2. \E i \in O : \A j \in O : i <= j
      BY <1>3, <2>1, SmallestIn
    <2>3. first \in 1 .. Len(cached)
      BY <2>1, <2>2
    <2> HIDE DEF first
    <2>4. SubSeq(cached, 1, first - 1) \in Seq(L)
      BY <2>3
    <2>5. older \in Seq(L \ Locals)
      BY <2>4, WithoutLists
    <2>6. older \in Seq(S)
      BY <2>5, SeqMonotonic
    <2> HIDE DEF merged, older
    <2>7. older \o merged \in Seq(S)
      BY <1>1, <2>6
    <2> QED
      BY <1>3, <2>7 DEF MergeLatestPage, merged, older, first
  <1> QED
    BY <1>2, <1>3

-----------------------------------------------------------------------------
(* The invariant of the lists. An entry belongs to a channel, by its row   *)
(* or by what the user had written, and a list, a request and a page found *)
(* for a channel hold what belongs to its Home: the channel alone if no    *)
(* user both deletes a message and switches channels, any otherwise. So    *)
(* one invariant gives the types always and the separation when it holds.  *)

Careful == \A s \in Scenarios : s["delete"] = 0 \/ s["open"] <= 1
Home(c) == {d \in Channels : Careful => d = c}

From(C) ==
    {e \in Entries : IF e.attempt = None THEN e.id \in Rows /\ log[e.id].channel \in C
                     ELSE attempt[e.attempt].channel \in C}
RowsOf(C) == {n \in Rows : log[n].channel \in C}

ListsApart == shown \in Seq(From(Home(open))) /\ \A c \in Channels : cache[c] \in Seq(From(Home(c)))
RequestApart(r) ==
    /\ r.found \in Seq(From(Home(r.channel)))
    /\ r.page # None => r.page \in Seq(RowsOf(Home(r.channel)))
RequestsApart == \A r \in requests : RequestApart(r)
PostApart(p) ==
    /\ attempt[p.attempt].channel \in Channels
    /\ p.row # None => p.row \in RowsOf({attempt[p.attempt].channel})
PostsApart == \A p \in posts : PostApart(p)
LogApart == \A n \in Rows : log[n].request # None =>
                               attempt[log[n].request].channel = log[n].channel
RemovalsKnown == \A q \in removals : q.row \in Rows
Stays ==
    Careful => \/ left["delete"] = 0 /\ removals = {}
               \/ open = None /\ left["open"] <= 1 /\ removals = {}
               \/ left["open"] = 0 /\ \A q \in removals : q.channel = open

LInv == TypeOK /\ ListsApart /\ RequestsApart /\ PostsApart /\ LogApart /\ RemovalsKnown /\ Stays

-----------------------------------------------------------------------------
(* What belongs to a channel belongs to it for good *)

Grows ==
    /\ Rows \subseteq Rows'
    /\ \A n \in Rows : log'[n].channel = log[n].channel /\ log'[n].request = log[n].request
    /\ \A a \in Attempts : attempt[a].channel \in Channels =>
                              attempt'[a].channel = attempt[a].channel

LEMMA HomesAreChannels == \A c : Home(c) \subseteq Channels
  BY DEF Home

LEMMA HomesContain == \A c \in Channels : c \in Home(c)
  BY DEF Home

\* An entry belongs to the same channels for good.
LEMMA EntriesStay ==
    ASSUME Grows
    PROVE  \A c : From(Home(c)) \subseteq From(Home(c))' /\ RowsOf(Home(c)) \subseteq RowsOf(Home(c))'
  <1> SUFFICES ASSUME NEW c
               PROVE  /\ From(Home(c)) \subseteq From(Home(c))'
                      /\ RowsOf(Home(c)) \subseteq RowsOf(Home(c))'
    OBVIOUS
  <1>1. Home(c)' = Home(c) /\ Home(c) \subseteq Channels
    BY DEF Home, Careful
  <1>2. RowsOf(Home(c)) \subseteq RowsOf(Home(c))'
    BY <1>1 DEF RowsOf, Grows
  <1>3. ASSUME NEW e \in From(Home(c)) PROVE e \in From(Home(c))'
    <2>1. e \in Entries
      BY DEF From
    <2>2. CASE e.attempt = None
      BY <1>1, <2>1, <2>2 DEF From, Grows
    <2>3. CASE e.attempt # None
      <3>1. e.attempt \in Attempts
        BY <2>1, <2>3 DEF Entries, Locals, Local
      <3>2. attempt[e.attempt].channel \in Home(c)
        BY <2>3 DEF From
      <3>3. attempt'[e.attempt].channel = attempt[e.attempt].channel
        BY <1>1, <3>1, <3>2 DEF Grows
      <3> QED
        BY <1>1, <2>1, <2>3, <3>2, <3>3 DEF From
    <2> QED
      BY <2>2, <2>3
  <1> QED
    BY <1>2, <1>3

LEMMA EntryFacts ==
    /\ \A n \in Nat : Row(n) \in Entries /\ Row(n).id = n /\ Row(n).attempt = None
                      /\ Row(n).status = "sent"
    /\ \A a \in Attempts : \A s \in {"sending", "failed"} :
          /\ Local(a, s) \in Entries /\ Local(a, s) \in Locals
          /\ Local(a, s).id = None /\ Local(a, s).attempt = a /\ Local(a, s).status = s
    /\ \A e \in Locals : e \in Entries /\ e.id = None /\ e.attempt \in Attempts /\ e.attempt # None
                         /\ e.status \in {"sending", "failed"} /\ e = Local(e.attempt, e.status)
    /\ \A e \in Entries \ Locals : e.id \in Nat /\ e.attempt = None /\ e = Row(e.id) /\ e.status = "sent"
  <1>1. None \notin Attempts
    BY NoneAssumption
  <1> QED
    BY <1>1 DEF Entries, Locals, Local, Row

LEMMA RowsFrom ==
    ASSUME log \in Seq(Stored)
    PROVE  \A C : \A n \in RowsOf(C) : Row(n) \in From(C)
  <1>1. Rows \subseteq Nat
    BY DEF Rows
  <1> QED
    BY <1>1, EntryFacts DEF From, RowsOf

LEMMA LocalsFrom ==
    \A C : \A a \in Attempts : \A s \in {"sending", "failed"} :
        attempt[a].channel \in C => Local(a, s) \in From(C)
  BY EntryFacts, NoneAssumption DEF From

LEMMA FromFacts ==
    \A C : \A e \in From(C) :
        /\ e \in Entries
        /\ e.attempt # None => /\ e \in Locals /\ e.attempt \in Attempts
                               /\ attempt[e.attempt].channel \in C
                               /\ \A s \in {"sending", "failed"} : Local(e.attempt, s) \in From(C)
        /\ e.attempt = None => e.id \in RowsOf(C) /\ e = Row(e.id)
        /\ e \in Locals => e.attempt # None
  <1> SUFFICES ASSUME NEW C, NEW e \in From(C)
               PROVE  /\ e \in Entries
                      /\ e.attempt # None => /\ e \in Locals /\ e.attempt \in Attempts
                                             /\ attempt[e.attempt].channel \in C
                                             /\ \A s \in {"sending", "failed"} : Local(e.attempt, s) \in From(C)
                      /\ e.attempt = None => e.id \in RowsOf(C) /\ e = Row(e.id)
                      /\ e \in Locals => e.attempt # None
    OBVIOUS
  <1>1. e \in Entries
    BY DEF From
  <1>2. e \in Locals => e.attempt # None
    BY EntryFacts
  <1>3. e.attempt # None => /\ e \in Locals /\ e.attempt \in Attempts
                            /\ attempt[e.attempt].channel \in C
    BY <1>1, EntryFacts DEF From
  <1>4. e.attempt = None => e.id \in RowsOf(C) /\ e = Row(e.id)
    BY <1>1, <1>2, EntryFacts DEF From, RowsOf
  <1> QED
    BY <1>1, <1>2, <1>3, <1>4, LocalsFrom

LEMMA FromTime ==
    ASSUME attempt \in [Attempts -> Drafts]
    PROVE  \A C : \A e \in From(C) : Time(e) \in Int
  <1> SUFFICES ASSUME NEW C, NEW e \in From(C) PROVE Time(e) \in Int
    OBVIOUS
  <1>1. CASE e \in Locals
    <2>1. e.id = None /\ e.attempt \in Attempts
      BY <1>1, EntryFacts
    <2>2. attempt[e.attempt].born \in Nat
      BY <2>1 DEF Drafts
    <2> QED
      BY <2>1, <2>2 DEF Time
  <1>2. CASE e \notin Locals
    <2>1. e.id \in Nat /\ e.id # None
      BY <1>2, EntryFacts, NoneAssumption DEF From
    <2> QED
      BY <2>1 DEF Time
  <1> QED
    BY <1>1, <1>2

-----------------------------------------------------------------------------
(* The messages of the server and of the user *)

Stores(c, q) ==
    /\ c \in Channels /\ q \in OrNone(Attempts)
    /\ q # None => attempt[q].channel = c
    /\ log' = Append(log, [channel |-> c, request |-> q, present |-> TRUE])
Deletes(n) == n \in Rows /\ log' = [log EXCEPT ![n].present = FALSE]
LogMoves ==
    \/ log' = log
    \/ \E c, q : Stores(c, q)
    \/ \E n : Deletes(n)

Writes(a) ==
    /\ a \in Attempts /\ attempt[a].channel = None /\ open \in Channels
    /\ \E t \in Texts : attempt' = [attempt EXCEPT ![a] = [channel |-> open, text |-> t,
                                                           born |-> Len(log)]]
AttemptMoves == 
    \/ attempt' = attempt
    \/ log' = log /\ \E a : Writes(a)

LEMMA MessageMoves ==
    ASSUME LInv, [Next]_vars
    PROVE  LogMoves /\ AttemptMoves
  <1>0. /\ open \in OrNone(Channels) /\ posts \subseteq Posts
        /\ \A p \in posts : attempt[p.attempt].channel \in Channels
        /\ \A q \in removals : q.row \in Rows
    BY DEF LInv, TypeOK, PostsApart, PostApart, RemovalsKnown
  <1>1. CASE UNCHANGED vars
    BY <1>1 DEF vars, sending, LogMoves, AttemptMoves
  <1>2. CASE LinkStep \/ LeaveView \/ ReturnToView \/ HandleEvent
    BY <1>2 DEF LinkStep, Connects, Subscribes, Disconnects, GivesUp, SeeksConnection, LeaveView,
       ReturnToView, HandleEvent, sending, LogMoves, AttemptMoves
  <1>3. CASE ListStep
    BY <1>3 DEF ListStep, OpenChannel, LoadOlder, ReturnToLatest, JumpTo, ReadPage, Answered,
       RequestFails, sending, LogMoves, AttemptMoves
  <1>4. ASSUME NEW a \in Attempts, Retry(a) \/ Discard(a)
        PROVE  LogMoves /\ AttemptMoves
    BY <1>4 DEF Retry, Discard, sending, LogMoves, AttemptMoves
  <1>5. ASSUME NEW a \in Attempts, NEW t \in Texts, Send(a, t)
        PROVE  LogMoves /\ AttemptMoves
    BY <1>0, <1>5 DEF Send, OrNone, LogMoves, AttemptMoves, Writes
  <1>6. ASSUME NEW p \in posts, SendConfirmed(p) \/ SendFails(p)
        PROVE  LogMoves /\ AttemptMoves
    BY <1>6 DEF SendConfirmed, SendFails, LogMoves, AttemptMoves
  <1>7. ASSUME NEW p \in posts, Store(p)
        PROVE  LogMoves /\ AttemptMoves
    <2>1. p.attempt \in OrNone(Attempts) /\ attempt[p.attempt].channel \in Channels
      BY <1>0 DEF Posts, OrNone
    <2>2. log' = log \/ Stores(attempt[p.attempt].channel, p.attempt)
      BY <1>7, <2>1 DEF Store, StoreMessage, Stores
    <2>3. attempt' = attempt
      BY <1>7 DEF Store
    <2> QED
      BY <2>2, <2>3 DEF LogMoves, AttemptMoves
  <1>8. ASSUME NEW n \in Rows, DeleteMessage(n) \/ IsDeleted(n)
        PROVE  LogMoves /\ AttemptMoves
    BY <1>8 DEF DeleteMessage, IsDeleted, sending, LogMoves, AttemptMoves, Deletes
  <1>9. ASSUME NEW q \in removals, Delete(q) \/ DeleteRefused(q) \/ DeleteConfirmed(q)
        PROVE  LogMoves /\ AttemptMoves
    BY <1>0, <1>9 DEF Delete, DeleteRefused, DeleteConfirmed, LogMoves, AttemptMoves, Deletes
  <1>10. ASSUME NEW c \in Channels, OtherPosts(c)
         PROVE  LogMoves /\ AttemptMoves
    <2>1. Stores(c, None) /\ attempt' = attempt
      BY <1>10 DEF OtherPosts, StoreMessage, Stores, OrNone, sending
    <2> QED
      BY <2>1 DEF LogMoves, AttemptMoves
  <1> QED
    BY <1>1, <1>2, <1>3, <1>4, <1>5, <1>6, <1>7, <1>8, <1>9, <1>10 DEF Next, SendStep

LEMMA LogKept ==
    ASSUME LInv, [Next]_vars
    PROVE  /\ log' \in Seq(Stored) /\ Rows \subseteq Rows'
           /\ \A n \in Rows : log'[n].channel = log[n].channel /\ log'[n].request = log[n].request
           /\ \A n \in Rows' \ Rows : 
                  /\ log'[n].channel \in Channels /\ attempt' = attempt
                  /\ log'[n].request # None => attempt[log'[n].request].channel = log'[n].channel
  <1>0. log \in Seq(Stored) /\ Rows = 1 .. Len(log) /\ Len(log) \in Nat
    BY DEF LInv, TypeOK, Rows
  <1>1. LogMoves /\ AttemptMoves
    BY MessageMoves
  <1>2. CASE log' = log
    BY <1>0, <1>2 DEF Rows
  <1>3. ASSUME NEW c, NEW q, Stores(c, q)
        PROVE  /\ log' \in Seq(Stored) /\ Rows \subseteq Rows'
               /\ \A n \in Rows : log'[n].channel = log[n].channel /\ log'[n].request = log[n].request
               /\ \A n \in Rows' \ Rows : 
                      /\ log'[n].channel \in Channels /\ attempt' = attempt
                      /\ log'[n].request # None => attempt[log'[n].request].channel = log'[n].channel
    <2> DEFINE e == [channel |-> c, request |-> q, present |-> TRUE]
    <2>1. e \in Stored /\ e.channel = c /\ e.request = q /\ log' = Append(log, e)
      BY <1>3 DEF Stores, Stored
    <2> HIDE DEF e
    <2>2. /\ log' \in Seq(Stored) /\ Len(log') = Len(log) + 1 /\ log'[Len(log) + 1] = e
          /\ \A n \in 1 .. Len(log) : log'[n] = log[n]
      BY <1>0, <2>1
    <2>3. attempt' = attempt
      <3>1. log' # log
        BY <1>0, <2>2
      <3> QED
        BY <1>1, <3>1 DEF AttemptMoves
    <2>4. Rows' = 1 .. (Len(log) + 1)
      BY <2>2 DEF Rows
    <2>5. \A n \in Rows' \ Rows : n = Len(log) + 1
      BY <1>0, <2>4
    <2> QED
      BY <1>0, <1>3, <2>1, <2>2, <2>3, <2>4, <2>5 DEF Stores
  <1>4. ASSUME NEW n, Deletes(n)
        PROVE  /\ log' \in Seq(Stored) /\ Rows' = Rows
               /\ \A k \in Rows : log'[k].channel = log[k].channel /\ log'[k].request = log[k].request
    <2> DEFINE e == [log[n] EXCEPT !.present = FALSE]
    <2>1. n \in 1 .. Len(log) /\ log[n] \in Stored
      BY <1>0, <1>4 DEF Deletes
    <2>2. e \in Stored /\ e.channel = log[n].channel /\ e.request = log[n].request
      BY <2>1 DEF Stored
    <2>3. log' = [log EXCEPT ![n] = e]
      BY <1>4 DEF Deletes
    <2> HIDE DEF e
    <2>4. /\ [log EXCEPT ![n] = e] \in Seq(Stored)
          /\ Len([log EXCEPT ![n] = e]) = Len(log)
          /\ \A k \in 1 .. Len(log) :
                [log EXCEPT ![n] = e][k] = IF k = n THEN e ELSE log[k]
      BY ONLY <1>0, <2>1, <2>2, ExceptSeq
    <2>5. Rows' = Rows
      BY <1>0, <2>3, <2>4 DEF Rows
    <2> QED
      BY <1>0, <2>2, <2>3, <2>4, <2>5
  <1> QED
    BY <1>1, <1>2, <1>3, <1>4 DEF LogMoves

LEMMA AttemptKept ==
    ASSUME LInv, [Next]_vars
    PROVE  /\ attempt' \in [Attempts -> Drafts]
           /\ \A a \in Attempts : attempt[a].channel \in Channels => attempt'[a] = attempt[a]
  <1>0. attempt \in [Attempts -> Drafts] /\ Len(log) \in Nat
    BY DEF LInv, TypeOK
  <1>1. CASE attempt' = attempt
    BY <1>0, <1>1
  <1>2. ASSUME NEW a, Writes(a)
        PROVE  /\ attempt' \in [Attempts -> Drafts]
               /\ \A b \in Attempts : attempt[b].channel \in Channels => attempt'[b] = attempt[b]
    <2>1. PICK t \in Texts : attempt' = [attempt EXCEPT ![a] = [channel |-> open, text |-> t,
                                                               born |-> Len(log)]]
      BY <1>2 DEF Writes
    <2> DEFINE d == [channel |-> open, text |-> t, born |-> Len(log)]
    <2>2. d \in Drafts /\ a \in Attempts /\ attempt[a].channel = None
      BY <1>0, <1>2 DEF Drafts, Writes, OrNone
    <2>3. attempt' = [attempt EXCEPT ![a] = d]
      BY <2>1
    <2> HIDE DEF d
    <2> QED
      BY <1>0, <2>2, <2>3, NoneAssumption
  <1> QED
    BY <1>1, <1>2, MessageMoves DEF AttemptMoves

LEMMA Growing ==
    ASSUME LInv, [Next]_vars
    PROVE  Grows
  BY LogKept, AttemptKept DEF Grows

LEMMA LogApartKept ==
    ASSUME LInv, [Next]_vars
    PROVE  LogApart'
  <1> SUFFICES ASSUME NEW n \in Rows', log'[n].request # None
               PROVE  attempt'[log'[n].request].channel = log'[n].channel
    BY DEF LogApart
  <1>1. CASE n \in Rows
    <2>1. log[n].request # None /\ log'[n].request = log[n].request
          /\ log'[n].channel = log[n].channel
      BY <1>1, LogKept
    <2>2. attempt[log[n].request].channel = log[n].channel
      BY <1>1, <2>1 DEF LInv, LogApart
    <2>3. log[n].request \in Attempts /\ log[n].channel \in Channels
      <3>1. log[n] \in Stored
        BY <1>1 DEF LInv, TypeOK, Rows
      <3> QED
        BY <2>1, <3>1 DEF Stored, OrNone
    <2> QED
      BY <2>1, <2>2, <2>3, AttemptKept
  <1>2. CASE n \notin Rows
    BY <1>2, LogKept
  <1> QED
    BY <1>1, <1>2

-----------------------------------------------------------------------------
(* Every step leaves in each list what belongs to its channel *)

Fitting(c) == From(Home(c))

LEMMA LInvFacts ==
    ASSUME LInv
    PROVE  /\ log \in Seq(Stored) /\ Rows \subseteq Nat /\ open \in OrNone(Channels)
           /\ attempt \in [Attempts -> Drafts] /\ posts \subseteq Posts /\ requests \subseteq Requests
           /\ removals \subseteq Removals /\ cache \in [Channels -> Seq(Entries)]
           /\ shown \in Seq(Fitting(open)) /\ \A c \in Channels : cache[c] \in Seq(Fitting(c))
           /\ \A r \in requests : /\ r.channel \in Channels /\ r.found \in Seq(Fitting(r.channel))
                                  /\ r.page # None => r.page \in Seq(RowsOf(Home(r.channel)))
           /\ \A p \in posts : PostApart(p)
           /\ \A n \in Rows : log[n].channel \in Channels
  <1>1. \A n \in Rows : log[n] \in Stored
    BY DEF LInv, TypeOK, Rows
  <1>2. \A n \in Rows : log[n].channel \in Channels
    BY <1>1 DEF Stored
  <1>3. Rows \subseteq Nat
    BY DEF LInv, TypeOK, Rows
  <1>4. \A r \in requests : r.channel \in Channels
    BY DEF LInv, TypeOK, Requests
  <1>5. /\ shown \in Seq(Fitting(open)) /\ \A c \in Channels : cache[c] \in Seq(Fitting(c))
        /\ \A r \in requests : /\ r.found \in Seq(Fitting(r.channel))
                               /\ r.page # None => r.page \in Seq(RowsOf(Home(r.channel)))
        /\ \A p \in posts : PostApart(p)
    BY DEF LInv, ListsApart, RequestsApart, RequestApart, PostsApart, Fitting
  <1> QED
    BY <1>2, <1>3, <1>4, <1>5 DEF LInv, TypeOK

LEMMA FittingGrows ==
    ASSUME Grows
    PROVE  \A c : \A list \in Seq(Fitting(c)) : list \in Seq(Fitting(c)')
  <1>1. \A c : Fitting(c) \subseteq Fitting(c)'
    BY EntriesStay DEF Fitting
  <1> QED
    BY <1>1, SeqMonotonic

LEMMA FittingWithout ==
    \A c, gone : \A list \in Seq(Fitting(c)) : Without(list, gone) \in Seq(Fitting(c))
  <1> SUFFICES ASSUME NEW c, NEW gone, NEW list \in Seq(Fitting(c))
               PROVE  Without(list, gone) \in Seq(Fitting(c))
    OBVIOUS
  <1>1. Without(list, gone) \in Seq(Fitting(c) \ gone)
    BY WithoutLists
  <1> QED
    BY <1>1, SeqMonotonic

LEMMA FittingReplace ==
    \A c, a, e : \A list \in Seq(Fitting(c)) :
        e \in Fitting(c) => Replace(list, a, e) \in Seq(Fitting(c))
  BY ReplaceLists

LEMMA FittingAppend ==
    \A c : \A list \in Seq(Fitting(c)) : \A e \in Fitting(c) : Append(list, e) \in Seq(Fitting(c))
  BY AppendProperties

\* A list of a channel may be merged, whichever was kept for it.
LEMMA FittingMerge ==
    ASSUME attempt \in [Attempts -> Drafts], log \in Seq(Stored),
           NEW c, NEW page \in Seq(RowsOf(Home(c))), NEW list \in Seq(Fitting(c))
    PROVE  /\ AsRows(page) \in Seq(Fitting(c))
           /\ MergeRemoteWithLocals(AsRows(page), list) \in Seq(Fitting(c))
           /\ MergeLatestPage(AsRows(page), list) \in Seq(Fitting(c))
  <1>1. AsRows(page) \in Seq(Fitting(c))
    BY RowsFrom, AsRowsLists DEF Fitting
  <1>2. \A e \in Fitting(c) : Time(e) \in Int
    BY FromTime DEF Fitting
  <1>3. \A e \in Fitting(c) \cap Locals : Local(e.attempt, "failed") \in Fitting(c)
    BY FromFacts DEF Fitting
  <1>4. Fitting(c) \ Locals \subseteq Fitting(c)
    OBVIOUS
  <1> QED
    BY <1>1, <1>2, <1>3, <1>4, MergeLists, LatestLists

LEMMA KeptLists ==
    ASSUME LInv, Grows, open' = open, shown' = shown, cache' = cache
    PROVE  ListsApart'
  BY LInvFacts, FittingGrows DEF ListsApart, Fitting

LEMMA ChangedLists ==
    ASSUME LInv, Grows, open' = open, NEW c \in Channels, NEW list \in Seq(Fitting(c)'),
           Keep(c, list)
    PROVE  ListsApart'
  <1>1. cache \in [Channels -> Seq(Entries)] /\ cache' = [cache EXCEPT ![c] = list]
        /\ shown' = IF open = c THEN list ELSE shown
    BY LInvFacts DEF Keep
  <1>2. \A d \in Channels : cache'[d] = IF d = c THEN list ELSE cache[d]
    BY <1>1
  <1>3. \A d \in Channels : cache'[d] \in Seq(Fitting(d)')
    BY <1>2, LInvFacts, FittingGrows
  <1>4. shown' \in Seq(Fitting(open)')
    BY <1>1, LInvFacts, FittingGrows
  <1> QED
    BY <1>3, <1>4 DEF ListsApart, Fitting

LEMMA CachedLists ==
    ASSUME LInv, Grows, open' = open, NEW c \in Channels, NEW list \in Seq(Fitting(c)),
           shown' \in Seq(Fitting(open)), cache' = [cache EXCEPT ![c] = list]
    PROVE  ListsApart'
  <1>1. list \in Seq(Fitting(c)') /\ shown' \in Seq(Fitting(open)')
    BY FittingGrows
  <1>2. ASSUME NEW d \in Channels PROVE cache'[d] \in Seq(Fitting(d)')
    <2>1. cache[d] \in Seq(Fitting(d))
      BY LInvFacts
    <2>2. cache[d] \in Seq(Fitting(d)')
      BY <2>1, FittingGrows
    <2>3. cache \in [Channels -> Seq(Entries)]
      BY LInvFacts
    <2>4. cache'[d] = IF d = c THEN list ELSE cache[d]
      BY <2>3
    <2> QED
      BY <1>1, <2>2, <2>4
  <1> QED
    BY <1>1, <1>2 DEF ListsApart, Fitting

LEMMA PagesFit ==
    ASSUME LInv, Grows, NEW r \in requests, Answered(r)
    PROVE  ListsApart'
  <1>0. open' = open /\ log' = log /\ attempt' = attempt
    BY DEF Answered, view, sending
  <1>1. r.page # None /\ r.channel \in Channels
        /\ r.page \in Seq(RowsOf(Home(r.channel))) /\ r.found \in Seq(Fitting(r.channel))
        /\ cache[r.channel] \in Seq(Fitting(r.channel))
    BY LInvFacts DEF Answered
  <1>2. attempt \in [Attempts -> Drafts] /\ log \in Seq(Stored)
    BY LInvFacts
  <1>3. CASE UNCHANGED <<lists, torn>>
    BY <1>0, <1>3, KeptLists DEF lists
  <1>4. CASE Arrives(r)
    <2>1. AsRows(r.page) \in Seq(Fitting(r.channel))
      BY <1>1, <1>2, FittingMerge
    <2>2. CASE LatestArrives(r)
      <3> DEFINE old == IF r.forgets THEN <<>> ELSE r.found
                 list == MergeLatestPage(AsRows(r.page), old)
      <3>1. old \in Seq(Fitting(r.channel))
        <4>1. <<>> \in Seq(Fitting(r.channel))
          BY EmptySeq
        <4> QED
          BY <1>1, <4>1
      <3> HIDE DEF old
      <3>2. list \in Seq(Fitting(r.channel))
        BY <1>1, <1>2, <3>1, FittingMerge
      <3>3. Keep(r.channel, list)
        BY <2>2 DEF LatestArrives, old
      <3> HIDE DEF list
      <3> QED
        BY <1>0, <1>1, <3>2, <3>3, ChangedLists, FittingGrows
    <2>3. CASE OlderArrives(r)
      <3> DEFINE list == AsRows(r.page) \o r.found
      <3>1. list \in Seq(Fitting(r.channel))
        BY <1>1, <2>1, ConcatProperties
      <3>2. Keep(r.channel, list)
        BY <2>3 DEF OlderArrives
      <3> HIDE DEF list
      <3> QED
        BY <1>0, <1>1, <3>1, <3>2, ChangedLists, FittingGrows
    <2>4. CASE AroundArrives(r)
      <3>1. CASE r.target \in ToSet(r.page)
        <4>1. Keep(r.channel, AsRows(r.page))
          BY <2>4, <3>1 DEF AroundArrives
        <4> QED
          BY <1>0, <1>1, <2>1, <4>1, ChangedLists, FittingGrows
      <3>2. CASE r.target \notin ToSet(r.page)
        BY <1>0, <2>4, <3>2, KeptLists DEF AroundArrives, lists
      <3> QED
        BY <3>1, <3>2
    <2>5. CASE ReturnArrives(r)
      <3> DEFINE list == MergeRemoteWithLocals(AsRows(r.page), cache[r.channel])
      <3>1. list \in Seq(Fitting(r.channel))
        BY <1>1, <1>2, FittingMerge
      <3>2. Keep(r.channel, list)
        BY <2>5 DEF ReturnArrives
      <3> HIDE DEF list
      <3> QED
        BY <1>0, <1>1, <3>1, <3>2, ChangedLists, FittingGrows
    <2> QED
      BY <1>4, <2>2, <2>3, <2>4, <2>5 DEF Arrives
  <1> QED
    BY <1>3, <1>4 DEF Answered, history

LEMMA OpeningFits ==
    ASSUME LInv, Grows, NEW c \in Channels, OpenChannel(c)
    PROVE  ListsApart'
  <1>1. open' = c /\ cache' = cache /\ (shown' = <<>> \/ shown' = cache[c])
    BY DEF OpenChannel
  <1>2. shown' \in Seq(Fitting(c))
    <2>1. <<>> \in Seq(Fitting(c)) /\ cache[c] \in Seq(Fitting(c))
      BY LInvFacts, EmptySeq
    <2> QED
      BY <1>1, <2>1
  <1> QED
    BY <1>1, <1>2, LInvFacts, FittingGrows DEF ListsApart, Fitting

LEMMA WritingFits ==
    ASSUME LInv, Grows, NEW a \in Attempts, Retry(a) \/ Discard(a) \/ \E t \in Texts : Send(a, t)
    PROVE  ListsApart'
  <1>0. open \in Channels /\ open' = open /\ log' = log
    BY LInvFacts DEF Retry, Discard, Send, OrNone, view
  <1>1. shown \in Seq(Fitting(open))
    BY LInvFacts
  <1>2. CASE Discard(a)
    <2>1. Without(shown, LocalsOf(a)) \in Seq(Fitting(open))
      BY <1>1, FittingWithout
    <2>2. Keep(open, Without(shown, LocalsOf(a)))
      BY <1>2 DEF Discard
    <2> QED
      BY <1>0, <2>1, <2>2, ChangedLists, FittingGrows
  <1>3. CASE Retry(a)
    <2>1. PICK i \in DOMAIN shown : shown[i] = Local(a, "failed")
      BY <1>3 DEF Retry
    <2>2. Local(a, "failed") \in Fitting(open)
      BY <1>1, <2>1, ElementOfSeq
    <2>3. Local(a, "sending") \in Fitting(open)
      BY <2>2, FromFacts, EntryFacts, NoneAssumption DEF Fitting
    <2>4. Replace(shown, a, Local(a, "sending")) \in Seq(Fitting(open))
      BY <1>1, <2>3, FittingReplace
    <2>5. Keep(open, Replace(shown, a, Local(a, "sending")))
      BY <1>3 DEF Retry
    <2> QED
      BY <1>0, <2>4, <2>5, ChangedLists, FittingGrows
  <1>4. ASSUME NEW t \in Texts, Send(a, t) PROVE ListsApart'
    <2> DEFINE kept == Without(shown, {Local(b, "failed") : b \in Saying(t)})
    <2>1. kept \in Seq(Fitting(open)')
      <3>1. kept \in Seq(Fitting(open))
        BY <1>1, FittingWithout
      <3> HIDE DEF kept
      <3> QED
        BY <1>0, <3>1, FittingGrows
    <2>2. Local(a, "sending") \in Fitting(open)'
      <3>1. attempt'[a].channel = open
        BY <1>4, LInvFacts DEF Send
      <3>2. attempt'[a].channel \in Home(open)
        BY <1>0, <3>1, HomesContain
      <3> QED
        BY <1>0, <3>2, EntryFacts, NoneAssumption DEF Fitting, From, Home, Careful
    <2>3. Keep(open, Append(kept, Local(a, "sending")))
      BY <1>4 DEF Send
    <2> HIDE DEF kept
    <2>4. Append(kept, Local(a, "sending")) \in Seq(Fitting(open)')
      BY <2>1, <2>2, AppendProperties
    <2> QED
      BY <1>0, <2>3, <2>4, ChangedLists
  <1> QED
    BY <1>2, <1>3, <1>4

LEMMA AnswersFit ==
    ASSUME LInv, Grows, NEW p \in posts, SendConfirmed(p) \/ SendFails(p)
    PROVE  ListsApart'
  <1> DEFINE a == p.attempt
             c == attempt[a].channel
             list == Listed(c)
  <1>0. /\ a \in Attempts /\ c \in Channels /\ open' = open /\ attempt' = attempt /\ log' = log
        /\ p.row # None => p.row \in RowsOf({c})
    <2>1. PostApart(p) /\ p \in Posts
      BY LInvFacts
    <2> QED
      BY <2>1 DEF SendConfirmed, SendFails, PostApart, Posts, view
  <1>1. list \in Seq(Fitting(c))
    <2>1. CASE open = c
      BY <2>1, LInvFacts DEF Listed
    <2>2. CASE open # c
      BY <1>0, <2>2, LInvFacts DEF Listed
    <2> QED
      BY <2>1, <2>2
  <1>2. c \in Home(c)
    BY <1>0, HomesContain
  <1>3. CASE SendFails(p)
    <2>1. Local(a, "failed") \in Fitting(c)
      BY <1>0, <1>2, LocalsFrom DEF Fitting
    <2>2. ApplyFailed(list, a) \in Seq(Fitting(c))
      BY <1>1, <2>1, FittingReplace DEF ApplyFailed
    <2>3. Keep(c, ApplyFailed(list, a))
      BY <1>3 DEF SendFails
    <2> HIDE DEF a, c, list
    <2> QED
      BY <1>0, <2>2, <2>3, ChangedLists, FittingGrows
  <1>4. CASE SendConfirmed(p)
    <2> DEFINE n == p.row
               confirmed == IF p.retry THEN ApplyRetried(list, a, n) ELSE Reconcile(list, a, n)
    <2>1. Row(n) \in Fitting(c)
      <3>1. n \in RowsOf({c})
        BY <1>0, <1>4 DEF SendConfirmed
      <3>2. n \in RowsOf(Home(c))
        BY <1>2, <3>1 DEF RowsOf
      <3> QED
        BY <3>2, LInvFacts, RowsFrom DEF Fitting
    <2>2. Keep(c, confirmed)
      BY <1>4 DEF SendConfirmed
    <2> HIDE DEF a, c, list, n
    <2>3. /\ Without(list, LocalsOf(a)) \in Seq(Fitting(c))
          /\ Replace(list, a, Row(n)) \in Seq(Fitting(c))
          /\ Append(list, Row(n)) \in Seq(Fitting(c))
      BY <1>1, <2>1, FittingWithout, FittingReplace, FittingAppend
    <2>4. confirmed \in Seq(Fitting(c))
      BY <2>3 DEF ApplyRetried, Reconcile
    <2> HIDE DEF confirmed
    <2> QED
      BY <1>0, <2>2, <2>4, ChangedLists, FittingGrows
  <1> QED
    BY <1>3, <1>4

\* Without the other channel's answer, the list on the screen is the request's.
LEMMA DeletionFits ==
    ASSUME LInv, Grows, NEW q \in removals, DeleteConfirmed(q)
    PROVE  ListsApart'
  <1>0. open' = open /\ q.channel \in Channels
    BY LInvFacts DEF DeleteConfirmed, view, Removals
  <1>1. shown' \in Seq(Fitting(open))
    <2>1. shown \in Seq(Fitting(open)) /\ shown' = Without(shown, {Row(q.row)})
      BY LInvFacts DEF DeleteConfirmed
    <2> QED
      BY <2>1, FittingWithout
  <1>2. Home(q.channel) = Home(open)
    <2>1. Careful => q.channel = open
      BY DEF LInv, Stays
    <2> QED
      BY <2>1 DEF Home
  <1>3. Fitting(q.channel) = Fitting(open)
    BY <1>2 DEF Fitting
  <1>4. shown' \in Seq(Fitting(q.channel)) /\ cache' = [cache EXCEPT ![q.channel] = shown']
    BY <1>1, <1>3 DEF DeleteConfirmed
  <1> QED
    BY <1>0, <1>1, <1>4, CachedLists

LEMMA EventsFit ==
    ASSUME LInv, Grows, HandleEvent
    PROVE  ListsApart'
  <1> DEFINE n == Head(down).id
             c == log[n].channel
  <1>0. open' = open /\ (NewMessage(n) \/ MessageDeleted(n))
    BY DEF HandleEvent
  <1>1. n \in Rows /\ c \in Channels /\ cache[c] \in Seq(Fitting(c)) /\ Row(n) \in Fitting(c)
    <2>1. down \in Seq([type : {"new", "deleted"}, id : Rows]) /\ down # <<>>
      BY DEF LInv, TypeOK, HandleEvent
    <2>2. Head(down) \in [type : {"new", "deleted"}, id : Rows]
      BY <2>1, HeadTailProperties
    <2>3. n \in Rows
      BY <2>2
    <2>4. c \in Channels /\ cache[c] \in Seq(Fitting(c))
      BY <2>3, LInvFacts
    <2>5. n \in RowsOf(Home(c))
      BY <2>3, <2>4, HomesContain DEF RowsOf
    <2>6. Row(n) \in Fitting(c)
      BY <2>5, LInvFacts, RowsFrom DEF Fitting
    <2> QED
      BY <2>3, <2>4, <2>6
  <1> HIDE DEF n
  <1>2. CASE NewMessage(n)
    <2>1. CASE c = open /\ active
      <3> DEFINE awaited == IF log[n].request = None THEN {}
                            ELSE {Local(a, "sending") : a \in Saying(attempt[log[n].request].text)}
                 list == Append(Without(shown, awaited), Row(n))
      <3>1. UNCHANGED <<shown, cache>> \/ Keep(c, list)
        BY <1>2, <2>1 DEF NewMessage
      <3> HIDE DEF awaited
      <3>2. Without(shown, awaited) \in Seq(Fitting(c))
        BY <2>1, LInvFacts, FittingWithout
      <3>3. list \in Seq(Fitting(c))
        BY <1>1, <3>2, FittingAppend
      <3> HIDE DEF list
      <3> QED
        BY <1>0, <1>1, <3>1, <3>3, KeptLists, ChangedLists, FittingGrows
    <2>2. CASE ~(c = open /\ active)
      <3>1. shown' = shown /\ (cache' = cache \/ cache' = [cache EXCEPT ![c] = Append(@, Row(n))])
        BY <1>2, <2>2 DEF NewMessage
      <3>2. CASE cache' = cache
        BY <1>0, <3>1, <3>2, KeptLists
      <3>3. CASE cache' = [cache EXCEPT ![c] = Append(@, Row(n))]
        <4> DEFINE list == Append(cache[c], Row(n))
        <4>1. list \in Seq(Fitting(c))
          BY <1>1, FittingAppend
        <4>2. cache' = [cache EXCEPT ![c] = list]
          BY <3>3
        <4>3. shown' \in Seq(Fitting(open))
          BY <3>1, LInvFacts
        <4> HIDE DEF list
        <4> QED
          BY <1>0, <1>1, <4>1, <4>2, <4>3, CachedLists
      <3> QED
        BY <3>1, <3>2, <3>3
    <2> QED
      BY <2>1, <2>2
  <1>3. CASE MessageDeleted(n)
    <2> DEFINE list == Without(cache[c], {Row(n)})
    <2>1. /\ shown' = shown \/ shown' = Without(shown, {Row(n)})
          /\ cache' = [cache EXCEPT ![c] = list]
      BY <1>3 DEF MessageDeleted
    <2>2. list \in Seq(Fitting(c))
      BY <1>1, FittingWithout
    <2>3. shown \in Seq(Fitting(open)) /\ Without(shown, {Row(n)}) \in Seq(Fitting(open))
      BY LInvFacts, FittingWithout
    <2> HIDE DEF list
    <2> QED
      BY <1>0, <1>1, <2>1, <2>2, <2>3, CachedLists
  <1> QED
    BY <1>0, <1>2, <1>3

LEMMA ListsApartKept ==
    ASSUME LInv, [Next]_vars
    PROVE  ListsApart'
  <1>0. Grows
    BY Growing
  <1>1. CASE UNCHANGED vars
    BY <1>0, <1>1, KeptLists DEF vars, view, lists
  <1>2. CASE LinkStep \/ LeaveView \/ ReturnToView
    <2>1. open' = open /\ UNCHANGED lists
      BY <1>2 DEF LinkStep, Connects, Subscribes, Disconnects, GivesUp, SeeksConnection, LeaveView,
         ReturnToView, view, lists
    <2> QED
      BY <1>0, <2>1, KeptLists DEF lists
  <1>3. CASE LoadOlder \/ ReturnToLatest \/ (\E n \in Rows : JumpTo(n))
             \/ (\E r \in requests : ReadPage(r) \/ RequestFails(r))
    <2>1. open' = open /\ UNCHANGED lists
      BY <1>3 DEF LoadOlder, ReturnToLatest, JumpTo, ReadPage, RequestFails, view, lists
    <2> QED
      BY <1>0, <2>1, KeptLists DEF lists
  <1>4. ASSUME NEW p \in posts, Store(p) PROVE ListsApart'
    <2>1. open' = open /\ UNCHANGED lists
      BY <1>4 DEF Store, view, lists
    <2> QED
      BY <1>0, <2>1, KeptLists DEF lists
  <1>5. CASE \/ \E n \in Rows : DeleteMessage(n) \/ IsDeleted(n)
             \/ \E q \in removals : Delete(q) \/ DeleteRefused(q)
             \/ \E c \in Channels : OtherPosts(c)
    <2>1. open' = open /\ UNCHANGED lists
      BY <1>5 DEF DeleteMessage, IsDeleted, Delete, DeleteRefused, OtherPosts, view, lists
    <2> QED
      BY <1>0, <2>1, KeptLists DEF lists
  <1> QED
    BY <1>0, <1>1, <1>2, <1>3, <1>4, <1>5, PagesFit, OpeningFits, WritingFits, AnswersFit,
       DeletionFits, EventsFit DEF Next, ListStep, SendStep

-----------------------------------------------------------------------------
(* The requests for messages, and the pages read for them *)

Asked(s) == \E kind \in Kinds, c \in Channels, target \in OrNone(Nat) : s = Request(kind, c, target)
Superseded(s) == \E r \in requests : s = [r EXCEPT !.current = FALSE]
Replied(s) == \E r \in requests : r.page = None /\ s = [r EXCEPT !.page = Ascending(ServerPage(r))]
RequestMoves == \A s \in requests' : s \in requests \/ Asked(s) \/ Superseded(s) \/ Replied(s)

LEMMA AskMoves ==
    ASSUME NEW kind \in Kinds, NEW c \in Channels, NEW target \in OrNone(Nat), Ask(kind, c, target)
    PROVE  RequestMoves
  BY DEF Ask, RequestMoves, Asked, Superseded

LEMMA EachRequest ==
    ASSUME LInv, [Next]_vars
    PROVE  RequestMoves
  <1>0. open \in OrNone(Channels) /\ None \in OrNone(Nat) /\ Rows \subseteq Nat
    BY LInvFacts DEF OrNone
  <1>1. ASSUME UNCHANGED requests PROVE RequestMoves
    BY <1>1 DEF RequestMoves
  <1>2. CASE UNCHANGED vars
    BY <1>1, <1>2 DEF vars
  <1>3. CASE Subscribes \/ Disconnects \/ GivesUp \/ SeeksConnection \/ LeaveView \/ ReturnToView
             \/ HandleEvent
    BY <1>1, <1>3 DEF Subscribes, Disconnects, GivesUp, SeeksConnection, LeaveView, ReturnToView,
       HandleEvent
  <1>4. CASE Connects
    <2>1. CASE UNCHANGED requests
      BY <1>1, <2>1
    <2>2. CASE open # None /\ Ask("refresh", open, None)
      BY <1>0, <2>2, AskMoves DEF OrNone, Kinds
    <2> QED
      BY <1>4, <2>1, <2>2 DEF Connects
  <1>5. ASSUME NEW c \in Channels, OpenChannel(c) PROVE RequestMoves
    BY <1>0, <1>5, AskMoves DEF OpenChannel, Kinds
  <1>6. CASE LoadOlder
    <2>1. open \in Channels /\ cache[open] \in Seq(Entries) /\ cache[open] # <<>> /\ cache[open][1].id # None
      BY <1>0, <1>6, LInvFacts DEF LoadOlder, OrNone
    <2>2. cache[open][1] \in Entries
      BY <2>1
    <2>3. cache[open][1].id \in OrNone(Nat)
      BY <2>1, <2>2, EntryFacts DEF OrNone
    <2>4. requests' = requests \cup {Request("older", open, cache[open][1].id)}
      BY <1>6 DEF LoadOlder
    <2> QED
      BY <2>1, <2>3, <2>4 DEF RequestMoves, Asked, Kinds
  <1>7. CASE ReturnToLatest
    BY <1>0, <1>7, AskMoves DEF ReturnToLatest, OrNone, Kinds
  <1>8. ASSUME NEW n \in Rows, JumpTo(n) PROVE RequestMoves
    BY <1>0, <1>8, AskMoves DEF JumpTo, OrNone, Kinds
  <1>9. ASSUME NEW r \in requests, ReadPage(r) PROVE RequestMoves
    BY <1>9 DEF ReadPage, RequestMoves, Replied
  <1>10. ASSUME NEW r \in requests, Answered(r) \/ RequestFails(r) PROVE RequestMoves
    BY <1>10 DEF Answered, RequestFails, RequestMoves
  <1>11. ASSUME NEW a \in Attempts, Retry(a) \/ Discard(a) \/ \E t \in Texts : Send(a, t)
         PROVE  RequestMoves
    BY <1>1, <1>11 DEF Retry, Discard, Send
  <1>12. ASSUME NEW p \in posts, Store(p) \/ SendConfirmed(p) \/ SendFails(p)
         PROVE  RequestMoves
    BY <1>1, <1>12 DEF Store, SendConfirmed, SendFails
  <1>13. CASE \/ \E n \in Rows : DeleteMessage(n) \/ IsDeleted(n)
              \/ \E q \in removals : Delete(q) \/ DeleteRefused(q) \/ DeleteConfirmed(q)
              \/ \E c \in Channels : OtherPosts(c)
    BY <1>1, <1>13 DEF DeleteMessage, IsDeleted, Delete, DeleteRefused, DeleteConfirmed, OtherPosts
  <1> QED
    BY <1>2, <1>3, <1>4, <1>5, <1>6, <1>7, <1>8, <1>9, <1>10, <1>11, <1>12, <1>13
       DEF Next, LinkStep, ListStep, SendStep

LEMMA PageFits ==
    ASSUME LInv, NEW r \in requests
    PROVE  /\ Ascending(ServerPage(r)) \in Seq(RowsOf(Home(r.channel)))
           /\ Ascending(ServerPage(r)) \in Seq(Nat)
  <1>1. r.channel \in Home(r.channel) /\ Rows \subseteq Nat
    BY LInvFacts, HomesContain
  <1>2. ServerPage(r) \subseteq Present(r.channel)
    BY DEF ServerPage, LastOf, FirstOf
  <1>3. Present(r.channel) \subseteq RowsOf(Home(r.channel))
    BY <1>1 DEF Present, RowsOf
  <1>4. IsFiniteSet(Rows)
    <2>1. Rows = 1 .. Len(log) /\ Len(log) \in Nat
      BY LInvFacts DEF Rows
    <2> QED
      BY <2>1, FS_Interval
  <1>5. ServerPage(r) \in SUBSET Rows
    BY <1>2, <1>3 DEF RowsOf
  <1>6. IsFiniteSet(ServerPage(r))
    BY <1>4, <1>5, FS_Subset
  <1>7. Ascending(ServerPage(r)) \in Seq(ServerPage(r))
    BY <1>1, <1>5, <1>6, AscendingLists
  <1> QED
    BY <1>1, <1>2, <1>3, <1>5, <1>7, SeqMonotonic

LEMMA RequestsKept ==
    ASSUME LInv, [Next]_vars
    PROVE  requests' \subseteq Requests /\ RequestsApart'
  <1>0. Grows /\ RequestMoves /\ requests \subseteq Requests
    BY Growing, EachRequest, LInvFacts
  <1> SUFFICES ASSUME NEW s \in requests' PROVE s \in Requests /\ RequestApart(s)'
    BY DEF RequestsApart
  <1>1. ASSUME NEW r \in requests
        PROVE  /\ r.channel \in Channels
               /\ r.found \in Seq(From(Home(r.channel))')
               /\ r.page # None => r.page \in Seq(RowsOf(Home(r.channel))')
    <2>1. /\ r.channel \in Channels
          /\ r.found \in Seq(Fitting(r.channel))
          /\ r.page # None => r.page \in Seq(RowsOf(Home(r.channel)))
      BY LInvFacts
    <2>2. r.found \in Seq(Fitting(r.channel)')
      BY <1>0, <2>1, FittingGrows
    <2>3. RowsOf(Home(r.channel)) \subseteq RowsOf(Home(r.channel))'
      BY <1>0, EntriesStay
    <2> QED
      BY <2>1, <2>2, <2>3, SeqMonotonic DEF Fitting
  <1>2. CASE s \in requests
    BY <1>0, <1>1, <1>2 DEF RequestApart
  <1>3. CASE Superseded(s)
    <2>1. PICK r \in requests : s = [r EXCEPT !.current = FALSE]
      BY <1>3 DEF Superseded
    <2>2. s \in Requests /\ s.channel = r.channel /\ s.found = r.found /\ s.page = r.page
      BY <1>0, <2>1 DEF Requests
    <2> QED
      BY <1>1, <2>2 DEF RequestApart
  <1>4. CASE Replied(s)
    <2>1. PICK r \in requests : s = [r EXCEPT !.page = Ascending(ServerPage(r))]
      BY <1>4 DEF Replied
    <2> DEFINE page == Ascending(ServerPage(r))
    <2>2. page \in Seq(RowsOf(Home(r.channel))) /\ page \in Seq(Nat)
      BY PageFits
    <2>3. s = [r EXCEPT !.page = page]
      BY <2>1
    <2> HIDE DEF page
    <2>4. s \in Requests /\ s.channel = r.channel /\ s.found = r.found /\ s.page = page
      BY <1>0, <2>2, <2>3 DEF Requests, OrNone
    <2>5. page \in Seq(RowsOf(Home(r.channel))')
      BY <1>0, <2>2, EntriesStay, SeqMonotonic
    <2> QED
      BY <1>1, <2>4, <2>5 DEF RequestApart
  <1>5. CASE Asked(s)
    <2>1. PICK kind \in Kinds, c \in Channels, target \in OrNone(Nat) : s = Request(kind, c, target)
      BY <1>5 DEF Asked
    <2>2. cache[c] \in Seq(Fitting(c)) /\ cache[c] \in Seq(Entries)
      BY LInvFacts
    <2>3. s \in Requests /\ s.channel = c /\ s.found = cache[c] /\ s.page = None
      BY <2>1, <2>2 DEF Request, Requests, OrNone
    <2>4. cache[c] \in Seq(Fitting(c)')
      BY <1>0, <2>2, FittingGrows
    <2> QED
      BY <2>3, <2>4 DEF RequestApart, Fitting
  <1> QED
    BY <1>0, <1>2, <1>3, <1>4, <1>5 DEF RequestMoves

-----------------------------------------------------------------------------
(* The requests to send and to delete *)

AskedToSend(s) ==
    \E a \in Attempts, retry \in BOOLEAN :
        /\ s = [attempt |-> a, retry |-> retry, row |-> None]
        /\ attempt'[a].channel \in Channels
NowStored(s) ==
    \E p \in posts, n \in Rows' :
        /\ s = [p EXCEPT !.row = n]
        /\ log'[n].request = p.attempt
        /\ attempt' = attempt
PostMoves == \A s \in posts' : s \in posts \/ AskedToSend(s) \/ NowStored(s)

LEMMA RetryMoves ==
    ASSUME LInv, NEW a \in Attempts, Retry(a)
    PROVE  PostMoves
  <1>1. PICK i \in DOMAIN shown : shown[i] = Local(a, "failed")
    BY DEF Retry
  <1>2. shown \in Seq(Fitting(open)) /\ attempt' = attempt
    BY LInvFacts DEF Retry
  <1>3. Local(a, "failed") \in Fitting(open)
    BY <1>1, <1>2, ElementOfSeq
  <1>4. attempt[a].channel \in Channels
    BY <1>3, EntryFacts, NoneAssumption, HomesAreChannels DEF Fitting, From
  <1>5. posts' = posts \cup {[attempt |-> a, retry |-> TRUE, row |-> None]}
    BY DEF Retry
  <1> QED
    BY <1>2, <1>4, <1>5 DEF PostMoves, AskedToSend

LEMMA SendMoves ==
    ASSUME LInv, NEW a \in Attempts, NEW t \in Texts, Send(a, t)
    PROVE  PostMoves
  <1>1. open \in Channels /\ attempt \in [Attempts -> Drafts]
    BY LInvFacts DEF Send, OrNone
  <1>2. attempt' = [attempt EXCEPT ![a] = [channel |-> open, text |-> t, born |-> Len(log)]]
        /\ posts' = posts \cup {[attempt |-> a, retry |-> FALSE, row |-> None]}
    BY DEF Send
  <1>3. attempt'[a].channel = open
    BY <1>1, <1>2
  <1> QED
    BY <1>1, <1>2, <1>3 DEF PostMoves, AskedToSend

LEMMA StoreMoves ==
    ASSUME LInv, [Next]_vars, NEW p \in posts, Store(p)
    PROVE  PostMoves
  <1>0. p \in Posts /\ p.attempt \in Attempts /\ attempt' = attempt
        /\ log \in Seq(Stored) /\ Rows \subseteq Rows'
    <2>1. p \in Posts
      BY LInvFacts
    <2> QED
      BY <2>1, LInvFacts, LogKept DEF Store, Posts
  <1>1. CASE RequestedRows(p.attempt) # {} /\ log' = log
    <2>1. PICK n \in RequestedRows(p.attempt) : Answer(p, n)
      BY <1>1 DEF Store
    <2>2. n \in Rows' /\ log'[n].request = p.attempt
      BY <1>0, <1>1, <2>1 DEF RequestedRows
    <2> QED
      BY <1>0, <2>1, <2>2 DEF PostMoves, NowStored, Answer
  <1>2. CASE StoreMessage(attempt[p.attempt].channel, p.attempt) /\ Answer(p, Len(log'))
    <2> DEFINE e == [channel |-> attempt[p.attempt].channel, request |-> p.attempt, present |-> TRUE]
    <2>1. log' = Append(log, e) /\ e.request = p.attempt
      BY <1>2 DEF StoreMessage
    <2>2. e \in Stored
      <3>1. PostApart(p)
        BY LInvFacts
      <3> QED
        BY <1>0, <3>1 DEF Stored, OrNone, PostApart
    <2> HIDE DEF e
    <2>3. Len(log') \in DOMAIN log' /\ log'[Len(log')] = e
      BY <1>0, <2>1, <2>2
    <2> QED
      BY <1>0, <1>2, <2>1, <2>3 DEF PostMoves, NowStored, Answer, Rows
  <1> QED
    BY <1>1, <1>2 DEF Store

LEMMA EachPost ==
    ASSUME LInv, [Next]_vars
    PROVE  PostMoves
  <1>1. ASSUME posts' \subseteq posts PROVE PostMoves
    BY <1>1 DEF PostMoves
  <1>2. CASE UNCHANGED vars
    BY <1>1, <1>2 DEF vars, sending
  <1>3. CASE LinkStep \/ LeaveView \/ ReturnToView \/ HandleEvent
    BY <1>1, <1>3 DEF LinkStep, Connects, Subscribes, Disconnects, GivesUp, SeeksConnection, LeaveView,
       ReturnToView, HandleEvent, sending
  <1>4. CASE ListStep
    BY <1>1, <1>4 DEF ListStep, OpenChannel, LoadOlder, ReturnToLatest, JumpTo, ReadPage, Answered,
       RequestFails, sending
  <1>5. ASSUME NEW p \in posts, SendConfirmed(p) \/ SendFails(p) PROVE PostMoves
    BY <1>1, <1>5 DEF SendConfirmed, SendFails
  <1>6. CASE \/ \E n \in Rows : DeleteMessage(n) \/ IsDeleted(n)
             \/ \E q \in removals : Delete(q) \/ DeleteRefused(q) \/ DeleteConfirmed(q)
             \/ \E c \in Channels : OtherPosts(c)
             \/ \E a \in Attempts : Discard(a)
    BY <1>1, <1>6 DEF DeleteMessage, IsDeleted, Delete, DeleteRefused, DeleteConfirmed, OtherPosts,
       Discard, sending
  <1> QED
    BY <1>2, <1>3, <1>4, <1>5, <1>6, RetryMoves, SendMoves, StoreMoves DEF Next, SendStep

LEMMA PostsKept ==
    ASSUME LInv, [Next]_vars
    PROVE  posts' \subseteq Posts /\ PostsApart'
  <1>0. Grows /\ PostMoves /\ posts \subseteq Posts /\ LogApart' /\ log' \in Seq(Stored)
    BY Growing, EachPost, LInvFacts, LogApartKept, LogKept
  <1> SUFFICES ASSUME NEW s \in posts' PROVE s \in Posts /\ PostApart(s)'
    BY DEF PostsApart
  <1>1. CASE s \in posts
    <2>1. s \in Posts /\ PostApart(s) /\ s.attempt \in Attempts
      BY <1>0, <1>1, LInvFacts DEF Posts
    <2>2. attempt'[s.attempt].channel = attempt[s.attempt].channel
      BY <1>0, <2>1 DEF Grows, PostApart
    <2>3. \A n \in RowsOf({attempt[s.attempt].channel}) : n \in RowsOf({attempt[s.attempt].channel})'
      BY <1>0, <2>1, <2>2 DEF RowsOf, Grows
    <2> QED
      BY <2>1, <2>2, <2>3 DEF PostApart
  <1>2. CASE AskedToSend(s)
    BY <1>2 DEF AskedToSend, Posts, OrNone, PostApart
  <1>3. CASE NowStored(s)
    <2>1. PICK p \in posts, n \in Rows' :
              /\ s = [p EXCEPT !.row = n]
              /\ log'[n].request = p.attempt
              /\ attempt' = attempt
      BY <1>3 DEF NowStored
    <2>2. p \in Posts /\ p.attempt \in Attempts /\ attempt[p.attempt].channel \in Channels
      BY <1>0, LInvFacts DEF Posts, PostApart
    <2>3. n \in Nat
      BY <1>0 DEF Rows
    <2>4. s \in Posts /\ s.attempt = p.attempt /\ s.row = n
      BY <2>1, <2>2, <2>3 DEF Posts, OrNone
    <2>5. log'[n].channel = attempt'[p.attempt].channel
      BY <1>0, <2>1, <2>2, NoneAssumption DEF LogApart
    <2> QED
      BY <2>1, <2>2, <2>4, <2>5 DEF PostApart, RowsOf
  <1> QED
    BY <1>0, <1>1, <1>2, <1>3 DEF PostMoves

RemovalMoves ==
    \A s \in removals' :
        \/ s \in removals
        \/ \E n \in Rows : s = [row |-> n, channel |-> open, done |-> FALSE]
                             /\ open \in Channels /\ left["delete"] > 0
        \/ \E q \in removals : s = [q EXCEPT !.done = TRUE]

LEMMA EachRemoval ==
    ASSUME LInv, [Next]_vars
    PROVE  RemovalMoves
  <1>0. open \in OrNone(Channels)
    BY LInvFacts
  <1>1. ASSUME removals' \subseteq removals PROVE RemovalMoves
    BY <1>1 DEF RemovalMoves
  <1>2. CASE UNCHANGED vars
    BY <1>1, <1>2 DEF vars, sending
  <1>3. CASE LinkStep \/ LeaveView \/ ReturnToView \/ HandleEvent
    BY <1>1, <1>3 DEF LinkStep, Connects, Subscribes, Disconnects, GivesUp, SeeksConnection, LeaveView,
       ReturnToView, HandleEvent, sending
  <1>4. CASE ListStep
    BY <1>1, <1>4 DEF ListStep, OpenChannel, LoadOlder, ReturnToLatest, JumpTo, ReadPage, Answered,
       RequestFails, sending
  <1>5. ASSUME NEW p \in posts, Store(p) \/ SendConfirmed(p) \/ SendFails(p) PROVE RemovalMoves
    BY <1>1, <1>5 DEF Store, SendConfirmed, SendFails
  <1>6. ASSUME NEW a \in Attempts, Retry(a) \/ Discard(a) \/ \E t \in Texts : Send(a, t)
        PROVE  RemovalMoves
    BY <1>1, <1>6 DEF Retry, Discard, Send, sending
  <1>7. CASE \/ \E n \in Rows : IsDeleted(n)
             \/ \E q \in removals : DeleteRefused(q) \/ DeleteConfirmed(q)
             \/ \E c \in Channels : OtherPosts(c)
    BY <1>1, <1>7 DEF IsDeleted, DeleteRefused, DeleteConfirmed, OtherPosts, sending
  <1>8. ASSUME NEW n \in Rows, DeleteMessage(n) PROVE RemovalMoves
    BY <1>0, <1>8 DEF DeleteMessage, Spend, RemovalMoves, OrNone
  <1>9. ASSUME NEW q \in removals, Delete(q) PROVE RemovalMoves
    BY <1>9 DEF Delete, RemovalMoves
  <1> QED
    BY <1>2, <1>3, <1>4, <1>5, <1>6, <1>7, <1>8, <1>9 DEF Next, SendStep

LEMMA RemovalsKept ==
    ASSUME LInv, [Next]_vars
    PROVE  removals' \subseteq Removals /\ RemovalsKnown'
  <1>0. RemovalMoves /\ removals \subseteq Removals /\ Rows \subseteq Nat /\ Rows \subseteq Rows'
    BY EachRemoval, LInvFacts, LogKept
  <1>1. \A q \in removals : q.row \in Rows
    BY DEF LInv, RemovalsKnown
  <1> SUFFICES ASSUME NEW s \in removals' PROVE s \in Removals /\ s.row \in Rows'
    BY DEF RemovalsKnown
  <1>2. CASE s \in removals
    BY <1>0, <1>1, <1>2
  <1>3. ASSUME NEW n \in Rows, s = [row |-> n, channel |-> open, done |-> FALSE], open \in Channels
        PROVE  s \in Removals /\ s.row \in Rows'
    BY <1>0, <1>3 DEF Removals
  <1>4. ASSUME NEW q \in removals, s = [q EXCEPT !.done = TRUE]
        PROVE  s \in Removals /\ s.row \in Rows'
    <2>1. q \in Removals /\ q.row \in Rows
      BY <1>0, <1>1
    <2>2. s \in Removals /\ s.row = q.row
      BY <1>4, <2>1 DEF Removals
    <2> QED
      BY <1>0, <2>1, <2>2
  <1> QED
    BY <1>0, <1>2, <1>3, <1>4 DEF RemovalMoves

-----------------------------------------------------------------------------
(* The user, the events and the counters *)

Spent == left' = left \/ \E what \in Budgets : Spend(what)
Opened == open' \in Channels /\ Spend("open") /\ removals' = removals

LEMMA BudgetNames ==
    /\ "open" \in Budgets /\ "leave" \in Budgets /\ "send" \in Budgets /\ "retry" \in Budgets
    /\ "discard" \in Budgets /\ "delete" \in Budgets /\ "older" \in Budgets /\ "jump" \in Budgets
    /\ "post" \in Budgets /\ "remove" \in Budgets /\ "drop" \in Budgets /\ "fail" \in Budgets
  BY DEF Budgets

LEMMA EachSpent ==
    ASSUME [Next]_vars
    PROVE  Spent
  <1>1. ASSUME UNCHANGED left PROVE Spent
    BY <1>1 DEF Spent
  <1>2. ASSUME NEW what \in Budgets, Spend(what) PROVE Spent
    BY <1>2 DEF Spent
  <1>3. CASE UNCHANGED vars
    BY <1>1, <1>3 DEF vars
  <1>4. CASE LinkStep \/ LeaveView \/ ReturnToView \/ HandleEvent
    BY <1>1, <1>2, <1>4, BudgetNames DEF LinkStep, Connects, Subscribes, Disconnects, GivesUp,
       SeeksConnection, LeaveView, ReturnToView, HandleEvent
  <1>5. CASE ListStep
    BY <1>1, <1>2, <1>5, BudgetNames DEF ListStep, OpenChannel, LoadOlder, ReturnToLatest, JumpTo,
       ReadPage, Answered, RequestFails
  <1>6. CASE SendStep
    BY <1>1, <1>2, <1>6, BudgetNames DEF SendStep, Retry, Discard, Send, Store, SendConfirmed,
       SendFails, DeleteMessage, Delete, DeleteRefused, DeleteConfirmed
  <1>7. CASE (\E c \in Channels : OtherPosts(c)) \/ (\E n \in Rows : IsDeleted(n))
    BY <1>2, <1>7, BudgetNames DEF OtherPosts, IsDeleted
  <1> QED
    BY <1>3, <1>4, <1>5, <1>6, <1>7 DEF Next

LEMMA EachOpened ==
    ASSUME [Next]_vars
    PROVE  open' = open \/ Opened
  <1>1. CASE UNCHANGED vars
    BY <1>1 DEF vars, view
  <1>2. CASE LinkStep \/ LeaveView \/ ReturnToView \/ HandleEvent
    BY <1>2 DEF LinkStep, Connects, Subscribes, Disconnects, GivesUp, SeeksConnection, LeaveView,
       ReturnToView, HandleEvent, view
  <1>3. ASSUME NEW c \in Channels, OpenChannel(c) PROVE Opened
    BY <1>3 DEF OpenChannel, Opened, sending
  <1>4. CASE \/ LoadOlder \/ ReturnToLatest
             \/ \E n \in Rows : JumpTo(n)
             \/ \E r \in requests : ReadPage(r) \/ Answered(r) \/ RequestFails(r)
    BY <1>4 DEF LoadOlder, ReturnToLatest, JumpTo, ReadPage, Answered, RequestFails, view
  <1>5. CASE SendStep
    BY <1>5 DEF SendStep, Retry, Discard, Send, Store, SendConfirmed,
       SendFails, DeleteMessage, Delete, DeleteRefused, DeleteConfirmed, view
  <1>6. CASE (\E c \in Channels : OtherPosts(c)) \/ (\E n \in Rows : IsDeleted(n))
    BY <1>6 DEF OtherPosts, IsDeleted, view
  <1> QED
    BY <1>1, <1>2, <1>3, <1>4, <1>5, <1>6 DEF Next, ListStep

LEMMA StaysKept ==
    ASSUME LInv, [Next]_vars
    PROVE  left' \in [Budgets -> Nat] /\ Stays'
  <1>0. left \in [Budgets -> Nat] /\ Stays /\ RemovalMoves /\ Spent /\ removals \subseteq Removals
    BY EachRemoval, EachSpent DEF LInv, TypeOK
  <1>1. left' \in [Budgets -> Nat] /\ \A what \in Budgets : left'[what] <= left[what]
    BY <1>0 DEF Spent, Spend
  <1>2. "open" \in Budgets /\ "delete" \in Budgets
    BY BudgetNames
  <1> SUFFICES ASSUME Careful
               PROVE  \/ left'["delete"] = 0 /\ removals' = {}
                      \/ open' = None /\ left'["open"] <= 1 /\ removals' = {}
                      \/ left'["open"] = 0 /\ \A q \in removals' : q.channel = open'
    BY <1>1 DEF Stays, Careful
  <1>3. open' = open \/ Opened
    BY EachOpened
  <1>4. CASE left["delete"] = 0 /\ removals = {}
    <2>1. left'["delete"] = 0
      BY <1>1, <1>2, <1>4
    <2>2. removals' = {}
      BY <1>0, <1>4 DEF RemovalMoves
    <2> QED
      BY <2>1, <2>2
  <1>5. CASE open = None /\ left["open"] <= 1 /\ removals = {}
    <2>1. removals' = {}
      BY <1>0, <1>5, NoneAssumption DEF RemovalMoves
    <2>2. CASE open' = open
      <3>1. left["open"] \in Nat /\ left'["open"] \in Nat /\ left'["open"] <= left["open"]
        BY <1>0, <1>1, <1>2
      <3> QED
        BY <1>5, <2>1, <2>2, <3>1
    <2>3. CASE Opened
      <3>1. left'["open"] = 0
        BY <1>0, <1>2, <1>5, <2>3 DEF Opened, Spend
      <3> QED
        BY <2>1, <3>1
    <2> QED
      BY <1>3, <2>2, <2>3
  <1>6. CASE left["open"] = 0 /\ \A q \in removals : q.channel = open
    <2>1. left'["open"] = 0
      BY <1>1, <1>2, <1>6
    <2>2. open' = open
      BY <1>0, <1>2, <1>3, <1>6 DEF Opened, Spend
    <2>3. ASSUME NEW s \in removals' PROVE s.channel = open
      <3>1. ASSUME NEW q \in removals, s = [q EXCEPT !.done = TRUE] PROVE s.channel = open
        <4>1. q \in Removals /\ q.channel = open
          BY <1>0, <1>6
        <4> QED
          BY <3>1, <4>1 DEF Removals
      <3>2. ASSUME NEW n \in Rows, s = [row |-> n, channel |-> open, done |-> FALSE]
            PROVE  s.channel = open
        BY <3>2
      <3> QED
        BY <1>0, <1>6, <3>1, <3>2 DEF RemovalMoves
    <2> QED
      BY <2>1, <2>2, <2>3
  <1> QED
    BY <1>0, <1>4, <1>5, <1>6 DEF Stays

Notices(S) == [type : {"new", "deleted"}, id : S]
DownMoves ==
    \/ down' = down \/ down' = <<>> \/ (down # <<>> /\ down' = Tail(down))
    \/ \E n \in Rows', type \in {"new", "deleted"} : down' = Append(down, [type |-> type, id |-> n])

LEMMA WrittenLast ==
    ASSUME LInv, NEW c \in Channels, NEW q \in OrNone(Attempts), StoreMessage(c, q)
    PROVE  Len(log') \in Rows' /\ DownMoves
  <1> DEFINE e == [channel |-> c, request |-> q, present |-> TRUE]
  <1>1. log \in Seq(Stored) /\ e \in Stored /\ log' = Append(log, e)
    BY LInvFacts DEF StoreMessage, Stored
  <1> HIDE DEF e
  <1>2. Len(log') \in Rows'
    BY <1>1 DEF Rows
  <1> QED
    BY <1>2 DEF StoreMessage, DownMoves, Tell

LEMMA EachNotice ==
    ASSUME LInv, [Next]_vars
    PROVE  DownMoves
  <1>0. /\ \A q \in removals : q.row \in Rows
        /\ Rows \subseteq Rows' /\ None \in OrNone(Attempts)
        /\ \A p \in posts : p.attempt \in OrNone(Attempts) /\ attempt[p.attempt].channel \in Channels
    BY LogKept, LInvFacts DEF LInv, RemovalsKnown, OrNone, Posts, PostApart
  <1>1. ASSUME UNCHANGED down PROVE DownMoves
    BY <1>1 DEF DownMoves
  <1>2. CASE UNCHANGED vars
    BY <1>1, <1>2 DEF vars
  <1>3. CASE Connects \/ Subscribes \/ GivesUp \/ SeeksConnection \/ LeaveView \/ ReturnToView
    BY <1>1, <1>3 DEF Connects, Subscribes, GivesUp, SeeksConnection, LeaveView, ReturnToView
  <1>4. CASE Disconnects \/ HandleEvent
    BY <1>4 DEF Disconnects, HandleEvent, DownMoves
  <1>5. CASE ListStep
    BY <1>1, <1>5 DEF ListStep, OpenChannel, LoadOlder, ReturnToLatest, JumpTo, ReadPage, Answered,
       RequestFails
  <1>6. ASSUME NEW a \in Attempts, Retry(a) \/ Discard(a) \/ \E t \in Texts : Send(a, t)
        PROVE  DownMoves
    BY <1>1, <1>6 DEF Retry, Discard, Send
  <1>7. ASSUME NEW p \in posts, SendConfirmed(p) \/ SendFails(p) PROVE DownMoves
    BY <1>1, <1>7 DEF SendConfirmed, SendFails
  <1>8. ASSUME NEW p \in posts, Store(p) PROVE DownMoves
    <2>1. down' = down \/ StoreMessage(attempt[p.attempt].channel, p.attempt)
      BY <1>8 DEF Store
    <2> QED
      BY <1>0, <1>1, <2>1, WrittenLast
  <1>9. ASSUME NEW n \in Rows, DeleteMessage(n) \/ IsDeleted(n) PROVE DownMoves
    BY <1>0, <1>1, <1>9 DEF DeleteMessage, IsDeleted, Tell, DownMoves
  <1>10. ASSUME NEW q \in removals, Delete(q) \/ DeleteRefused(q) \/ DeleteConfirmed(q)
         PROVE  DownMoves
    BY <1>0, <1>1, <1>10 DEF Delete, DeleteRefused, DeleteConfirmed, Tell, DownMoves
  <1>11. ASSUME NEW c \in Channels, OtherPosts(c) PROVE DownMoves
    BY <1>0, <1>11, WrittenLast DEF OtherPosts
  <1> QED
    BY <1>2, <1>3, <1>4, <1>5, <1>6, <1>7, <1>8, <1>9, <1>10, <1>11 DEF Next, LinkStep, SendStep

LEMMA DownKept ==
    ASSUME LInv, [Next]_vars
    PROVE  down' \in Seq([type : {"new", "deleted"}, id : Rows'])
  <1>0. down \in Seq(Notices(Rows)) /\ DownMoves
    BY EachNotice DEF LInv, TypeOK, Notices
  <1>1. Notices(Rows) \subseteq Notices(Rows')
    BY LogKept DEF Notices
  <1>2. down \in Seq(Notices(Rows'))
    BY <1>0, <1>1, SeqMonotonic
  <1>3. ASSUME NEW n \in Rows', NEW type \in {"new", "deleted"}
        PROVE  [type |-> type, id |-> n] \in Notices(Rows')
    BY DEF Notices
  <1>4. down' \in Seq(Notices(Rows'))
    <2>1. CASE \E n \in Rows', type \in {"new", "deleted"} : down' = Append(down, [type |-> type, id |-> n])
      <3>1. PICK n \in Rows', type \in {"new", "deleted"} : down' = Append(down, [type |-> type, id |-> n])
        BY <2>1
      <3> DEFINE e == [type |-> type, id |-> n]
      <3>2. e \in Notices(Rows') /\ down' = Append(down, e)
        BY <1>3, <3>1
      <3> HIDE DEF e
      <3> QED
        BY <1>2, <3>2, AppendProperties
    <2>2. CASE down # <<>> /\ down' = Tail(down)
      BY <1>2, <2>2, HeadTailProperties
    <2>3. CASE down' = <<>>
      BY <2>3, EmptySeq
    <2> QED
      BY <1>0, <1>2, <2>1, <2>2, <2>3 DEF DownMoves
  <1> QED
    BY <1>4 DEF Notices

LEMMA FewTypes ==
    ASSUME TypeOK, [Next]_vars
    PROVE  /\ link' \in {"off", "trying", "up", "resting"} /\ was' \in BOOLEAN
           /\ subscribed' \in BOOLEAN /\ active' \in BOOLEAN
  <1>0. /\ link \in {"off", "trying", "up", "resting"} /\ was \in BOOLEAN
        /\ subscribed \in BOOLEAN /\ active \in BOOLEAN
    BY DEF TypeOK
  <1>1. CASE LinkStep
    BY <1>0, <1>1 DEF LinkStep, Connects, Subscribes, Disconnects, GivesUp, SeeksConnection,
       Opens, Loses, Exhausted, Wanted, link_vars, view
  <1>2. CASE LeaveView \/ ReturnToView \/ HandleEvent \/ UNCHANGED vars
    BY <1>0, <1>2 DEF LeaveView, ReturnToView, HandleEvent, vars, network, view, link_vars
  <1>3. CASE ListStep
    BY <1>0, <1>3 DEF ListStep, OpenChannel, LoadOlder, ReturnToLatest, JumpTo, ReadPage, Answered,
       RequestFails, network, view, link_vars
  <1>4. CASE SendStep
    <2>1. UNCHANGED network /\ active' = active
      <3>1. ASSUME NEW a \in Attempts, Retry(a) \/ Discard(a) \/ \E t \in Texts : Send(a, t)
            PROVE  UNCHANGED network /\ active' = active
        BY <3>1 DEF Retry, Discard, Send, view
      <3>2. ASSUME NEW p \in posts, Store(p) \/ SendConfirmed(p) \/ SendFails(p)
            PROVE  UNCHANGED network /\ active' = active
        BY <3>2 DEF Store, SendConfirmed, SendFails, view
      <3>3. ASSUME NEW n \in Rows, DeleteMessage(n)
            PROVE  UNCHANGED network /\ active' = active
        BY <3>3 DEF DeleteMessage, view
      <3>4. ASSUME NEW q \in removals, Delete(q) \/ DeleteRefused(q) \/ DeleteConfirmed(q)
            PROVE  UNCHANGED network /\ active' = active
        BY <3>4 DEF Delete, DeleteRefused, DeleteConfirmed, view
      <3> QED
        BY <1>4, <3>1, <3>2, <3>3, <3>4 DEF SendStep
    <2> QED
      BY <1>0, <2>1 DEF network, link_vars
  <1>5. CASE (\E c \in Channels : OtherPosts(c)) \/ (\E n \in Rows : IsDeleted(n))
    BY <1>0, <1>5 DEF OtherPosts, IsDeleted, network, view, link_vars
  <1> QED
    BY <1>1, <1>2, <1>3, <1>4, <1>5 DEF Next

LEMMA HistoricalKept ==
    ASSUME LInv, [Next]_vars
    PROVE  historical' \in OrNone(Channels)
  <1>0. historical \in OrNone(Channels) /\ None \in OrNone(Channels)
        /\ \A r \in requests : r.channel \in OrNone(Channels)
    BY LInvFacts DEF LInv, TypeOK, OrNone
  <1>1. CASE UNCHANGED historical
    BY <1>0, <1>1
  <1>2. ASSUME NEW r \in requests, Answered(r) PROVE historical' \in OrNone(Channels)
    BY <1>0, <1>2 DEF Answered, Arrives, LatestArrives, OlderArrives, AroundArrives, ReturnArrives, lists
  <1>3. CASE UNCHANGED vars
    BY <1>1, <1>3 DEF vars, lists
  <1>4. CASE LinkStep \/ LeaveView \/ ReturnToView \/ HandleEvent
    BY <1>1, <1>4 DEF LinkStep, Connects, Subscribes, Disconnects, GivesUp, SeeksConnection,
       LeaveView, ReturnToView, HandleEvent, lists
  <1>5. CASE \/ LoadOlder \/ ReturnToLatest
             \/ \E n \in Rows : JumpTo(n)
             \/ \E r \in requests : ReadPage(r) \/ RequestFails(r)
             \/ \E c \in Channels : OpenChannel(c)
    BY <1>1, <1>5 DEF LoadOlder, ReturnToLatest, JumpTo, ReadPage, RequestFails, OpenChannel, lists
  <1>6. CASE SendStep
    BY <1>1, <1>6 DEF SendStep, Retry, Discard, Send, Store, SendConfirmed,
       SendFails, DeleteMessage, Delete, DeleteRefused, DeleteConfirmed, lists
  <1>7. CASE (\E c \in Channels : OtherPosts(c)) \/ (\E n \in Rows : IsDeleted(n))
    BY <1>1, <1>7 DEF OtherPosts, IsDeleted, lists
  <1> QED
    BY <1>2, <1>3, <1>4, <1>5, <1>6, <1>7 DEF Next, ListStep

ReadMoves ==
    \/ unread' = unread /\ read' = read
    \/ \E c \in Channels : MarkRead(c)
    \/ read' = read /\ \E n \in Rows, c \in Channels : unread' = [unread EXCEPT ![c] = @ \cup {n}]

LEMMA NoticeFacts ==
    ASSUME LInv, HandleEvent
    PROVE  Head(down).id \in Rows
  <1>1. down \in Seq(Notices(Rows)) /\ down # <<>>
    BY DEF LInv, TypeOK, HandleEvent, Notices
  <1>2. Head(down) \in Notices(Rows)
    BY <1>1, HeadTailProperties
  <1> QED
    BY <1>2 DEF Notices

LEMMA EachRead ==
    ASSUME LInv, [Next]_vars
    PROVE  ReadMoves
  <1>1. ASSUME UNCHANGED <<unread, read>> PROVE ReadMoves
    BY <1>1 DEF ReadMoves
  <1>2. ASSUME NEW c \in Channels, MarkRead(c) PROVE ReadMoves
    BY <1>2 DEF ReadMoves
  <1>3. CASE HandleEvent
    <2> DEFINE n == Head(down).id
    <2>1. n \in Rows /\ log[n].channel \in Channels
      BY <1>3, NoticeFacts, LInvFacts
    <2>2. read' = read /\ (NewMessage(n) \/ MessageDeleted(n))
      BY <1>3 DEF HandleEvent
    <2> HIDE DEF n
    <2>3. unread' = unread \/ unread' = [unread EXCEPT ![log[n].channel] = @ \cup {n}]
      BY <2>2 DEF NewMessage, MessageDeleted
    <2> QED
      BY <2>1, <2>2, <2>3 DEF ReadMoves
  <1>4. CASE ReturnToView
    BY <1>1, <1>2, <1>4, LInvFacts DEF ReturnToView, OrNone
  <1>5. CASE LinkStep \/ LeaveView \/ UNCHANGED vars
    BY <1>1, <1>5 DEF LinkStep, Connects, Subscribes, Disconnects, GivesUp, SeeksConnection,
       LeaveView, vars, view
  <1>6. ASSUME NEW c \in Channels, OpenChannel(c) PROVE ReadMoves
    BY <1>2, <1>6 DEF OpenChannel
  <1>7. CASE \/ LoadOlder \/ ReturnToLatest
             \/ \E n \in Rows : JumpTo(n)
             \/ \E r \in requests : ReadPage(r) \/ Answered(r) \/ RequestFails(r)
    BY <1>1, <1>7 DEF LoadOlder, ReturnToLatest, JumpTo, ReadPage, Answered, RequestFails, view
  <1>8. CASE SendStep
    BY <1>1, <1>8 DEF SendStep, Retry, Discard, Send, Store, SendConfirmed,
       SendFails, DeleteMessage, Delete, DeleteRefused, DeleteConfirmed, view
  <1>9. CASE (\E c \in Channels : OtherPosts(c)) \/ (\E n \in Rows : IsDeleted(n))
    BY <1>1, <1>9 DEF OtherPosts, IsDeleted, view
  <1> QED
    BY <1>3, <1>4, <1>5, <1>6, <1>7, <1>8, <1>9 DEF Next, ListStep

LEMMA ReadKept ==
    ASSUME LInv, [Next]_vars
    PROVE  unread' \in [Channels -> SUBSET Rows'] /\ read' \subseteq Rows'
  <1>0. /\ unread \in [Channels -> SUBSET Rows] /\ read \subseteq Rows
        /\ Rows \subseteq Rows' /\ ReadMoves
    BY LogKept, EachRead DEF LInv, TypeOK
  <1>1. CASE unread' = unread /\ read' = read
    BY <1>0, <1>1
  <1>2. ASSUME NEW c \in Channels, MarkRead(c)
        PROVE  unread' \in [Channels -> SUBSET Rows'] /\ read' \subseteq Rows'
    BY <1>0, <1>2 DEF MarkRead
  <1>3. ASSUME NEW n \in Rows, NEW c \in Channels, unread' = [unread EXCEPT ![c] = @ \cup {n}],
               read' = read
        PROVE  unread' \in [Channels -> SUBSET Rows'] /\ read' \subseteq Rows'
    <2>1. unread[c] \cup {n} \in SUBSET Rows'
      BY <1>0
    <2> QED
      BY <1>0, <1>3, <2>1
  <1> QED
    BY <1>0, <1>1, <1>2, <1>3 DEF ReadMoves

TornMoves == torn' \subseteq torn \/ \E c \in Channels : torn' = torn \cup {c}

LEMMA EachTear ==
    ASSUME LInv, [Next]_vars
    PROVE  TornMoves
  <1>0. /\ open \in OrNone(Channels) /\ \A n \in Rows : log[n].channel \in Channels
        /\ \A r \in requests : r.channel \in Channels
        /\ \A p \in posts : attempt[p.attempt].channel \in Channels
        /\ \A q \in removals : q.row \in Rows
    BY LInvFacts DEF LInv, RemovalsKnown, PostApart
  <1>1. ASSUME UNCHANGED torn PROVE TornMoves
    BY <1>1 DEF TornMoves
  <1>2. ASSUME NEW c \in Channels, torn' = torn \cup Unnoticed(c) PROVE TornMoves
    BY <1>2 DEF TornMoves, Unnoticed
  <1>3. CASE LinkStep \/ LeaveView \/ ReturnToView \/ UNCHANGED vars
    BY <1>1, <1>3 DEF LinkStep, Connects, Subscribes, Disconnects, GivesUp, SeeksConnection,
       LeaveView, ReturnToView, vars, history
  <1>4. CASE HandleEvent
    <2> DEFINE n == Head(down).id
    <2>1. n \in Rows /\ log[n].channel \in Channels
      BY <1>4, NoticeFacts, LInvFacts
    <2>2. NewMessage(n) \/ MessageDeleted(n)
      BY <1>4 DEF HandleEvent
    <2> HIDE DEF n
    <2>3. torn' = torn \/ torn' = torn \cup {log[n].channel}
      BY <2>2 DEF NewMessage, MessageDeleted
    <2> QED
      BY <2>1, <2>3 DEF TornMoves
  <1>5. ASSUME NEW n \in Rows, JumpTo(n) PROVE TornMoves
    BY <1>0, <1>5 DEF JumpTo, TornMoves, OrNone
  <1>6. ASSUME NEW r \in requests, Answered(r) PROVE TornMoves
    <2>1. r.channel \in Channels
      BY <1>0
    <2>2. CASE UNCHANGED torn
      BY <1>1, <2>2
    <2>3. CASE Arrives(r) /\ (r.kind = "refresh" \/ open = r.channel)
      BY <2>1, <2>3 DEF Arrives, LatestArrives, OlderArrives, AroundArrives, ReturnArrives, TornMoves
    <2> QED
      BY <1>6, <2>2, <2>3 DEF Answered, history
  <1>7. ASSUME NEW r \in requests, RequestFails(r) PROVE TornMoves
    BY <1>0, <1>7 DEF RequestFails, TornMoves
  <1>8. CASE \/ LoadOlder \/ ReturnToLatest
             \/ \E r \in requests : ReadPage(r)
             \/ \E c \in Channels : OpenChannel(c)
    BY <1>1, <1>8 DEF LoadOlder, ReturnToLatest, ReadPage, OpenChannel, history
  <1>9. ASSUME NEW a \in Attempts, Retry(a) \/ Discard(a) \/ \E t \in Texts : Send(a, t)
        PROVE  TornMoves
    BY <1>1, <1>9 DEF Retry, Discard, Send, history
  <1>10. ASSUME NEW p \in posts, Store(p) \/ SendFails(p) PROVE TornMoves
    BY <1>0, <1>1, <1>2, <1>10 DEF Store, StoreMessage, SendFails, history
  <1>11. ASSUME NEW p \in posts, SendConfirmed(p) PROVE TornMoves
    BY <1>0, <1>11 DEF SendConfirmed, TornMoves
  <1>12. ASSUME NEW n \in Rows, DeleteMessage(n) \/ IsDeleted(n) PROVE TornMoves
    BY <1>0, <1>1, <1>2, <1>12 DEF DeleteMessage, IsDeleted, history
  <1>13. ASSUME NEW q \in removals, Delete(q) \/ DeleteRefused(q) \/ DeleteConfirmed(q)
         PROVE  TornMoves
    BY <1>0, <1>1, <1>2, <1>13 DEF Delete, DeleteRefused, DeleteConfirmed, history
  <1>14. ASSUME NEW c \in Channels, OtherPosts(c) PROVE TornMoves
    BY <1>2, <1>14 DEF OtherPosts, StoreMessage
  <1> QED
    BY <1>3, <1>4, <1>5, <1>6, <1>7, <1>8, <1>9, <1>10, <1>11, <1>12, <1>13, <1>14
       DEF Next, ListStep, SendStep

LEMMA StaleKept ==
    ASSUME LInv, [Next]_vars
    PROVE  stale' \subseteq Channels
  <1>0. stale \subseteq Channels /\ open \in OrNone(Channels)
    BY DEF LInv, TypeOK
  <1>1. ASSUME NEW r \in requests, Answered(r) PROVE stale' \subseteq Channels
    <2>1. CASE UNCHANGED history
      BY <1>0, <2>1 DEF history
    <2>2. CASE Arrives(r) /\ (r.kind = "refresh" \/ open = r.channel)
      <3>1. r.channel \in Channels
        BY LInvFacts
      <3> QED
        BY <1>0, <2>2, <3>1 DEF Arrives, LatestArrives, OlderArrives, AroundArrives, ReturnArrives
    <2> QED
      BY <1>1, <2>1, <2>2 DEF Answered
  <1>2. CASE LinkStep \/ LeaveView \/ ReturnToView \/ HandleEvent \/ UNCHANGED vars
    BY <1>0, <1>2 DEF LinkStep, Connects, Subscribes, Disconnects, GivesUp, SeeksConnection,
       LeaveView, ReturnToView, HandleEvent, vars, history
  <1>3. CASE ListStep
    BY <1>0, <1>1, <1>3 DEF ListStep, OpenChannel, LoadOlder, ReturnToLatest, JumpTo, ReadPage,
       RequestFails, history
  <1>4. CASE SendStep
    BY <1>0, <1>4 DEF SendStep, Retry, Discard, Send, Store, SendConfirmed,
       SendFails, DeleteMessage, Delete, DeleteRefused, DeleteConfirmed, history
  <1>5. CASE (\E c \in Channels : OtherPosts(c)) \/ (\E n \in Rows : IsDeleted(n))
    BY <1>0, <1>5 DEF OtherPosts, IsDeleted
  <1> QED
    BY <1>2, <1>3, <1>4, <1>5 DEF Next

-----------------------------------------------------------------------------
(* The types, and the channels apart *)

LEMMA CacheKept ==
    ASSUME LInv, [Next]_vars
    PROVE  cache' \in [Channels -> Seq(Entries)] /\ shown' \in Seq(Entries)
  <1>0. ListsApart' /\ cache \in [Channels -> Seq(Entries)]
    BY ListsApartKept, LInvFacts
  <1>1. \A c : From(c)' \subseteq Entries
    BY DEF From
  <1>2. shown' \in Seq(Entries) /\ \A c \in Channels : cache'[c] \in Seq(Entries)
    BY <1>0, <1>1, SeqMonotonic DEF ListsApart
  <1>3. cache' = cache \/ \E c, list : cache' = [cache EXCEPT ![c] = list]
    <2>1. CASE LinkStep \/ LeaveView \/ ReturnToView \/ UNCHANGED vars
      BY <2>1 DEF LinkStep, Connects, Subscribes, Disconnects, GivesUp, SeeksConnection,
         LeaveView, ReturnToView, vars, lists
    <2>2. CASE HandleEvent
      BY <2>2 DEF HandleEvent, NewMessage, MessageDeleted, Keep
    <2>3. CASE ListStep
      BY <2>3 DEF ListStep, OpenChannel, LoadOlder, ReturnToLatest, JumpTo, ReadPage, Answered,
         RequestFails, Arrives, LatestArrives, OlderArrives, AroundArrives, ReturnArrives, Keep, lists
    <2>4. CASE SendStep
      BY <2>4 DEF SendStep, Retry, Discard, Send, Store, SendConfirmed,
         SendFails, DeleteMessage, Delete, DeleteRefused, DeleteConfirmed, Keep, lists
    <2>5. CASE (\E c \in Channels : OtherPosts(c)) \/ (\E n \in Rows : IsDeleted(n))
      BY <2>5 DEF OtherPosts, IsDeleted, lists
    <2> QED
      BY <2>1, <2>2, <2>3, <2>4, <2>5 DEF Next
  <1>4. \A c, list : DOMAIN [cache EXCEPT ![c] = list] = Channels
                     /\ [cache EXCEPT ![c] = list] = [d \in Channels |-> [cache EXCEPT ![c] = list][d]]
    BY <1>0
  <1>5. cache' = [d \in Channels |-> cache'[d]]
    BY <1>0, <1>3, <1>4
  <1> QED
    BY <1>2, <1>5

LEMMA TypeKept ==
    ASSUME LInv, [Next]_vars
    PROVE  TypeOK'
  <1>1. open' \in OrNone(Channels)
    BY EachOpened, LInvFacts DEF Opened, OrNone
  <1>2. torn' \subseteq Channels
    BY EachTear DEF TornMoves, LInv, TypeOK
  <1>3. /\ log' \in Seq(Stored) /\ attempt' \in [Attempts -> Drafts]
        /\ requests' \subseteq Requests /\ posts' \subseteq Posts /\ removals' \subseteq Removals
        /\ left' \in [Budgets -> Nat] /\ historical' \in OrNone(Channels)
    BY LogKept, AttemptKept, RequestsKept, PostsKept, RemovalsKept, StaysKept, HistoricalKept
  <1>4. /\ down' \in Seq([type : {"new", "deleted"}, id : Rows'])
        /\ unread' \in [Channels -> SUBSET Rows'] /\ read' \subseteq Rows'
        /\ cache' \in [Channels -> Seq(Entries)] /\ shown' \in Seq(Entries)
    BY DownKept, ReadKept, CacheKept
  <1>5. TypeOK
    BY DEF LInv
  <1> QED
    BY <1>1, <1>2, <1>3, <1>4, <1>5, FewTypes, StaleKept DEF TypeOK

LEMMA LInvInit == Init => LInv
  <1> SUFFICES ASSUME Init PROVE LInv
    OBVIOUS
  <1>1. /\ log = <<>> /\ shown = <<>> /\ down = <<>> /\ open = None /\ posts = {} /\ removals = {}
        /\ requests = {} /\ read = {} /\ torn = {} /\ stale = {} /\ Rows = {}
        /\ cache = [c \in Channels |-> <<>>] /\ unread = [c \in Channels |-> {}]
        /\ left \in Scenarios /\ historical = None
        /\ link = "off" /\ was = FALSE /\ subscribed = FALSE /\ active = TRUE
    BY DEF Init, Rows, LinkInit
  <1>2. attempt \in [Attempts -> Drafts]
    BY DEF Init, Drafts, OrNone
  <1>3. \A S : <<>> \in Seq(S)
    BY EmptySeq
  <1>4. left \in [Budgets -> Nat]
    BY <1>1, ScenariosAssumption
  <1>5. TypeOK
    <2>1. /\ log \in Seq(Stored) /\ shown \in Seq(Entries) /\ cache \in [Channels -> Seq(Entries)]
          /\ down \in Seq([type : {"new", "deleted"}, id : Rows])
      BY <1>1, <1>3
    <2> QED
      BY <1>1, <1>2, <1>4, <2>1 DEF TypeOK, OrNone, history
  <1>6. ListsApart /\ RequestsApart /\ PostsApart /\ LogApart /\ RemovalsKnown
    BY <1>1, <1>3 DEF ListsApart, RequestsApart, PostsApart, LogApart, RemovalsKnown
  <1>7. Stays
    <2>1. Careful => left["delete"] = 0 \/ left["open"] <= 1
      BY <1>1 DEF Careful
    <2> QED
      BY <1>1, <2>1 DEF Stays
  <1> QED
    BY <1>5, <1>6, <1>7 DEF LInv

LEMMA LInvStep == LInv /\ [Next]_vars => LInv'
  <1> SUFFICES ASSUME LInv, [Next]_vars PROVE LInv'
    OBVIOUS
  <1>1. TypeOK' /\ ListsApart' /\ LogApart'
    BY TypeKept, ListsApartKept, LogApartKept
  <1>2. RequestsApart' /\ PostsApart'
    BY RequestsKept, PostsKept
  <1>3. RemovalsKnown' /\ Stays'
    BY RemovalsKept, StaysKept
  <1> QED
    BY <1>1, <1>2, <1>3 DEF LInv

LEMMA ListsInvariant == Spec => []LInv
  BY LInvInit, LInvStep, PTL DEF Spec

\* Whatever answers and events arrive in whatever order, the state of the
\* client keeps its types: a list holds messages of the server and the user's
\* own, a request names messages that exist, and the counters keep their
\* bounds (AppLayout's states and references).
THEOREM TypeCorrect == Spec => []TypeOK
  <1>1. LInv => TypeOK
    BY DEF LInv
  <1> QED
    BY <1>1, ListsInvariant, PTL

LEMMA LInvApart == LInv /\ Careful => ChannelsApart
  <1> SUFFICES ASSUME LInv, Careful, NEW c \in Channels
               PROVE  /\ \A n \in Ids(cache[c]) : log[n].channel = c
                      /\ \A i \in DOMAIN cache[c] :
                            cache[c][i].attempt # None => attempt[cache[c][i].attempt].channel = c
    BY DEF ChannelsApart
  <1>1. cache[c] \in Seq(From({c}))
    <2>1. Home(c) = {c}
      BY DEF Home
    <2> QED
      BY <2>1 DEF LInv, ListsApart
  <1>2. \A i \in DOMAIN cache[c] : cache[c][i] \in From({c})
    BY <1>1, ElementOfSeq
  <1>3. \A i \in DOMAIN cache[c] :
            cache[c][i].attempt # None => attempt[cache[c][i].attempt].channel = c
    BY <1>2 DEF From
  <1>4. ASSUME NEW n \in Ids(cache[c]) PROVE log[n].channel = c
    <2>1. PICK i \in DOMAIN cache[c] : n = cache[c][i].id /\ n # None
      BY DEF Ids
    <2>2. cache[c][i].attempt = None
      BY <1>2, <2>1, FromFacts, EntryFacts
    <2> QED
      BY <1>2, <2>1, <2>2 DEF From
  <1> QED
    BY <1>3, <1>4

\* A message is only ever put into the list of its own channel, though the
\* answers of another channel's requests and the events of every channel keep
\* arriving while the user switches: each is compared with the channel on the
\* screen before it is applied (loadMessages, handleSocketMessage). Assumed of
\* the scenarios: the user who deletes a message does not also switch channels,
\* as what a deletion does on its answer is compared with nothing.
THEOREM ChannelsAreAlwaysApart ==
    ASSUME \A s \in Scenarios : s["delete"] = 0 \/ s["open"] <= 1
    PROVE  Spec => []ChannelsApart
  <1>1. Careful
    BY DEF Careful
  <1>2. LInv => ChannelsApart
    BY <1>1, LInvApart
  <1> QED
    BY <1>2, ListsInvariant, PTL

-----------------------------------------------------------------------------
(* What is shown as being sent. Live are the entries a list may hold: an   *)
(* entry "sending" only while a request to send it exists. Merging a page  *)
(* leaves a Calm list, whose own messages are all "failed"; only an older  *)
(* page is put before a list as it was, the one found when it was asked.   *)

Calm == {e \in Entries : e.status # "sending"}
Live == {e \in Entries : e.status = "sending" => \E p \in posts : p.attempt = e.attempt}
SInv ==
    /\ \A c \in Channels \ stale : cache[c] \in Seq(Live)
    /\ open \notin stale => shown \in Seq(Live)

LEMMA CalmFacts ==
    /\ Calm \subseteq Live /\ Calm \subseteq Live'
    /\ \A n \in Nat : Row(n) \in Calm
    /\ \A a \in Attempts : Local(a, "failed") \in Calm
  BY EntryFacts DEF Calm, Live

LEMMA LiveGrows ==
    ASSUME \A p \in posts : \E s \in posts' : s.attempt = p.attempt
    PROVE  Live \subseteq Live'
  BY DEF Live

LEMMA LiveWithout ==
    ASSUME NEW list \in Seq(Live), NEW gone
    PROVE  Without(list, gone) \in Seq(Live)
  <1>1. Without(list, gone) \in Seq(Live \ gone)
    BY WithoutLists
  <1> QED
    BY <1>1, SeqMonotonic

LEMMA KeptLive ==
    ASSUME SInv, Live \subseteq Live', stale \subseteq stale', open' = open, shown' = shown, cache' = cache
    PROVE  SInv'
  BY SeqMonotonic DEF SInv

LEMMA InBoth ==
    ASSUME NEW S, NEW T, NEW list \in Seq(S), list \in Seq(T)
    PROVE  list \in Seq(S \cap T)
  <1>1. \A i \in 1 .. Len(list) : list[i] \in S /\ list[i] \in T
    BY ElementOfSeq
  <1> QED
    BY <1>1, SeqDef

LEMMA ChangedLive ==
    ASSUME LInv, Careful, SInv, open' = open, NEW c \in Channels, NEW list, Keep(c, list),
           stale \subseteq stale' \cup {c}, c \notin stale' => list \in Seq(Live'),
           \A d \in Channels \ {c} : Live \cap From({d}) \subseteq Live'
    PROVE  SInv'
  <1>1. cache \in [Channels -> Seq(Entries)] /\ cache' = [cache EXCEPT ![c] = list]
        /\ shown' = IF open = c THEN list ELSE shown
    BY LInvFacts DEF Keep
  <1>2. \A d \in Channels : Home(d) = {d}
    BY DEF Home
  <1>3. ASSUME NEW d \in Channels \ stale' PROVE cache'[d] \in Seq(Live')
    <2>1. CASE d = c
      BY <1>1, <1>3, <2>1
    <2>2. CASE d # c
      <3>1. d \notin stale
        BY <1>3, <2>2
      <3>2. cache'[d] = cache[d] /\ cache[d] \in Seq(Live) /\ cache[d] \in Seq(From({d}))
        BY <1>1, <1>2, <2>2, <3>1, LInvFacts DEF SInv, Fitting
      <3>3. cache[d] \in Seq(Live \cap From({d}))
        BY <3>2, InBoth
      <3> QED
        BY <2>2, <3>2, <3>3, SeqMonotonic
    <2> QED
      BY <2>1, <2>2
  <1>4. ASSUME open \notin stale' PROVE shown' \in Seq(Live')
    <2>1. CASE open = c
      BY <1>1, <1>4, <2>1
    <2>2. CASE open # c
      <3>1. shown' = shown /\ shown \in Seq(Live) /\ shown \in Seq(From(Home(open)))
        BY <1>1, <1>4, <2>2, LInvFacts DEF SInv, Fitting
      <3>2. shown \in Seq(Live \cap From(Home(open)))
        BY <3>1, InBoth
      <3>3. Live \cap From(Home(open)) \subseteq Live'
        <4>1. CASE open \in Channels
          BY <1>2, <2>2, <4>1
        <4>2. CASE open \notin Channels
          <5>1. Home(open) = {}
            BY <4>2 DEF Home
          <5> QED
            BY <5>1 DEF From, Live
        <4> QED
          BY <4>1, <4>2
      <3> QED
        BY <3>1, <3>2, <3>3, SeqMonotonic
    <2> QED
      BY <2>1, <2>2
  <1> QED
    BY <1>3, <1>4 DEF SInv

LEMMA PagesLive ==
    ASSUME LInv, Careful, SInv, NEW r \in requests, Answered(r)
    PROVE  SInv'
  <1>0. open' = open /\ log' = log /\ posts' = posts /\ Live' = Live
    BY DEF Answered, view, sending, Live
  <1>1. /\ r.channel \in Channels /\ r.found \in Seq(Entries) /\ cache[r.channel] \in Seq(Entries)
        /\ r.page # None /\ r.page \in Seq(Nat) /\ attempt \in [Attempts -> Drafts]
    <2>1. r \in Requests /\ r.page # None
      BY LInvFacts DEF Answered
    <2> QED
      BY <2>1, LInvFacts DEF Requests, OrNone
  <1>2. AsRows(r.page) \in Seq(Calm)
    BY <1>1, CalmFacts, AsRowsLists
  <1>3. /\ \A e \in Calm : Time(e) \in Int
        /\ \A e \in Entries \cap Locals : Local(e.attempt, "failed") \in Calm
        /\ Entries \ Locals \subseteq Calm
    <2>1. \A e \in Calm : Time(e) \in Int
      <3> SUFFICES ASSUME NEW e \in Calm PROVE Time(e) \in Int
        OBVIOUS
      <3>1. CASE e \in Locals
        <4>1. e.id = None /\ e.attempt \in Attempts
          BY <3>1, EntryFacts
        <4>2. attempt[e.attempt].born \in Nat
          BY <1>1, <4>1 DEF Drafts
        <4> QED
          BY <4>1, <4>2 DEF Time
      <3>2. CASE e \notin Locals
        <4>1. e.id \in Nat /\ e.id # None
          BY <3>2, EntryFacts, NoneAssumption DEF Calm
        <4> QED
          BY <4>1 DEF Time
      <3> QED
        BY <3>1, <3>2
    <2> QED
      BY <2>1, EntryFacts, CalmFacts DEF Calm
  <1>4. \A list \in Seq(Calm) : list \in Seq(Live')
    BY CalmFacts, SeqMonotonic
  <1>5. \A d \in Channels \ {r.channel} : Live \cap From({d}) \subseteq Live'
    BY <1>0
  <1>6. ASSUME NEW list \in Seq(Calm), Keep(r.channel, list), stale \subseteq stale' \cup {r.channel}
        PROVE  SInv'
    BY <1>0, <1>1, <1>4, <1>5, <1>6, ChangedLive
  <1>7. CASE UNCHANGED <<lists, stale>>
    BY <1>0, <1>7, KeptLive DEF lists
  <1>8. CASE Arrives(r) /\ (r.kind = "refresh" \/ open = r.channel)
    <2>1. CASE LatestArrives(r)
      <3> DEFINE old == IF r.forgets THEN <<>> ELSE r.found
                 list == MergeLatestPage(AsRows(r.page), old)
      <3>1. old \in Seq(Entries)
        <4>1. <<>> \in Seq(Entries)
          BY EmptySeq
        <4> QED
          BY <1>1, <4>1
      <3> HIDE DEF old
      <3>2. list \in Seq(Calm)
        BY <1>2, <1>3, <3>1, LatestLists
      <3>3. Keep(r.channel, list) /\ stale \subseteq stale' \cup {r.channel}
        BY <2>1 DEF LatestArrives, old
      <3> HIDE DEF list
      <3> QED
        BY <1>6, <3>2, <3>3
    <2>2. CASE r.kind = "older" /\ OlderArrives(r)
      <3> DEFINE list == AsRows(r.page) \o r.found
      <3>1. open = r.channel /\ Keep(r.channel, list) /\ stale \subseteq stale'
        BY <1>8, <2>2 DEF OlderArrives
      <3>2. ASSUME r.channel \notin stale' PROVE list \in Seq(Live')
        <4>1. cache[r.channel] = r.found
          BY <2>2, <3>1, <3>2 DEF OlderArrives
        <4>2. r.found \in Seq(Live')
          BY <1>0, <1>1, <3>1, <3>2, <4>1 DEF SInv
        <4>3. AsRows(r.page) \in Seq(Live')
          BY <1>2, <1>4
        <4> QED
          BY <4>2, <4>3, ConcatProperties
      <3> HIDE DEF list
      <3> QED
        BY <1>0, <1>1, <1>5, <3>1, <3>2, ChangedLive
    <2>3. CASE AroundArrives(r)
      <3>1. CASE r.target \in ToSet(r.page)
        BY <1>2, <1>6, <2>3, <3>1 DEF AroundArrives
      <3>2. CASE r.target \notin ToSet(r.page)
        BY <1>7, <2>3, <3>2 DEF AroundArrives
      <3> QED
        BY <3>1, <3>2
    <2>4. CASE r.kind = "latest" /\ ReturnArrives(r)
      <3> DEFINE list == MergeRemoteWithLocals(AsRows(r.page), cache[r.channel])
      <3>1. list \in Seq(Calm)
        BY <1>1, <1>2, <1>3, MergeLists
      <3>2. open = r.channel /\ Keep(r.channel, list) /\ stale \subseteq stale' \cup {r.channel}
        BY <1>8, <2>4 DEF ReturnArrives
      <3> HIDE DEF list
      <3> QED
        BY <1>6, <3>1, <3>2
    <2> QED
      BY <1>8, <2>1, <2>2, <2>3, <2>4 DEF Arrives
  <1> QED
    BY <1>7, <1>8 DEF Answered, history

LEMMA OpeningLive ==
    ASSUME LInv, SInv, NEW c \in Channels, OpenChannel(c)
    PROVE  SInv'
  <1>1. open' = c /\ cache' = cache /\ (shown' = <<>> \/ shown' = cache[c]) /\ stale' = stale /\ posts' = posts
    BY DEF OpenChannel, sending, history
  <1>2. Live' = Live
    BY <1>1 DEF Live
  <1>3. <<>> \in Seq(Live)
    BY EmptySeq
  <1> QED
    BY <1>1, <1>2, <1>3 DEF SInv

LEMMA WritingLive ==
    ASSUME LInv, Careful, SInv, NEW a \in Attempts, Retry(a) \/ Discard(a) \/ \E t \in Texts : Send(a, t)
    PROVE  SInv'
  <1>0. open \in Channels /\ open' = open /\ stale' = stale
    BY LInvFacts DEF Retry, Discard, Send, OrNone, view, history
  <1>1. posts \subseteq posts'
    BY DEF Retry, Discard, Send, sending
  <1>2. Live \subseteq Live'
    BY <1>1, LiveGrows
  <1>3. open \notin stale => shown \in Seq(Live)
    BY DEF SInv
  <1>4. ASSUME NEW list, Keep(open, list), open \notin stale => list \in Seq(Live') PROVE SInv'
    BY <1>0, <1>2, <1>4, ChangedLive
  <1>5. ASSUME NEW p \in posts', p.attempt = a PROVE Local(a, "sending") \in Live'
    BY <1>5, EntryFacts DEF Live
  <1>6. CASE Discard(a)
    <2>1. open \notin stale => Without(shown, LocalsOf(a)) \in Seq(Live')
      BY <1>2, <1>3, LiveWithout, SeqMonotonic
    <2>2. Keep(open, Without(shown, LocalsOf(a)))
      BY <1>6 DEF Discard
    <2> QED
      BY <1>4, <2>1, <2>2
  <1>7. CASE Retry(a)
    <2> DEFINE p == [attempt |-> a, retry |-> TRUE, row |-> None]
    <2>1. p \in posts' /\ p.attempt = a
      BY <1>7 DEF Retry
    <2>2. Local(a, "sending") \in Live'
      BY <1>5, <2>1
    <2>3. open \notin stale => Replace(shown, a, Local(a, "sending")) \in Seq(Live')
      BY <1>2, <1>3, <2>2, ReplaceLists
    <2>4. Keep(open, Replace(shown, a, Local(a, "sending")))
      BY <1>7 DEF Retry
    <2> QED
      BY <1>4, <2>3, <2>4
  <1>8. ASSUME NEW t \in Texts, Send(a, t) PROVE SInv'
    <2> DEFINE p == [attempt |-> a, retry |-> FALSE, row |-> None]
               kept == Without(shown, {Local(b, "failed") : b \in Saying(t)})
    <2>1. p \in posts' /\ p.attempt = a
      BY <1>8 DEF Send
    <2>2. Local(a, "sending") \in Live'
      BY <1>5, <2>1
    <2>3. Keep(open, Append(kept, Local(a, "sending")))
      BY <1>8 DEF Send
    <2>4. open \notin stale => kept \in Seq(Live')
      BY <1>2, <1>3, LiveWithout, SeqMonotonic
    <2> HIDE DEF kept
    <2>5. open \notin stale => Append(kept, Local(a, "sending")) \in Seq(Live')
      BY <2>2, <2>4, AppendProperties
    <2> QED
      BY <1>4, <2>3, <2>5
  <1> QED
    BY <1>6, <1>7, <1>8

LEMMA AnswersLive ==
    ASSUME LInv, Careful, SInv, NEW p \in posts, SendConfirmed(p) \/ SendFails(p)
    PROVE  SInv'
  <1> DEFINE a == p.attempt
             c == attempt[a].channel
             list == Listed(c)
  <1>0. /\ a \in Attempts /\ c \in Channels /\ open' = open /\ stale \subseteq stale'
        /\ posts' = posts \ {p}
        /\ p.row # None => p.row \in Nat
    <2>1. PostApart(p) /\ p \in Posts
      BY LInvFacts
    <2> QED
      BY <2>1 DEF SendConfirmed, SendFails, PostApart, Posts, view, OrNone, history
  <1>1. c \notin stale' => list \in Seq(Live)
    BY <1>0 DEF SInv, Listed
  <1>2. \A e \in Live : e.attempt # a => e \in Live'
    BY <1>0 DEF Live
  <1>3. \A d \in Channels \ {c} : Live \cap From({d}) \subseteq Live'
    <2> SUFFICES ASSUME NEW d \in Channels \ {c}, NEW e \in Live \cap From({d}) PROVE e \in Live'
      OBVIOUS
    <2>1. CASE e.attempt # a
      BY <1>2, <2>1
    <2>2. CASE e.attempt = a
      BY <1>0, <2>2, FromFacts, NoneAssumption
    <2> QED
      BY <2>1, <2>2
  <1>4. ASSUME NEW l, Keep(c, l), c \notin stale' => l \in Seq(Live') PROVE SInv'
    <2> HIDE DEF a, c, list
    <2> QED
      BY <1>0, <1>3, <1>4, ChangedLive
  <1>5. ASSUME NEW e \in Calm PROVE c \notin stale' => Replace(list, a, e) \in Seq(Live')
    <2> HIDE DEF a, c, list
    <2>1. e \in Live'
      BY <1>5, CalmFacts
    <2> QED
      BY <1>1, <1>2, <2>1, ReplaceLists DEF IsOf
  <1>6. CASE SendFails(p)
    <2>1. Keep(c, Replace(list, a, Local(a, "failed")))
      BY <1>6 DEF SendFails, ApplyFailed
    <2>2. Local(a, "failed") \in Calm
      BY <1>0, CalmFacts
    <2> HIDE DEF a, c, list
    <2> QED
      BY <1>4, <1>5, <2>1, <2>2
  <1>7. CASE SendConfirmed(p)
    <2> DEFINE n == p.row
               confirmed == IF p.retry THEN ApplyRetried(list, a, n) ELSE Reconcile(list, a, n)
    <2>1. Row(n) \in Calm
      BY <1>0, <1>7, CalmFacts DEF SendConfirmed
    <2>2. Keep(c, confirmed)
      BY <1>7 DEF SendConfirmed
    <2>3. Live \ LocalsOf(a) \subseteq Live'
      <3>1. \A e \in Live \ LocalsOf(a) : e \in Locals => e.attempt # a
        BY EntryFacts DEF LocalsOf
      <3>2. \A e \in Live \ Locals : e.attempt # a
        BY <1>0, EntryFacts, NoneAssumption DEF Live
      <3> QED
        BY <1>2, <3>1, <3>2
    <2> HIDE DEF a, c, list, n
    <2>4. ASSUME c \notin stale' PROVE confirmed \in Seq(Live')
      <3>1. list \in Seq(Live)
        BY <1>1, <2>4
      <3>2. Without(list, LocalsOf(a)) \in Seq(Live')
        BY <2>3, <3>1, WithoutLists, SeqMonotonic
      <3>3. Replace(list, a, Row(n)) \in Seq(Live')
        BY <1>5, <2>1, <2>4
      <3>4. ASSUME ~\E i \in DOMAIN list : IsOf(list[i], a)
            PROVE  Append(list, Row(n)) \in Seq(Live')
        <4>1. \A i \in DOMAIN list : list[i] \in Live'
          BY <1>2, <3>1, <3>4, ElementOfSeq DEF IsOf
        <4>2. list \in Seq(Live')
          BY <3>1, <4>1
        <4>3. Row(n) \in Live'
          BY <2>1, CalmFacts
        <4> QED
          BY <4>2, <4>3, AppendProperties
      <3> QED
        BY <3>2, <3>3, <3>4 DEF ApplyRetried, Reconcile
    <2> HIDE DEF confirmed
    <2> QED
      BY <1>4, <2>2, <2>4
  <1> QED
    BY <1>6, <1>7

LEMMA DeletionLive ==
    ASSUME LInv, Careful, SInv, NEW q \in removals, DeleteConfirmed(q)
    PROVE  SInv'
  <1>0. open' = open /\ stale' = stale /\ Live' = Live
    BY DEF DeleteConfirmed, view, Live, history
  <1>1. q.channel = open /\ open \in Channels
    <2>1. q \in Removals
      BY LInvFacts
    <2>2. q.channel = open
      BY DEF LInv, Stays
    <2> QED
      BY <2>1, <2>2 DEF Removals
  <1> DEFINE list == Without(shown, {Row(q.row)})
  <1>2. Keep(open, list)
    BY <1>1 DEF DeleteConfirmed, Keep
  <1>3. open \notin stale => list \in Seq(Live')
    BY <1>0, LiveWithout DEF SInv
  <1> HIDE DEF list
  <1> QED
    BY <1>0, <1>1, <1>2, <1>3, ChangedLive

LEMMA EventsLive ==
    ASSUME LInv, Careful, SInv, HandleEvent
    PROVE  SInv'
  <1> DEFINE n == Head(down).id
             c == log[n].channel
  <1>0. /\ open' = open /\ Live' = Live /\ (NewMessage(n) \/ MessageDeleted(n))
        /\ n \in Rows /\ c \in Channels /\ Row(n) \in Live /\ stale' = stale
    BY NoticeFacts, LInvFacts, CalmFacts DEF HandleEvent, sending, Live
  <1> HIDE DEF n
  <1>1. cache \in [Channels -> Seq(Entries)]
    BY LInvFacts
  <1>2. \A d \in Channels \ stale : cache[d] \in Seq(Live)
    BY DEF SInv
  <1>3. open \notin stale => shown \in Seq(Live)
    BY DEF SInv
  <1>4. CASE NewMessage(n)
    <2>1. CASE c = open /\ active
      <3> DEFINE awaited == IF log[n].request = None THEN {}
                            ELSE {Local(a, "sending") : a \in Saying(attempt[log[n].request].text)}
                 kept == Without(shown, awaited)
                 list == Append(kept, Row(n))
      <3>1. UNCHANGED <<shown, cache>> \/ Keep(c, list)
        BY <1>4, <2>1 DEF NewMessage
      <3> HIDE DEF awaited
      <3>2. open \notin stale => kept \in Seq(Live)
        BY <1>3, LiveWithout
      <3> HIDE DEF kept
      <3>3. open \notin stale => list \in Seq(Live')
        BY <1>0, <3>2, AppendProperties
      <3> HIDE DEF list
      <3>4. CASE UNCHANGED <<shown, cache>>
        BY <1>0, <3>1, <3>4, KeptLive
      <3>5. CASE Keep(c, list)
        BY <1>0, <2>1, <3>1, <3>3, <3>5, ChangedLive
      <3> QED
        BY <3>1, <3>4, <3>5
    <2>2. CASE ~(c = open /\ active)
      <3> DEFINE list == Append(cache[c], Row(n))
      <3>1. /\ shown' = shown
            /\ cache' = cache \/ cache' = [cache EXCEPT ![c] = list]
        BY <1>4, <2>2 DEF NewMessage
      <3>2. c \notin stale => list \in Seq(Live)
        BY <1>0, <1>2, AppendProperties
      <3> HIDE DEF list
      <3>3. ASSUME NEW d \in Channels \ stale' PROVE cache'[d] \in Seq(Live)
        <4>1. d \notin stale /\ cache[d] \in Seq(Live)
          BY <1>0, <1>2, <3>1, <3>3
        <4> QED
          BY <1>0, <1>1, <3>1, <3>2, <4>1
      <3> QED
        BY <1>0, <1>3, <3>1, <3>3 DEF SInv
    <2> QED
      BY <2>1, <2>2
  <1>5. CASE MessageDeleted(n)
    <2> DEFINE list == Without(cache[c], {Row(n)})
    <2>1. /\ shown' = shown \/ shown' = Without(shown, {Row(n)})
          /\ cache' = [cache EXCEPT ![c] = list]
      BY <1>5 DEF MessageDeleted
    <2>2. c \notin stale => list \in Seq(Live)
      BY <1>0, <1>2, LiveWithout
    <2>3. open \notin stale => shown' \in Seq(Live)
      BY <1>3, <2>1, LiveWithout
    <2> HIDE DEF list
    <2>4. ASSUME NEW d \in Channels \ stale' PROVE cache'[d] \in Seq(Live)
      <3>1. d \notin stale /\ cache[d] \in Seq(Live)
        BY <1>0, <1>2, <2>1, <2>4
      <3> QED
        BY <1>0, <1>1, <2>1, <2>2, <3>1
    <2> QED
      BY <1>0, <2>1, <2>3, <2>4 DEF SInv
  <1> QED
    BY <1>0, <1>4, <1>5

LEMMA SInvInit == Init => SInv
  BY EmptySeq DEF Init, SInv

LEMMA SInvStep == LInv /\ Careful /\ SInv /\ [Next]_vars => SInv'
  <1> SUFFICES ASSUME LInv, Careful, SInv, [Next]_vars PROVE SInv'
    OBVIOUS
  <1>1. ASSUME open' = open, UNCHANGED lists, stale \subseteq stale',
               \A p \in posts : \E s \in posts' : s.attempt = p.attempt
        PROVE  SInv'
    BY <1>1, KeptLive, LiveGrows DEF lists
  <1>2. CASE LinkStep \/ LeaveView \/ ReturnToView \/ UNCHANGED vars
    <2>1. open' = open /\ UNCHANGED lists /\ stale' = stale /\ posts' = posts
      BY <1>2 DEF LinkStep, Connects, Subscribes, Disconnects, GivesUp, SeeksConnection, LeaveView,
         ReturnToView, vars, view, lists, sending, history
    <2> QED
      BY <1>1, <2>1
  <1>3. CASE LoadOlder \/ ReturnToLatest \/ (\E n \in Rows : JumpTo(n))
             \/ (\E r \in requests : ReadPage(r) \/ RequestFails(r))
    <2>1. open' = open /\ UNCHANGED lists /\ stale \subseteq stale' /\ posts' = posts
      BY <1>3 DEF LoadOlder, ReturnToLatest, JumpTo, ReadPage, RequestFails, view, lists, sending, history
    <2> QED
      BY <1>1, <2>1
  <1>4. ASSUME NEW p \in posts, Store(p) PROVE SInv'
    <2>1. open' = open /\ UNCHANGED lists /\ stale \subseteq stale'
      BY <1>4 DEF Store, StoreMessage, view, lists
    <2>2. PICK n : posts' = (posts \ {p}) \cup {[p EXCEPT !.row = n]}
      BY <1>4 DEF Store, Answer
    <2>3. p \in Posts
      BY LInvFacts
    <2>4. [p EXCEPT !.row = n].attempt = p.attempt
      BY <2>3 DEF Posts
    <2> QED
      BY <1>1, <2>1, <2>2, <2>4
  <1>5. CASE \/ \E n \in Rows : DeleteMessage(n) \/ IsDeleted(n)
             \/ \E q \in removals : Delete(q) \/ DeleteRefused(q)
             \/ \E c \in Channels : OtherPosts(c)
    <2>1. open' = open /\ UNCHANGED lists /\ stale \subseteq stale' /\ posts' = posts
      BY <1>5 DEF DeleteMessage, IsDeleted, Delete, DeleteRefused, OtherPosts, StoreMessage,
         view, lists, sending, history
    <2> QED
      BY <1>1, <2>1
  <1> QED
    BY <1>2, <1>3, <1>4, <1>5, PagesLive, OpeningLive, WritingLive, AnswersLive, DeletionLive,
       EventsLive DEF Next, ListStep, SendStep

\* A message that is shown as being sent has a request that will be answered:
\* each answer settles the message in every list that can hold it, and no page
\* that arrives later brings the entry back (mergeLatestMessages, the
\* handlers of a sent message), but in a channel whose list an older page was
\* put in front of in a copy made before the answer (stale). The same is assumed
\* of the scenarios.
THEOREM SendingIsAlwaysSent ==
    ASSUME \A s \in Scenarios : s["delete"] = 0 \/ s["open"] <= 1
    PROVE  Spec => []SendingIsSent
  <1>1. Careful
    BY DEF Careful
  <1>2. ASSUME SInv PROVE SendingIsSent
    <2> SUFFICES ASSUME open \notin stale, NEW i \in DOMAIN shown, shown[i].status = "sending"
                 PROVE  \E p \in posts : p.attempt = shown[i].attempt
      BY DEF SendingIsSent
    <2>1. shown[i] \in Live
      BY <1>2, ElementOfSeq DEF SInv
    <2> QED
      BY <2>1 DEF Live
  <1>3. SInv /\ LInv /\ [Next]_vars => SInv'
    BY <1>1, SInvStep
  <1> QED
    BY <1>2, <1>3, SInvInit, ListsInvariant, PTL DEF Spec

-----------------------------------------------------------------------------
(* What the lists hold exactly. *)

LEMMA ElementsOf ==
    ASSUME NEW S, NEW list \in Seq(S)
    PROVE  /\ ToSet(list) \subseteq S /\ list \in Seq(ToSet(list))
           /\ Ids(list) = {e.id : e \in ToSet(list)} \ {None}
  <1>1. list \in [1 .. Len(list) -> S] /\ Len(list) \in Nat /\ DOMAIN list = 1 .. Len(list)
    BY LenProperties
  <1>2. list \in [1 .. Len(list) -> ToSet(list)]
    BY <1>1 DEF ToSet
  <1>3. Ids(list) = {e.id : e \in ToSet(list)} \ {None}
    BY DEF ToSet, Ids
  <1>4. ToSet(list) \subseteq S
    BY <1>1 DEF ToSet
  <1>5. list \in Seq(ToSet(list))
    BY <1>1, <1>2
  <1> QED
    BY <1>3, <1>4, <1>5

\* An injection between finite sets of the same size reaches everything.
LEMMA AscendingHolds ==
    ASSUME NEW S, S \subseteq Nat, IsFiniteSet(S)
    PROVE  /\ ToSet(Ascending(S)) = S
           /\ S # {} => /\ Ascending(S) # <<>> /\ Ascending(S)[1] \in S
                        /\ \A n \in S : Ascending(S)[1] <= n
  <1> DEFINE T == 1 .. Cardinality(S)
             upTo(n) == {m \in S : m <= n}
             f == Ascending(S)
  <1>1. Cardinality(S) \in Nat
    BY FS_CardinalityType
  <1>2. f \in [T -> S]
    <2>1. f \in Seq(S) /\ DOMAIN f = T
      BY AscendingLists
    <2> HIDE DEF f
    <2>2. f \in [1 .. Len(f) -> S]
      BY <2>1, LenProperties
    <2> QED
      BY <2>1, <2>2
  <1>3. \A k \in T : f[k] = CHOOSE n \in S : Cardinality(upTo(n)) = k
    BY DEF Ascending
  <1>4. \A k \in T : \E n \in S : Cardinality(upTo(n)) = k
    BY RankOf
  <1>5. \A k \in T : Cardinality(upTo(f[k])) = k
    BY <1>3, <1>4
  <1>6. IsFiniteSet(T) /\ Cardinality(T) = Cardinality(S)
    BY <1>1, FS_Interval
  <1>7. ToSet(f) = S
    <2> HIDE DEF f, upTo, T
    <2>1. f \in Injection(T, S)
      BY <1>2, <1>5 DEF Injection, IsInjective
    <2>2. f \in Surjection(T, S)
      BY <1>6, <2>1, FS_Injection
    <2> QED
      BY <1>2, <2>2 DEF Surjection, ToSet
  <1>8. ASSUME S # {} PROVE f # <<>> /\ f[1] \in S /\ \A n \in S : f[1] <= n
    <2>1. Cardinality(S) # 0
      BY <1>8, FS_EmptySet
    <2>2. 1 \in T
      BY <1>1, <2>1
    <2>3. f[1] \in S /\ Cardinality(upTo(f[1])) = 1
      BY <1>2, <1>5, <2>2
    <2>4. upTo(f[1]) \in SUBSET S
      OBVIOUS
    <2>5. IsFiniteSet(upTo(f[1]))
      BY <2>4, FS_Subset
    <2>6. PICK x : upTo(f[1]) = {x}
      BY <2>3, <2>5, FS_Singleton
    <2> HIDE DEF f
    <2>7. f # <<>>
      <3>1. DOMAIN f = T
        BY <1>2
      <3>2. DOMAIN <<>> = {}
        OBVIOUS
      <3> QED
        BY <2>2, <3>1, <3>2
    <2>8. ASSUME NEW n \in S PROVE f[1] <= n
      <3>1. n \in Nat /\ f[1] \in Nat
        BY <2>3
      <3>2. f[1] \in upTo(f[1])
        BY <2>3, <3>1
      <3>3. n < f[1] => n \in upTo(f[1])
        BY <3>1
      <3> QED
        BY <2>6, <3>1, <3>2, <3>3
    <2> QED
      BY <2>3, <2>7, <2>8
  <1> QED
    BY <1>7, <1>8

LEMMA WithoutHolds ==
    ASSUME NEW S, NEW list \in Seq(S), NEW gone
    PROVE  ToSet(Without(list, gone)) = ToSet(list) \ gone
  <1> DEFINE K == {i \in DOMAIN list : list[i] \notin gone}
             kept == Ascending(K)
  <1>1. K \subseteq Nat /\ IsFiniteSet(K)
    <2>1. Len(list) \in Nat /\ DOMAIN list = 1 .. Len(list)
      OBVIOUS
    <2>2. IsFiniteSet(1 .. Len(list))
      BY <2>1, FS_Interval
    <2>3. K \in SUBSET (1 .. Len(list))
      BY <2>1
    <2> QED
      BY <2>1, <2>2, <2>3, FS_Subset
  <1>2. ToSet(kept) = K
    BY <1>1, AscendingHolds
  <1>3. Without(list, gone) = [k \in DOMAIN kept |-> list[kept[k]]]
    BY DEF Without
  <1>4. ToSet(list) \ gone = {list[i] : i \in K}
    BY DEF ToSet
  <1> HIDE DEF K, kept
  <1>5. {kept[k] : k \in DOMAIN kept} = K
    BY <1>2 DEF ToSet
  <1>6. ToSet(Without(list, gone)) = {list[kept[k]] : k \in DOMAIN kept}
    BY <1>3 DEF ToSet
  <1> QED
    BY <1>4, <1>5, <1>6

LEMMA ByTimeHolds ==
    ASSUME NEW S, NEW list \in Seq(S), \A e \in S : Time(e) \in Int
    PROVE  ToSet(ByTime(list)) = ToSet(list)
  <1> DEFINE D == DOMAIN list
             g == [k \in D |-> CHOOSE i \in D : Cardinality(UpTo(list, i)) = k]
  <1>1. Len(list) \in Nat /\ D = 1 .. Len(list) /\ IsFiniteSet(D)
    BY FS_Interval
  <1>2. \A k \in D : \E i \in D : Cardinality(UpTo(list, i)) = k
    BY <1>1, PlacesTaken
  <1>3. g \in [D -> D] /\ \A k \in D : Cardinality(UpTo(list, g[k])) = k
    BY <1>2
  <1>4. g \in Injection(D, D)
    <2> HIDE DEF g, D
    <2> QED
      BY <1>3 DEF Injection, IsInjective
  <1>5. g \in Surjection(D, D)
    <2> HIDE DEF g, D
    <2> QED
      BY <1>1, <1>4, FS_Injection
  <1>6. ByTime(list) = [k \in D |-> list[g[k]]]
    BY DEF ByTime
  <1> HIDE DEF g, D
  <1>7. \A i \in D : \E k \in D : g[k] = i
    BY <1>5 DEF Surjection
  <1>8. ToSet(list) = {list[i] : i \in D}
    BY DEF ToSet, D
  <1>9. ToSet(ByTime(list)) = {list[g[k]] : k \in D}
    BY <1>6 DEF ToSet
  <1> QED
    BY <1>3, <1>7, <1>8, <1>9

LEMMA JoinedHolds ==
    ASSUME NEW S, NEW list \in Seq(S), NEW more \in Seq(S)
    PROVE  ToSet(list \o more) = ToSet(list) \cup ToSet(more)
  <1> DEFINE m == Len(list)
             n == Len(more)
             both == list \o more
  <1>1. m \in Nat /\ n \in Nat /\ DOMAIN list = 1 .. m /\ DOMAIN more = 1 .. n
    OBVIOUS
  <1>2. both \in Seq(S) /\ Len(both) = m + n
        /\ \A i \in 1 .. m + n : both[i] = IF i <= m THEN list[i] ELSE more[i - m]
    BY ConcatProperties
  <1> HIDE DEF both
  <1>3. DOMAIN both = 1 .. m + n
    BY <1>2, LenProperties
  <1> HIDE DEF m, n
  <1>4. ASSUME NEW e \in ToSet(both) PROVE e \in ToSet(list) \cup ToSet(more)
    <2>1. PICK i \in 1 .. m + n : e = both[i]
      BY <1>3, <1>4 DEF ToSet
    <2>2. CASE i <= m
      <3>1. i \in DOMAIN list
        BY <1>1, <2>2
      <3>2. e = list[i]
        BY <1>2, <2>1, <2>2
      <3> QED
        BY <3>1, <3>2 DEF ToSet
    <2>3. CASE ~(i <= m)
      <3>1. i - m \in DOMAIN more
        BY <1>1, <2>3
      <3>2. e = more[i - m]
        BY <1>2, <2>1, <2>3
      <3> QED
        BY <3>1, <3>2 DEF ToSet
    <2> QED
      BY <2>2, <2>3
  <1>5. ASSUME NEW e \in ToSet(list) PROVE e \in ToSet(both)
    <2>1. PICK i \in 1 .. m : e = list[i]
      BY <1>1, <1>5 DEF ToSet
    <2>2. i \in 1 .. m + n /\ i <= m
      BY <1>1
    <2> QED
      BY <1>2, <1>3, <2>1, <2>2 DEF ToSet
  <1>6. ASSUME NEW e \in ToSet(more) PROVE e \in ToSet(both)
    <2>1. PICK i \in 1 .. n : e = more[i]
      BY <1>1, <1>6 DEF ToSet
    <2>2. i + m \in 1 .. m + n /\ ~(i + m <= m) /\ (i + m) - m = i
      BY <1>1
    <2>3. both[i + m] = more[i]
      BY <1>2, <2>2
    <2> QED
      BY <1>3, <2>1, <2>2, <2>3 DEF ToSet
  <1> QED
    BY <1>4, <1>5, <1>6 DEF both

LEMMA AppendedHolds ==
    ASSUME NEW S, NEW list \in Seq(S), NEW e
    PROVE  ToSet(Append(list, e)) = ToSet(list) \cup {e}
  <1> DEFINE m == Len(list)
             both == Append(list, e)
  <1>1. m \in Nat /\ DOMAIN list = 1 .. m /\ DOMAIN both = 1 .. (m + 1)
    OBVIOUS
  <1>2. both[m + 1] = e /\ \A i \in 1 .. m : both[i] = list[i]
    OBVIOUS
  <1> HIDE DEF m, both
  <1>3. 1 .. (m + 1) = (1 .. m) \cup {m + 1}
    BY <1>1
  <1>4. ToSet(both) = {both[i] : i \in 1 .. m} \cup {both[m + 1]}
    BY <1>1, <1>3 DEF ToSet
  <1> QED
    BY <1>1, <1>2, <1>4 DEF ToSet, both

LEMMA RowsHold ==
    ASSUME NEW page \in Seq(Nat)
    PROVE  /\ AsRows(page) \in Seq(Entries)
           /\ ToSet(AsRows(page)) = {Row(n) : n \in ToSet(page)}
           /\ Ids(AsRows(page)) = ToSet(page)
  <1>1. AsRows(page) \in Seq(Entries)
    BY AsRowsLists, EntryFacts
  <1>2. ToSet(AsRows(page)) = {Row(n) : n \in ToSet(page)}
    BY DEF AsRows, ToSet
  <1>3. ToSet(page) \subseteq Nat
    BY ElementsOf
  <1>4. Ids(AsRows(page)) = {e.id : e \in {Row(n) : n \in ToSet(page)}} \ {None}
    BY <1>1, <1>2, ElementsOf
  <1>5. {e.id : e \in {Row(n) : n \in ToSet(page)}} = {Row(n).id : n \in ToSet(page)}
    OBVIOUS
  <1>6. {Row(n).id : n \in ToSet(page)} = ToSet(page)
    BY <1>3, EntryFacts
  <1> QED
    BY <1>1, <1>2, <1>3, <1>4, <1>5, <1>6, NoneAssumption

\* The ids of a list are those of its rows; a local message has none.
LEMMA IdsOf ==
    ASSUME NEW list \in Seq(Entries)
    PROVE  /\ Ids(list) \subseteq Nat
           /\ \A n \in Nat : n \in Ids(list) <=> Row(n) \in ToSet(list)
  <1>1. ToSet(list) \subseteq Entries /\ Ids(list) = {e.id : e \in ToSet(list)} \ {None}
    BY ElementsOf
  <1>2. ASSUME NEW e \in ToSet(list), e.id # None PROVE e.id \in Nat /\ e = Row(e.id)
    BY <1>1, <1>2, EntryFacts
  <1>3. Ids(list) \subseteq Nat
    BY <1>1, <1>2
  <1>4. ASSUME NEW n \in Nat PROVE n \in Ids(list) <=> Row(n) \in ToSet(list)
    <2>1. n \in Ids(list) => Row(n) \in ToSet(list)
      BY <1>1, <1>2
    <2>2. Row(n) \in ToSet(list) => n \in Ids(list)
      BY <1>1, EntryFacts, NoneAssumption
    <2> QED
      BY <2>1, <2>2
  <1> QED
    BY <1>3, <1>4

LEMMA SameIds ==
    ASSUME NEW list \in Seq(Entries), NEW other \in Seq(Entries), NEW D,
           \A n \in Nat : Row(n) \in ToSet(other) <=> (Row(n) \in ToSet(list) /\ n \notin D)
    PROVE  Ids(other) = Ids(list) \ D
  <1>1. Ids(list) \subseteq Nat /\ Ids(other) \subseteq Nat
    BY IdsOf
  <1>2. \A n \in Nat : n \in Ids(other) <=> (n \in Ids(list) /\ n \notin D)
    BY IdsOf
  <1> QED
    BY <1>1, <1>2

LEMMA RowNotLocal == \A m, n \in Nat : Row(n) \notin Locals /\ (Row(m) = Row(n) => m = n)
  BY EntryFacts, NoneAssumption

LEMMA WithoutIds ==
    ASSUME NEW list \in Seq(Entries), NEW gone
    PROVE  /\ Without(list, gone) \in Seq(Entries)
           /\ gone \subseteq Locals => Ids(Without(list, gone)) = Ids(list)
           /\ \A n \in Nat : gone = {Row(n)} => Ids(Without(list, gone)) = Ids(list) \ {n}
  <1> DEFINE other == Without(list, gone)
  <1>1. other \in Seq(Entries)
    <2>1. other \in Seq(Entries \ gone)
      BY WithoutLists
    <2> HIDE DEF other
    <2> QED
      BY <2>1, SeqMonotonic
  <1>2. ToSet(other) = ToSet(list) \ gone
    BY WithoutHolds
  <1> HIDE DEF other
  <1>3. ASSUME gone \subseteq Locals PROVE Ids(other) = Ids(list)
    <2>1. \A n \in Nat : Row(n) \in ToSet(other) <=> (Row(n) \in ToSet(list) /\ n \notin {})
      BY <1>2, <1>3, RowNotLocal
    <2>2. Ids(other) = Ids(list) \ {}
      BY <1>1, <2>1, SameIds
    <2> QED
      BY <2>2
  <1>4. ASSUME NEW n \in Nat, gone = {Row(n)} PROVE Ids(other) = Ids(list) \ {n}
    <2>1. \A m \in Nat : Row(m) \in ToSet(other) <=> (Row(m) \in ToSet(list) /\ m \notin {n})
      BY <1>2, <1>4, RowNotLocal
    <2> QED
      BY <1>1, <2>1, SameIds
  <1> QED
    BY <1>1, <1>3, <1>4 DEF other

\* An entry of an attempt is local: replacing it leaves the rows as they are.
LEMMA ReplacedIds ==
    ASSUME NEW list \in Seq(Entries), NEW a \in Attempts, NEW by \in Entries
    PROVE  /\ Replace(list, a, by) \in Seq(Entries)
           /\ by \in Locals => Ids(Replace(list, a, by)) = Ids(list)
           /\ \A n \in Nat : by = Row(n) =>
                  \/ Ids(Replace(list, a, by)) = Ids(list)
                  \/ Ids(Replace(list, a, by)) = Ids(list) \cup {n}
           /\ (\E i \in DOMAIN list : IsOf(list[i], a)) =>
                  \A n \in Nat : by = Row(n) => Ids(Replace(list, a, by)) = Ids(list) \cup {n}
  <1> DEFINE other == Replace(list, a, by)
             some == \E i \in DOMAIN list : IsOf(list[i], a)
  <1>1. other \in Seq(Entries)
    BY ReplaceLists
  <1>2. other = [i \in DOMAIN list |-> IF IsOf(list[i], a) THEN by ELSE list[i]]
    BY DEF Replace
  <1>3. \A n \in Nat : ~IsOf(Row(n), a)
    BY EntryFacts, NoneAssumption DEF IsOf
  <1> HIDE DEF other
  <1>4. \A n \in Nat : Row(n) \in ToSet(list) => Row(n) \in ToSet(other)
    BY <1>2, <1>3 DEF ToSet
  <1>5. \A n \in Nat : Row(n) \in ToSet(other) => Row(n) \in ToSet(list) \/ (some /\ by = Row(n))
    BY <1>2 DEF ToSet
  <1>6. some => by \in ToSet(other)
    BY <1>2 DEF ToSet
  <1> HIDE DEF some
  <1>7. /\ Ids(list) \subseteq Nat /\ Ids(other) \subseteq Nat
        /\ \A n \in Nat : n \in Ids(list) <=> Row(n) \in ToSet(list)
        /\ \A n \in Nat : n \in Ids(other) <=> Row(n) \in ToSet(other)
    BY <1>1, IdsOf
  <1>8. ASSUME by \in Locals PROVE Ids(other) = Ids(list)
    <2>1. \A n \in Nat : Row(n) \in ToSet(other) <=> Row(n) \in ToSet(list)
      BY <1>4, <1>5, <1>8, RowNotLocal
    <2> QED
      BY <1>7, <2>1
  <1>9. ASSUME NEW n \in Nat, by = Row(n)
        PROVE  IF some THEN Ids(other) = Ids(list) \cup {n} ELSE Ids(other) = Ids(list)
    <2>1. \A m \in Nat : by = Row(m) => m = n
      BY <1>9, RowNotLocal
    <2>2. ~some => Ids(other) = Ids(list)
      BY <1>4, <1>5, <1>7
    <2>3. some => n \in Ids(other)
      BY <1>6, <1>7, <1>9
    <2>4. Ids(list) \subseteq Ids(other) /\ Ids(other) \subseteq Ids(list) \cup {n}
      BY <1>4, <1>5, <1>7, <2>1
    <2> QED
      BY <2>2, <2>3, <2>4
  <1> QED
    BY <1>1, <1>8, <1>9 DEF other, some

LEMMA AppendedIds ==
    ASSUME NEW list \in Seq(Entries), NEW e \in Entries
    PROVE  /\ Append(list, e) \in Seq(Entries)
           /\ e \in Locals => Ids(Append(list, e)) = Ids(list)
           /\ \A n \in Nat : e = Row(n) => Ids(Append(list, e)) = Ids(list) \cup {n}
  <1> DEFINE other == Append(list, e)
  <1>1. other \in Seq(Entries)
    OBVIOUS
  <1>2. ToSet(other) = ToSet(list) \cup {e}
    BY AppendedHolds
  <1> HIDE DEF other
  <1>3. /\ Ids(list) \subseteq Nat /\ Ids(other) \subseteq Nat
        /\ \A n \in Nat : n \in Ids(list) <=> Row(n) \in ToSet(list)
        /\ \A n \in Nat : n \in Ids(other) <=> Row(n) \in ToSet(other)
    BY <1>1, IdsOf
  <1>4. e \in Locals => Ids(other) = Ids(list)
    BY <1>2, <1>3, RowNotLocal
  <1>5. ASSUME NEW n \in Nat, e = Row(n) PROVE Ids(other) = Ids(list) \cup {n}
    BY <1>2, <1>3, <1>5, RowNotLocal
  <1> QED
    BY <1>1, <1>4, <1>5 DEF other

LEMMA JoinedIds ==
    ASSUME NEW list \in Seq(Entries), NEW more \in Seq(Entries)
    PROVE  list \o more \in Seq(Entries) /\ Ids(list \o more) = Ids(list) \cup Ids(more)
  <1> DEFINE both == list \o more
  <1>1. both \in Seq(Entries)
    BY ConcatProperties
  <1>2. ToSet(both) = ToSet(list) \cup ToSet(more)
    BY JoinedHolds
  <1> HIDE DEF both
  <1>3. /\ Ids(list) = {e.id : e \in ToSet(list)} \ {None}
        /\ Ids(more) = {e.id : e \in ToSet(more)} \ {None}
        /\ Ids(both) = {e.id : e \in ToSet(both)} \ {None}
    BY <1>1, ElementsOf
  <1>4. {e.id : e \in ToSet(both)} = {e.id : e \in ToSet(list)} \cup {e.id : e \in ToSet(more)}
    BY <1>2
  <1> QED
    BY <1>1, <1>3, <1>4 DEF both

LEMMA EntriesHaveTimes ==
    ASSUME attempt \in [Attempts -> Drafts]
    PROVE  \A e \in Entries : Time(e) \in Int
  <1>1. \A e \in Entries \ Locals : Time(e) \in Int
    BY EntryFacts, NoneAssumption DEF Time
  <1>2. \A e \in Locals : Time(e) \in Int
    <2>1. \A a \in Attempts : attempt[a].born \in Nat
      BY DEF Drafts
    <2> QED
      BY <2>1, EntryFacts DEF Time
  <1> QED
    BY <1>1, <1>2

\* Sorting loses nothing, and only local messages are kept beside a page.
LEMMA MergedIds ==
    ASSUME attempt \in [Attempts -> Drafts], NEW page \in Seq(Nat), NEW local \in Seq(Entries)
    PROVE  /\ MergeRemoteWithLocals(AsRows(page), local) \in Seq(Entries)
           /\ Ids(MergeRemoteWithLocals(AsRows(page), local)) = ToSet(page)
  <1> DEFINE rows == AsRows(page)
             kept == Without(local, ToSet(local) \ Locals)
             failed == [i \in DOMAIN kept |-> Local(kept[i].attempt, "failed")]
             all == rows \o failed
  <1>1. rows \in Seq(Entries) /\ Ids(rows) = ToSet(page)
    BY RowsHold
  <1>2. kept \in Seq(Locals)
    <2>1. local \in Seq(ToSet(local))
      BY ElementsOf
    <2>2. kept \in Seq(ToSet(local) \ (ToSet(local) \ Locals))
      BY <2>1, WithoutLists
    <2>3. ToSet(local) \ (ToSet(local) \ Locals) \subseteq Locals
      OBVIOUS
    <2> HIDE DEF kept
    <2> QED
      BY <2>2, <2>3, SeqMonotonic
  <1> HIDE DEF rows, kept
  <1>3. failed \in Seq(Locals)
    <2>1. Len(kept) \in Nat /\ DOMAIN kept = 1 .. Len(kept) /\ \A i \in DOMAIN kept : kept[i] \in Locals
      BY <1>2, LenProperties, ElementOfSeq
    <2>2. failed \in [1 .. Len(kept) -> Locals]
      BY <2>1, EntryFacts
    <2> QED
      BY <2>1, <2>2
  <1> HIDE DEF failed
  <1>4. failed \in Seq(Entries) /\ Ids(failed) = {}
    <2>1. failed \in Seq(Entries)
      BY <1>3, SeqMonotonic, EntryFacts
    <2>2. ToSet(failed) \subseteq Locals
      BY <1>3, ElementsOf
    <2>3. Ids(failed) = {e.id : e \in ToSet(failed)} \ {None}
      BY <1>3, ElementsOf
    <2> QED
      BY <2>1, <2>2, <2>3, EntryFacts
  <1>5. all \in Seq(Entries) /\ Ids(all) = ToSet(page)
    <2>1. all \in Seq(Entries) /\ Ids(all) = Ids(rows) \cup Ids(failed)
      BY <1>1, <1>4, JoinedIds
    <2> QED
      BY <1>1, <1>4, <2>1
  <1> HIDE DEF all
  <1>6. \A e \in Entries : Time(e) \in Int
    BY EntriesHaveTimes
  <1>7. ByTime(all) \in Seq(Entries) /\ ToSet(ByTime(all)) = ToSet(all)
    BY <1>5, <1>6, ByTimeLists, ByTimeHolds
  <1>8. Ids(ByTime(all)) = Ids(all)
    <2>1. Ids(ByTime(all)) = {e.id : e \in ToSet(ByTime(all))} \ {None}
      BY <1>7, ElementsOf
    <2>2. Ids(all) = {e.id : e \in ToSet(all)} \ {None}
      BY <1>5, ElementsOf
    <2> QED
      BY <1>7, <2>1, <2>2
  <1>9. MergeRemoteWithLocals(AsRows(page), local) = ByTime(all)
    BY DEF MergeRemoteWithLocals, all, failed, kept, rows
  <1> QED
    BY <1>5, <1>7, <1>8, <1>9

Before(page, list) == IF Joins(page, list) THEN {n \in Ids(list) : n < page[1]} ELSE {}

\* A page joined to a list in order leaves what is older of it.
LEMMA LatestIds ==
    ASSUME attempt \in [Attempts -> Drafts], NEW page \in Seq(Nat), NEW cached \in Seq(Entries),
           Joins(page, cached) => InOrder(cached)
    PROVE  /\ MergeLatestPage(AsRows(page), cached) \in Seq(Entries)
           /\ Ids(MergeLatestPage(AsRows(page), cached)) = ToSet(page) \cup Before(page, cached)
  <1> DEFINE rows == AsRows(page)
             merged == MergeRemoteWithLocals(rows, cached)
             O == {i \in DOMAIN cached : rows # <<>> /\ cached[i].id = rows[1].id}
             first == CHOOSE i \in O : \A j \in O : i <= j
             front == SubSeq(cached, 1, first - 1)
             older == Without(front, Locals)
  <1>1. merged \in Seq(Entries) /\ Ids(merged) = ToSet(page)
    BY MergedIds
  <1>2. MergeLatestPage(rows, cached) = IF O = {} THEN merged ELSE older \o merged
    BY DEF MergeLatestPage
  <1>3. /\ rows # <<>> <=> page # <<>>
        /\ page # <<>> => page[1] \in Nat /\ rows[1] = Row(page[1])
    BY DEF AsRows
  <1>4. \A i \in DOMAIN cached : i \in O <=> page # <<>> /\ cached[i].id = page[1]
    <2> HIDE DEF rows
    <2> QED
      BY <1>3, EntryFacts
  <1>5. O # {} <=> Joins(page, cached)
    <2>1. page # <<>> => page[1] # None
      BY <1>3, NoneAssumption
    <2> HIDE DEF rows
    <2>2. O # {} <=> \E i \in DOMAIN cached : i \in O
      OBVIOUS
    <2> HIDE DEF O
    <2> QED
      BY <1>4, <2>1, <2>2 DEF Joins, Ids
  <1>6. CASE ~Joins(page, cached)
    BY <1>1, <1>2, <1>5, <1>6 DEF Before
  <1>7. CASE Joins(page, cached)
    <2>1. O \subseteq Nat /\ O \subseteq 1 .. Len(cached)
      OBVIOUS
    <2>2. \E i \in O : \A j \in O : i <= j
      BY <1>5, <1>7, <2>1, SmallestIn
    <2>3. first \in O /\ \A j \in O : first <= j
      BY <2>2
    <2>4. page # <<>> /\ page[1] \in Nat /\ first \in 1 .. Len(cached) /\ cached[first].id = page[1]
      BY <1>3, <1>4, <1>7, <2>1, <2>3 DEF Joins
    <2> HIDE DEF first, O, merged
    <2>5. front \in Seq(Entries) /\ ToSet(front) = {cached[i] : i \in 1 .. (first - 1)}
      <3>1. first - 1 \in Int /\ \A i \in 1 .. (first - 1) : cached[i] \in Entries
        BY <2>4
      <3>2. /\ front \in Seq(Entries) /\ Len(front) = IF 1 <= first - 1 THEN first - 1 - 1 + 1 ELSE 0
            /\ \A i \in 1 .. (first - 1 - 1 + 1) : front[i] = cached[1 + i - 1]
        BY <3>1, SubSeqProperties
      <3>3. Len(front) = first - 1 /\ \A i \in 1 .. (first - 1) : front[i] = cached[i]
        BY <2>4, <3>2
      <3> HIDE DEF front
      <3>4. DOMAIN front = 1 .. (first - 1)
        BY <3>2, <3>3, LenProperties
      <3> QED
        BY <3>2, <3>3, <3>4 DEF ToSet
    <2> HIDE DEF front
    <2>6. older \in Seq(Entries) /\ Ids(older) = Ids(front)
      BY <2>5, WithoutIds
    <2> HIDE DEF older
    <2>7. Ids(front) = Before(page, cached)
      <3>0. DOMAIN cached = 1 .. Len(cached) /\ Len(cached) \in Nat
        BY LenProperties
      <3>1. Ids(front) = {cached[i].id : i \in 1 .. (first - 1)} \ {None}
        BY <2>5, ElementsOf
      <3>2. Before(page, cached) = {n \in Ids(cached) : n < page[1]}
        BY <1>7 DEF Before
      <3>3. ASSUME NEW i \in DOMAIN cached, cached[i].id # None
            PROVE  i < first <=> cached[i].id < page[1]
        <4>1. cached[i].id \in Nat
          <5>1. cached[i] \in Entries
            OBVIOUS
          <5> QED
            BY <3>3, <5>1, EntryFacts
        <4>2. InOrder(cached) /\ page[1] # None
          BY <1>7, <2>4, NoneAssumption
        <4>3. CASE i < first
          <5>1. cached[i].id <= cached[first].id
            BY <2>4, <3>0, <3>3, <4>2, <4>3 DEF InOrder
          <5>2. i \notin O
            BY <2>3, <2>4, <3>0, <4>3
          <5>3. cached[i].id # page[1]
            BY <1>4, <2>4, <5>2
          <5> QED
            BY <2>4, <4>1, <4>3, <5>1, <5>3
        <4>4. CASE ~(i < first)
          <5>1. first \in DOMAIN cached /\ (i = first \/ first < i)
            BY <2>4, <3>0, <4>4
          <5>2. cached[first].id # None
            BY <2>4, <4>2
          <5>3. i = first \/ cached[first].id <= cached[i].id
            BY <3>3, <4>2, <5>1, <5>2 DEF InOrder
          <5> QED
            BY <2>4, <4>1, <4>4, <5>3
        <4> QED
          BY <4>3, <4>4
      <3>4. \A i \in 1 .. (first - 1) : i \in DOMAIN cached /\ i < first
        BY <2>4, <3>0
      <3>5. \A i \in DOMAIN cached : i < first => i \in 1 .. (first - 1)
        BY <2>4, <3>0
      <3>6. Ids(cached) = {cached[i].id : i \in DOMAIN cached} \ {None}
        BY DEF Ids
      <3>7. ASSUME NEW n \in Before(page, cached) PROVE n \in Ids(front)
        <4>1. PICK i \in DOMAIN cached : n = cached[i].id /\ n # None /\ n < page[1]
          BY <3>2, <3>6, <3>7
        <4> QED
          BY <3>1, <3>3, <3>5, <4>1
      <3>8. ASSUME NEW n \in Ids(front) PROVE n \in Before(page, cached)
        <4>1. PICK i \in 1 .. (first - 1) : n = cached[i].id /\ n # None
          BY <3>1, <3>8
        <4> QED
          BY <3>2, <3>3, <3>4, <3>6, <4>1
      <3> QED
        BY <3>7, <3>8
    <2>8. older \o merged \in Seq(Entries) /\ Ids(older \o merged) = Ids(older) \cup Ids(merged)
      BY <1>1, <2>6, JoinedIds
    <2> QED
      BY <1>1, <1>2, <1>5, <1>7, <2>6, <2>7, <2>8
  <1> HIDE DEF merged, older
  <1> QED
    BY <1>6, <1>7

-----------------------------------------------------------------------------
(* A list fits a channel if from some message on it holds what is there,   *)
(* but for the events still to come.                                       *)

Since(k, c) == {n \in Rows : log[n].channel = c /\ n >= k}
FitsFrom(ids, c, k) ==
    /\ k = 1 \/ Cardinality(Since(k, c)) >= PageSize
    /\ \A n \in ids : n >= k /\ (n \in Present(c) \/ Coming("deleted", n))
    /\ \A n \in Present(c) : n >= k => n \in ids \/ Coming("new", n)
Fits(ids, c) == \E k \in 1 .. (Len(log) + 1) : FitsFrom(ids, c, k)

LEMMA RowFacts ==
    ASSUME log \in Seq(Stored)
    PROVE  /\ Len(log) \in Nat /\ Rows = 1 .. Len(log) /\ IsFiniteSet(Rows)
           /\ \A c : Present(c) \subseteq Rows /\ IsFiniteSet(Present(c))
           /\ \A c, k : Since(k, c) \subseteq Rows /\ IsFiniteSet(Since(k, c))
                        /\ Cardinality(Since(k, c)) \in Nat
  <1>1. Len(log) \in Nat /\ Rows = 1 .. Len(log)
    BY DEF Rows
  <1>2. IsFiniteSet(Rows)
    BY <1>1, FS_Interval
  <1>3. \A c, k : Present(c) \in SUBSET Rows /\ Since(k, c) \in SUBSET Rows
    BY DEF Present, Since
  <1>4. \A c, k : IsFiniteSet(Present(c)) /\ IsFiniteSet(Since(k, c))
    BY <1>2, <1>3, FS_Subset
  <1> QED
    BY <1>1, <1>2, <1>3, <1>4, FS_CardinalityType

LEMMA MoreSince ==
    ASSUME log \in Seq(Stored), NEW c, NEW k \in Nat, NEW i \in Nat, i <= k,
           k = 1 \/ Cardinality(Since(k, c)) >= PageSize, i # 0
    PROVE  i = 1 \/ Cardinality(Since(i, c)) >= PageSize
  <1>1. \A n \in Rows : n \in Nat
    BY RowFacts
  <1>2. Since(k, c) \in SUBSET Since(i, c)
    BY <1>1 DEF Since
  <1>3. Cardinality(Since(k, c)) <= Cardinality(Since(i, c))
    BY <1>2, RowFacts, FS_Subset
  <1> QED
    BY <1>3, RowFacts, PageAssumption

\* A page that is not outdated fits: it holds the latest messages, and
\* whatever is newer than one of its own.
LEMMA FreshFits ==
    ASSUME log \in Seq(Stored), NEW c, NEW ids, ids \subseteq Rows, ~Outdated(ids, c)
    PROVE  Fits(ids, c)
  <1> DEFINE S == Present(c)
             B == S \ LastOf(S, PageSize)
             K == {k \in 1 .. (Len(log) + 1) : \A n \in B : n < k}
  <1>0. /\ Len(log) \in Nat /\ Rows = 1 .. Len(log) /\ S \subseteq Rows /\ IsFiniteSet(S)
        /\ PageSize \in Nat \ {0}
    BY RowFacts, PageAssumption
  <1>1. \E k \in K : \A i \in K : k <= i
    <2>1. Len(log) + 1 \in K
      BY <1>0
    <2>2. K \subseteq Nat
      BY <1>0
    <2> HIDE DEF K
    <2> QED
      BY <2>1, <2>2, SmallestIn
  <1>2. PICK k \in K : \A i \in K : k <= i
    BY <1>1
  <1>3. k \in 1 .. (Len(log) + 1) /\ k \in Nat /\ \A n \in B : n < k
    BY <1>0
  <1>4. k = 1 \/ Cardinality(Since(k, c)) >= PageSize
    <2>1. CASE k - 1 \in B
      <3> DEFINE newer == {m \in S : m > k - 1}
      <3>1. ~(Cardinality(newer) < PageSize)
        BY <2>1 DEF LastOf
      <3>2. newer \in SUBSET Since(k, c)
        BY <1>0, <1>3 DEF Since, Present
      <3>3. /\ Cardinality(newer) <= Cardinality(Since(k, c)) /\ Cardinality(newer) \in Nat
            /\ Cardinality(Since(k, c)) \in Nat
        BY <3>2, RowFacts, FS_Subset, FS_CardinalityType
      <3> HIDE DEF newer
      <3> QED
        BY <1>0, <3>1, <3>3
    <2>2. CASE k - 1 \notin B
      <3>1. \A n \in B : n \in Nat /\ n < k /\ n # k - 1
        BY <1>0, <1>3, <2>2
      <3>2. \A n \in B : n < k - 1
        BY <1>3, <3>1
      <3>3. k - 1 \notin K
        BY <1>2, <1>3
      <3>4. k - 1 \notin 1 .. (Len(log) + 1)
        BY <3>2, <3>3
      <3> QED
        BY <1>0, <1>3, <3>4
    <2> QED
      BY <2>1, <2>2
  <1>5. /\ \A n \in ids : n \in S \/ Coming("deleted", n)
        /\ \A m \in ids : \A n \in S : n > m => n \in ids \/ Coming("new", n)
        /\ \A n \in S : n \notin B => n \in ids \/ Coming("new", n)
    BY DEF Outdated, Ghosts, Lacks
  <1>6. \A n \in ids : n \in Nat \ {0} /\ n \in 1 .. (Len(log) + 1)
    BY <1>0
  <1>7. \A n \in S : n >= k => n \notin B
    BY <1>0, <1>3
  <1> HIDE DEF K, B, S
  <1>8. CASE \A n \in ids : n >= k
    <2>1. FitsFrom(ids, c, k)
      BY <1>4, <1>5, <1>7, <1>8 DEF FitsFrom, S
    <2> QED
      BY <1>3, <2>1 DEF Fits
  <1>9. CASE ~\A n \in ids : n >= k
    <2>1. PICK i \in ids : \A n \in ids : i <= n
      BY <1>6, <1>9, SmallestIn
    <2>2. i <= k /\ i \in Nat /\ i # 0
      BY <1>3, <1>6, <1>9, <2>1
    <2>3. i = 1 \/ Cardinality(Since(i, c)) >= PageSize
      BY <1>3, <1>4, <2>2, MoreSince
    <2>4. \A n \in ids : n >= i
      BY <1>6, <2>1
    <2>5. \A n \in S : n >= i => n \in ids \/ Coming("new", n)
      BY <1>0, <1>5, <2>2
    <2>6. FitsFrom(ids, c, i)
      BY <1>5, <2>3, <2>4, <2>5 DEF FitsFrom, S
    <2> QED
      BY <1>6, <2>6 DEF Fits
  <1> QED
    BY <1>8, <1>9

LEMMA MoreFits ==
    ASSUME log \in Seq(Stored), NEW c, NEW ids, Fits(ids, c), NEW n \in Rows,
           ids \subseteq Rows,
           n \in Present(c) \/ Coming("deleted", n),
           \A m \in Present(c) \ ids : m > n => Coming("new", m)
    PROVE  Fits(ids \cup {n}, c)
  <1>0. Len(log) \in Nat /\ Rows = 1 .. Len(log) /\ Present(c) \subseteq Rows
    BY RowFacts
  <1>1. PICK k \in 1 .. (Len(log) + 1) : FitsFrom(ids, c, k)
    BY DEF Fits
  <1>2. k \in Nat /\ n \in Nat \ {0} /\ n \in 1 .. (Len(log) + 1)
    BY <1>0
  <1>3. CASE n >= k
    <2>1. FitsFrom(ids \cup {n}, c, k)
      BY <1>1, <1>3 DEF FitsFrom
    <2> QED
      BY <2>1 DEF Fits
  <1>4. CASE ~(n >= k)
    <2>1. n = 1 \/ Cardinality(Since(n, c)) >= PageSize
      BY <1>1, <1>2, <1>4, MoreSince DEF FitsFrom
    <2>2. \A m \in ids \cup {n} : m >= n /\ (m \in Present(c) \/ Coming("deleted", m))
      BY <1>0, <1>1, <1>2, <1>4 DEF FitsFrom
    <2>3. \A m \in Present(c) : m >= n => m \in ids \cup {n} \/ Coming("new", m)
      BY <1>0, <1>2
    <2>4. FitsFrom(ids \cup {n}, c, n)
      BY <2>1, <2>2, <2>3 DEF FitsFrom
    <2> QED
      BY <1>2, <2>4 DEF Fits
  <1> QED
    BY <1>3, <1>4

LEMMA FewerFits ==
    ASSUME NEW c, NEW ids, Fits(ids, c), NEW n, n \notin Present(c)
    PROVE  Fits(ids \ {n}, c)
  BY DEF Fits, FitsFrom

\* An older page that ends where the list begins.
LEMMA OlderFits ==
    ASSUME log \in Seq(Stored), NEW c, NEW ids, Fits(ids, c), ids \subseteq Rows,
           NEW target \in ids, NEW older, NEW first \in older, older \subseteq Rows,
           \A n \in older : first <= n,
           \A n \in older : n \in Present(c) \/ Coming("deleted", n),
           \A n \in Present(c) : n < target /\ n >= first => n \in older
    PROVE  Fits(older \cup ids, c)
  <1>0. Len(log) \in Nat /\ Rows = 1 .. Len(log) /\ Present(c) \subseteq Rows
    BY RowFacts
  <1>1. PICK k \in 1 .. (Len(log) + 1) : FitsFrom(ids, c, k)
    BY DEF Fits
  <1>2. k \in Nat /\ first \in Nat \ {0} /\ first \in 1 .. (Len(log) + 1) /\ target \in Nat
        /\ target >= k /\ \A n \in Rows : n \in Nat
    BY <1>0, <1>1 DEF FitsFrom
  <1>3. CASE first >= k
    <2>1. \A n \in older : n >= k
      BY <1>2, <1>3
    <2>2. FitsFrom(older \cup ids, c, k)
      BY <1>1, <2>1 DEF FitsFrom
    <2> QED
      BY <2>2 DEF Fits
  <1>4. CASE ~(first >= k)
    <2>1. first = 1 \/ Cardinality(Since(first, c)) >= PageSize
      BY <1>1, <1>2, <1>4, MoreSince DEF FitsFrom
    <2>2. \A n \in older \cup ids : n >= first /\ (n \in Present(c) \/ Coming("deleted", n))
      BY <1>1, <1>2, <1>4 DEF FitsFrom
    <2>3. ASSUME NEW n \in Present(c), n >= first PROVE n \in older \cup ids \/ Coming("new", n)
      <3>1. n \in Nat
        BY <1>0, <1>2
      <3>2. CASE n >= k
        BY <1>1, <3>2 DEF FitsFrom
      <3>3. CASE ~(n >= k)
        BY <1>2, <2>3, <3>1, <3>3
      <3> QED
        BY <3>2, <3>3
    <2>4. FitsFrom(older \cup ids, c, first)
      BY <2>1, <2>2, <2>3 DEF FitsFrom
    <2> QED
      BY <1>2, <2>4 DEF Fits
  <1> QED
    BY <1>3, <1>4

\* What the server writes does not unfit a list that is told of it.
LEMMA FitsStays ==
    ASSUME log \in Seq(Stored), log' \in Seq(Stored), Rows \subseteq Rows',
           \A n \in Rows : log'[n].channel = log[n].channel,
           NEW c, NEW ids, Fits(ids, c),
           \A n \in ids : n \in Present(c) => n \in Present(c)' \/ Coming("deleted", n)',
           \A n \in ids : Coming("deleted", n) => Coming("deleted", n)',
           \A n \in Present(c) : n \notin ids /\ Coming("new", n) => Coming("new", n)',
           \A n \in Present(c)' : n \in Present(c) \/ Coming("new", n)'
    PROVE  Fits(ids, c)'
  <1>0. Len(log) \in Nat /\ Rows = 1 .. Len(log) /\ Len(log') \in Nat /\ Rows' = 1 .. Len(log')
    BY RowFacts DEF Rows
  <1>1. PICK k \in 1 .. (Len(log) + 1) : FitsFrom(ids, c, k)
    BY DEF Fits
  <1>2. k \in 1 .. (Len(log') + 1)
    <2>1. Len(log) <= Len(log')
      BY <1>0
    <2> QED
      BY <1>0, <2>1
  <1>3. k = 1 \/ Cardinality(Since(k, c)') >= PageSize
    <2>1. Since(k, c) \in SUBSET Since(k, c)'
      BY DEF Since
    <2>2. IsFiniteSet(Since(k, c)')
      <3>1. IsFiniteSet(Rows')
        BY <1>0, FS_Interval
      <3>2. Since(k, c)' \in SUBSET Rows'
        BY DEF Since
      <3> QED
        BY <3>1, <3>2, FS_Subset
    <2>3. Cardinality(Since(k, c)) <= Cardinality(Since(k, c)') /\ Cardinality(Since(k, c)') \in Nat
      BY <2>1, <2>2, FS_Subset, FS_CardinalityType
    <2> QED
      BY <1>1, <2>3, RowFacts, PageAssumption DEF FitsFrom
  <1>4. \A n \in ids : n >= k /\ (n \in Present(c)' \/ Coming("deleted", n)')
    BY <1>1 DEF FitsFrom
  <1>5. \A n \in Present(c)' : n >= k => n \in ids \/ Coming("new", n)'
    BY <1>1 DEF FitsFrom
  <1>6. FitsFrom(ids, c, k)'
    BY <1>3, <1>4, <1>5 DEF FitsFrom
  <1> QED
    BY <1>2, <1>6 DEF Fits

-----------------------------------------------------------------------------
(* The events on their way: a message is followed by the later ones and by *)
(* its deletion, and nothing comes to a connection that is not subscribed. *)

After(i, type, n) == \E j \in DOMAIN down : j > i /\ down[j] = [type |-> type, id |-> n]
Heralds(i) ==
    IF down[i].type = "deleted" THEN ~log[down[i].id].present
    ELSE /\ \A m \in Rows : m > down[i].id => After(i, "new", m)
         /\ ~log[down[i].id].present => After(i, "deleted", down[i].id)
News ==
    /\ subscribed \/ down = <<>>
    /\ link = "up" => was
    /\ \A i \in DOMAIN down : Heralds(i)

LEMMA StoreFacts ==
    ASSUME log \in Seq(Stored), NEW c, NEW q,
           log' = Append(log, [channel |-> c, request |-> q, present |-> TRUE])
    PROVE  /\ Len(log') = Len(log) + 1 /\ Len(log) \in Nat
           /\ Rows = 1 .. Len(log) /\ Rows' = 1 .. (Len(log) + 1)
           /\ \A n \in Rows : log'[n] = log[n]
           /\ log'[Len(log')].channel = c /\ log'[Len(log')].present
  <1> DEFINE e == [channel |-> c, request |-> q, present |-> TRUE]
  <1>1. e.channel = c /\ e.present
    OBVIOUS
  <1>2. log' = Append(log, e)
    OBVIOUS
  <1> HIDE DEF e
  <1>3. /\ Len(log') = Len(log) + 1 /\ Len(log) \in Nat
        /\ Rows = 1 .. Len(log) /\ Rows' = 1 .. (Len(log) + 1)
        /\ \A n \in 1 .. Len(log) : log'[n] = log[n]
        /\ log'[Len(log) + 1] = e
    BY <1>2 DEF Rows
  <1> QED
    BY <1>1, <1>3

LEMMA DeleteFacts ==
    ASSUME log \in Seq(Stored), NEW n \in Rows, log' = [log EXCEPT ![n].present = FALSE]
    PROVE  /\ Rows' = Rows /\ Len(log') = Len(log)
           /\ ~log'[n].present /\ log'[n].channel = log[n].channel
           /\ \A m \in Rows : m # n => log'[m] = log[m]
  <1> DEFINE e == [log[n] EXCEPT !.present = FALSE]
  <1>1. log[n] \in Stored
    BY DEF Rows
  <1>2. ~e.present /\ e.channel = log[n].channel
    BY <1>1 DEF Stored
  <1>3. log' = [log EXCEPT ![n] = e]
    OBVIOUS
  <1> HIDE DEF e
  <1>4. DOMAIN log' = DOMAIN log /\ Len(log') = Len(log)
    BY <1>3
  <1> QED
    BY <1>2, <1>3, <1>4 DEF Rows

LEMMA ToldFacts ==
    ASSUME LInv, NEW type, NEW n, down' = Append(down, [type |-> type, id |-> n])
    PROVE  /\ DOMAIN down = 1 .. Len(down) /\ Len(down) \in Nat
           /\ DOMAIN down' = 1 .. (Len(down) + 1)
           /\ \A i \in DOMAIN down : down'[i] = down[i]
           /\ down'[Len(down) + 1] = [type |-> type, id |-> n]
           /\ \A i \in DOMAIN down : down[i] \in Notices(Rows)
  <1>1. down \in Seq(Notices(Rows))
    BY DEF LInv, TypeOK, Notices
  <1> DEFINE e == [type |-> type, id |-> n]
  <1> HIDE DEF e
  <1>2. down' = Append(down, e)
    BY DEF e
  <1> QED
    BY <1>1, <1>2 DEF e

LEMMA ToldAfter ==
    ASSUME LInv, NEW type, NEW n, down' = Append(down, [type |-> type, id |-> n])
    PROVE  /\ \A i \in DOMAIN down : After(i, type, n)'
           /\ \A i \in DOMAIN down : \A t, m : After(i, t, m) => After(i, t, m)'
           /\ \A t, m : Coming(t, m) => Coming(t, m)'
           /\ Coming(type, n)'
  <1>1. /\ DOMAIN down = 1 .. Len(down) /\ Len(down) \in Nat
        /\ DOMAIN down' = 1 .. (Len(down) + 1)
        /\ \A i \in DOMAIN down : down'[i] = down[i]
        /\ down'[Len(down) + 1] = [type |-> type, id |-> n]
    BY ToldFacts
  <1>2. \A i \in DOMAIN down : i \in DOMAIN down' /\ Len(down) + 1 > i
    BY <1>1
  <1>3. Len(down) + 1 \in DOMAIN down'
    BY <1>1
  <1> QED
    BY <1>1, <1>2, <1>3 DEF After, Coming

LEMMA TellsStored ==
    ASSUME LInv, News, NEW c, NEW q, StoreMessage(c, q)
    PROVE  \A i \in DOMAIN down' : Heralds(i)'
  <1>0. log \in Seq(Stored)
    BY LInvFacts
  <1>1. log' = Append(log, [channel |-> c, request |-> q, present |-> TRUE])
        /\ down' = Tell("new", Len(log'))
    BY DEF StoreMessage
  <1> PICK N : N = Len(log')
    OBVIOUS
  <1>2. /\ N = Len(log) + 1 /\ Len(log) \in Nat /\ Rows = 1 .. Len(log) /\ Rows' = 1 .. N
        /\ \A n \in Rows : log'[n] = log[n]
        /\ log'[N].present
    BY <1>0, <1>1, StoreFacts
  <1> SUFFICES ASSUME NEW i \in DOMAIN down' PROVE Heralds(i)'
    OBVIOUS
  <1>3. CASE ~subscribed
    BY <1>1, <1>3 DEF News, Tell
  <1>4. CASE subscribed
    <2>1. down' = Append(down, [type |-> "new", id |-> N])
      BY <1>1, <1>4 DEF Tell
    <2>2. /\ DOMAIN down = 1 .. Len(down) /\ Len(down) \in Nat
          /\ DOMAIN down' = 1 .. (Len(down) + 1)
          /\ \A k \in DOMAIN down : down'[k] = down[k] /\ down[k] \in Notices(Rows)
          /\ down'[Len(down) + 1] = [type |-> "new", id |-> N]
      BY <2>1, ToldFacts
    <2>3. CASE i \in DOMAIN down
      <3>1. down'[i] = down[i] /\ down[i].id \in Rows /\ Heralds(i)
        BY <2>2, <2>3 DEF News, Notices
      <3>2. log'[down[i].id] = log[down[i].id]
        BY <1>2, <3>1
      <3>3. After(i, "new", N)' /\ \A t, m : After(i, t, m) => After(i, t, m)'
        BY <2>1, <2>3, ToldAfter
      <3>4. \A m \in Rows' : m \in Rows \/ m = N
        BY <1>2
      <3> QED
        BY <3>1, <3>2, <3>3, <3>4 DEF Heralds
    <2>4. CASE i = Len(down) + 1
      <3>1. \A m \in Rows' : ~(m > N)
        BY <1>2
      <3>2. down'[i].type = "new" /\ down'[i].id = N
        BY <2>2, <2>4
      <3> QED
        BY <1>2, <3>1, <3>2 DEF Heralds
    <2> QED
      BY <2>2, <2>3, <2>4
  <1> QED
    BY <1>3, <1>4

LEMMA TellsDeleted ==
    ASSUME LInv, News, NEW n \in Rows, log' = [log EXCEPT ![n].present = FALSE],
           down' = Tell("deleted", n)
    PROVE  \A i \in DOMAIN down' : Heralds(i)'
  <1>1. /\ Rows' = Rows /\ ~log'[n].present
        /\ \A m \in Rows : m # n => log'[m] = log[m]
    BY LInvFacts, DeleteFacts
  <1> SUFFICES ASSUME NEW i \in DOMAIN down' PROVE Heralds(i)'
    OBVIOUS
  <1>2. CASE ~subscribed
    BY <1>2 DEF News, Tell
  <1>3. CASE subscribed
    <2>1. down' = Append(down, [type |-> "deleted", id |-> n])
      BY <1>3 DEF Tell
    <2>2. /\ DOMAIN down = 1 .. Len(down) /\ Len(down) \in Nat
          /\ DOMAIN down' = 1 .. (Len(down) + 1)
          /\ \A k \in DOMAIN down : down'[k] = down[k] /\ down[k] \in Notices(Rows)
          /\ down'[Len(down) + 1] = [type |-> "deleted", id |-> n]
      BY <2>1, ToldFacts
    <2>3. CASE i \in DOMAIN down
      <3>1. down'[i] = down[i] /\ down[i].id \in Rows /\ Heralds(i)
        BY <2>2, <2>3 DEF News, Notices
      <3>2. After(i, "deleted", n)' /\ \A t, m : After(i, t, m) => After(i, t, m)'
        BY <2>1, <2>3, ToldAfter
      <3> QED
        BY <1>1, <3>1, <3>2 DEF Heralds
    <2>4. CASE i = Len(down) + 1
      <3>1. down'[i].type = "deleted" /\ down'[i].id = n
        BY <2>2, <2>4
      <3> QED
        BY <1>1, <3>1 DEF Heralds
    <2> QED
      BY <2>2, <2>3, <2>4
  <1> QED
    BY <1>2, <1>3

LEMMA HandledFacts ==
    ASSUME LInv, down # <<>>, down' = Tail(down)
    PROVE  /\ Len(down) \in Nat \ {0} /\ DOMAIN down = 1 .. Len(down)
           /\ DOMAIN down' = 1 .. (Len(down) - 1)
           /\ \A i \in DOMAIN down' : down'[i] = down[i + 1]
           /\ Head(down) = down[1] /\ 1 \in DOMAIN down
           /\ \A i \in DOMAIN down : \A t, m : After(i, t, m) /\ i >= 1 => Coming(t, m)'
           /\ \A t, m : Coming(t, m) => Coming(t, m)' \/ down[1] = [type |-> t, id |-> m]
           /\ \A i \in DOMAIN down' : \A t, m : After(i + 1, t, m) => After(i, t, m)'
  <1>1. /\ Len(down) \in Nat \ {0} /\ DOMAIN down = 1 .. Len(down)
        /\ DOMAIN down' = 1 .. (Len(down) - 1)
        /\ \A i \in DOMAIN down' : down'[i] = down[i + 1]
        /\ Head(down) = down[1] /\ 1 \in DOMAIN down
    BY DEF LInv, TypeOK
  <1>2. ASSUME NEW j \in DOMAIN down, j # 1 PROVE j - 1 \in DOMAIN down' /\ down'[j - 1] = down[j]
    <2>1. j - 1 \in DOMAIN down' /\ (j - 1) + 1 = j
      BY <1>1, <1>2
    <2> QED
      BY <1>1, <2>1
  <1>3. \A i \in DOMAIN down : \A t, m : After(i, t, m) /\ i >= 1 => Coming(t, m)'
    <2> SUFFICES ASSUME NEW i \in DOMAIN down, NEW t, NEW m, After(i, t, m), i >= 1
                 PROVE  Coming(t, m)'
      OBVIOUS
    <2>1. PICK j \in DOMAIN down : j > i /\ down[j] = [type |-> t, id |-> m]
      BY DEF After
    <2>2. j # 1
      BY <1>1, <2>1
    <2>3. j - 1 \in DOMAIN down' /\ down'[j - 1] = [type |-> t, id |-> m]
      BY <1>2, <2>1, <2>2
    <2> QED
      BY <2>3 DEF Coming
  <1>4. \A t, m : Coming(t, m) => Coming(t, m)' \/ down[1] = [type |-> t, id |-> m]
    <2> SUFFICES ASSUME NEW t, NEW m, Coming(t, m), down[1] # [type |-> t, id |-> m]
                 PROVE  Coming(t, m)'
      OBVIOUS
    <2>1. PICK j \in DOMAIN down : down[j] = [type |-> t, id |-> m]
      BY DEF Coming
    <2>3. j - 1 \in DOMAIN down' /\ down'[j - 1] = [type |-> t, id |-> m]
      BY <1>2, <2>1
    <2> QED
      BY <2>3 DEF Coming
  <1>5. \A i \in DOMAIN down' : \A t, m : After(i + 1, t, m) => After(i, t, m)'
    <2> SUFFICES ASSUME NEW i \in DOMAIN down', NEW t, NEW m, After(i + 1, t, m)
                 PROVE  After(i, t, m)'
      OBVIOUS
    <2>1. PICK j \in DOMAIN down : j > i + 1 /\ down[j] = [type |-> t, id |-> m]
      BY DEF After
    <2>2. j # 1 /\ j - 1 > i
      BY <1>1, <2>1
    <2>3. j - 1 \in DOMAIN down' /\ down'[j - 1] = [type |-> t, id |-> m]
      BY <1>2, <2>1, <2>2
    <2> QED
      BY <2>2, <2>3 DEF After
  <1> QED
    BY <1>1, <1>3, <1>4, <1>5

LEMMA HandlesInOrder ==
    ASSUME LInv, News, down # <<>>, down' = Tail(down), log' = log
    PROVE  \A i \in DOMAIN down' : Heralds(i)'
  <1> SUFFICES ASSUME NEW i \in DOMAIN down' PROVE Heralds(i)'
    OBVIOUS
  <1>1. i + 1 \in DOMAIN down /\ down'[i] = down[i + 1]
        /\ \A t, m : After(i + 1, t, m) => After(i, t, m)'
    <2>1. /\ Len(down) \in Nat \ {0} /\ DOMAIN down = 1 .. Len(down)
          /\ DOMAIN down' = 1 .. (Len(down) - 1)
          /\ \A j \in DOMAIN down' : down'[j] = down[j + 1]
          /\ \A j \in DOMAIN down' : \A t, m : After(j + 1, t, m) => After(j, t, m)'
      BY HandledFacts
    <2> QED
      BY <2>1
  <1>2. Heralds(i + 1)
    BY <1>1 DEF News
  <1>3. Rows' = Rows
    BY DEF Rows
  <1> QED
    BY <1>1, <1>2, <1>3 DEF Heralds

LEMMA NewsKept ==
    ASSUME LInv, News, [Next]_vars
    PROVE  News'
  <1> DEFINE Kept == subscribed' \/ down' = <<>>
             Ordered == \A i \in DOMAIN down' : Heralds(i)'
  <1>1. link' = "up" => was'
    <2>1. UNCHANGED link_vars \/ Opens \/ Wanted \/ Exhausted \/ Loses
      BY DEF Next, LinkStep, Connects, Subscribes, Disconnects, GivesUp, SeeksConnection, HandleEvent,
         LeaveView, ReturnToView, OtherPosts, IsDeleted, ListStep, OpenChannel, LoadOlder, ReturnToLatest,
         JumpTo, ReadPage, Answered, RequestFails, SendStep, Retry, Discard, Send, Store, SendConfirmed,
         SendFails, DeleteMessage, Delete, DeleteRefused, DeleteConfirmed, network, vars, link_vars
    <2> QED
      BY <2>1 DEF News, link_vars, Opens, Wanted, Exhausted, Loses
  <1>2. ASSUME UNCHANGED <<log, down>> PROVE Ordered
    <2>1. Rows' = Rows
      BY <1>2 DEF Rows
    <2> QED
      BY <1>2, <2>1 DEF News, Heralds, After
  <1>3. ASSUME subscribed' = subscribed, NEW type, NEW n, down' = down \/ down' = Tell(type, n)
        PROVE  Kept
    BY <1>3 DEF News, Tell
  <1>4. CASE \/ LeaveView \/ ReturnToView \/ UNCHANGED vars
             \/ Connects \/ GivesUp \/ SeeksConnection
    <2>1. UNCHANGED <<log, down, subscribed>>
      BY <1>4 DEF LeaveView, ReturnToView, vars, Connects, GivesUp, SeeksConnection, network
    <2> QED
      BY <1>1, <1>2, <2>1 DEF News
  <1>5. CASE Subscribes
    <2>1. UNCHANGED <<log, down>> /\ subscribed'
      BY <1>5 DEF Subscribes
    <2> QED
      BY <1>1, <1>2, <2>1 DEF News
  <1>6. CASE Disconnects
    BY <1>1, <1>6 DEF Disconnects, News
  <1>7. CASE HandleEvent
    <2>1. down # <<>> /\ down' = Tail(down) /\ log' = log /\ subscribed' = subscribed
      BY <1>7 DEF HandleEvent, network
    <2>2. subscribed
      BY <2>1 DEF News
    <2> QED
      BY <1>1, <2>1, <2>2, HandlesInOrder DEF News
  <1>8. ASSUME NEW c, NEW q, StoreMessage(c, q), UNCHANGED network PROVE News'
    <2>1. down' = Tell("new", Len(log')) /\ subscribed' = subscribed
      BY <1>8 DEF StoreMessage, network
    <2>2. Kept
      BY <1>3, <2>1
    <2> QED
      BY <1>1, <1>8, <2>2, TellsStored DEF News
  <1>9. ASSUME NEW n \in Rows, log' = [log EXCEPT ![n].present = FALSE],
               down' = Tell("deleted", n), UNCHANGED network
        PROVE  News'
    <2>1. Kept
      BY <1>3, <1>9 DEF network
    <2> QED
      BY <1>1, <1>9, <2>1, TellsDeleted DEF News
  <1>10. CASE \E c \in Channels : OtherPosts(c)
    BY <1>8, <1>10 DEF OtherPosts
  <1>11. CASE \E n \in Rows : IsDeleted(n)
    BY <1>9, <1>11 DEF IsDeleted
  <1>12. CASE ListStep
    <2>1. UNCHANGED <<log, down, subscribed>>
      BY <1>12 DEF ListStep, OpenChannel, LoadOlder, ReturnToLatest, JumpTo, ReadPage, Answered,
         RequestFails, network
    <2> QED
      BY <1>1, <1>2, <2>1 DEF News
  <1>13. ASSUME NEW p \in posts, Store(p) PROVE News'
    <2>1. CASE UNCHANGED <<log, down>>
      BY <1>1, <1>2, <1>13, <2>1 DEF Store, News, network
    <2>2. CASE StoreMessage(attempt[p.attempt].channel, p.attempt)
      BY <1>8, <1>13, <2>2 DEF Store
    <2> QED
      BY <1>13, <2>1, <2>2 DEF Store
  <1>14. ASSUME NEW q \in removals, Delete(q) PROVE News'
    <2>1. q.row \in Rows
      BY DEF LInv, RemovalsKnown
    <2> QED
      BY <1>9, <1>14, <2>1 DEF Delete
  <1>15. CASE \/ \E a \in Attempts : Retry(a) \/ Discard(a) \/ \E t \in Texts : Send(a, t)
              \/ \E p \in posts : SendConfirmed(p) \/ SendFails(p)
              \/ \E n \in Rows : DeleteMessage(n)
              \/ \E q \in removals : DeleteRefused(q) \/ DeleteConfirmed(q)
    <2>1. UNCHANGED <<log, down, subscribed>>
      BY <1>15 DEF Retry, Discard, Send, SendConfirmed, SendFails, DeleteMessage, DeleteRefused,
         DeleteConfirmed, network
    <2> QED
      BY <1>1, <1>2, <2>1 DEF News
  <1> QED
    BY <1>4, <1>5, <1>6, <1>7, <1>10, <1>11, <1>12, <1>13, <1>14, <1>15 DEF Next, LinkStep, SendStep

-----------------------------------------------------------------------------
(* The pages on their way: only a request for the open channel counts, and *)
(* an older page holds all that is there between its first message and the *)
(* one it ends at. A deletion that is done is done for good.               *)

Whole(r) ==
    /\ \A n \in ToSet(r.page) : r.page[1] <= n
    /\ \A n \in Present(r.channel) :
           n < r.target /\ r.page # <<>> /\ n >= r.page[1] => n \in ToSet(r.page)
PageKnown(r) ==
    /\ r.current => r.channel = open
    /\ r.kind = "older" => /\ r.found # <<>> /\ r.target \in Rows /\ r.target = r.found[1].id
                           /\ r.page # None => Whole(r)
PagesKnown == \A r \in requests : PageKnown(r)
RemovalsDone == \A q \in removals : q.done => ~log[q.row].present

LEMMA PresentKept ==
    ASSUME LInv, [Next]_vars
    PROVE  \A n \in Rows : log'[n].present => log[n].present
  <1>0. log \in Seq(Stored)
    BY LInvFacts
  <1>1. CASE log' = log
    BY <1>1
  <1>2. ASSUME NEW c, NEW q, Stores(c, q) PROVE \A n \in Rows : log'[n].present => log[n].present
    BY <1>0, <1>2, StoreFacts DEF Stores
  <1>3. ASSUME NEW n, Deletes(n) PROVE \A m \in Rows : log'[m].present => log[m].present
    <2>1. /\ ~log'[n].present
          /\ \A m \in Rows : m # n => log'[m] = log[m]
      BY <1>0, <1>3, DeleteFacts DEF Deletes
    <2> QED
      BY <2>1
  <1> QED
    BY <1>1, <1>2, <1>3, MessageMoves DEF LogMoves

LEMMA WholeStays ==
    ASSUME LInv, [Next]_vars, NEW r, r.target \in Rows, Whole(r)
    PROVE  Whole(r)'
  <1>1. Rows' = 1 .. Len(log') /\ Rows = 1 .. Len(log) /\ Len(log) \in Nat
    BY LInvFacts DEF Rows
  <1>2. ASSUME NEW n \in Present(r.channel)', n < r.target PROVE n \in Present(r.channel)
    <2>1. n \in Rows
      BY <1>1, <1>2 DEF Present
    <2> QED
      BY <1>2, <2>1, PresentKept, LogKept DEF Present
  <1> QED
    BY <1>2 DEF Whole

LEMMA KnownStays ==
    ASSUME LInv, [Next]_vars, NEW r, PageKnown(r), r.current => open' = open
    PROVE  PageKnown(r)'
  <1>1. Rows \subseteq Rows'
    BY LogKept
  <1> QED
    BY <1>1, WholeStays DEF PageKnown

\* A request with a new number makes the others count no more.
LEMMA AskedKnown ==
    ASSUME LInv, [Next]_vars, PagesKnown, NEW kind \in Kinds \ {"older"}, NEW c \in Channels,
           NEW target \in OrNone(Nat), Ask(kind, c, target), open' = c
    PROVE  PagesKnown'
  <1> SUFFICES ASSUME NEW s \in requests' PROVE PageKnown(s)'
    BY DEF PagesKnown
  <1>1. CASE s = Request(kind, c, target)
    BY <1>1 DEF PageKnown, Request
  <1>2. ASSUME NEW r \in requests, s = [r EXCEPT !.current = FALSE] PROVE PageKnown(s)'
    <2>1. r \in Requests /\ PageKnown(r)
      BY LInvFacts DEF PagesKnown
    <2>2. /\ ~s.current /\ s.kind = r.kind /\ s.found = r.found /\ s.target = r.target
          /\ s.page = r.page /\ s.channel = r.channel
      BY <1>2, <2>1 DEF Requests
    <2>3. PageKnown(s)
      BY <2>1, <2>2 DEF PageKnown, Whole
    <2> QED
      BY <2>2, <2>3, KnownStays
  <1> QED
    BY <1>1, <1>2 DEF Ask

\* The newest messages of a set hold all that are newer than one of them.
LEMMA LastOfUpward ==
    ASSUME NEW S, S \subseteq Nat, IsFiniteSet(S), NEW k \in Nat, NEW m \in LastOf(S, k),
           NEW n \in S, m <= n
    PROVE  n \in LastOf(S, k)
  <1> DEFINE over(i) == {j \in S : j > i}
  <1>1. m \in Nat /\ n \in Nat /\ \A j \in S : j \in Nat
    BY DEF LastOf
  <1>2. over(n) \in SUBSET over(m) /\ over(m) \in SUBSET S
    <2>1. ASSUME NEW j \in S, j > n PROVE j > m
      <3>1. j \in Nat /\ n \in Nat /\ m \in Nat
        BY <1>1
      <3> QED
        BY <2>1, <3>1
    <2> QED
      BY <2>1
  <1>3. IsFiniteSet(over(m)) /\ IsFiniteSet(over(n))
    BY <1>2, FS_Subset
  <1>4. Cardinality(over(n)) <= Cardinality(over(m)) /\ Cardinality(over(n)) \in Nat
        /\ Cardinality(over(m)) \in Nat
    BY <1>2, <1>3, FS_Subset, FS_CardinalityType
  <1>5. Cardinality(over(m)) < k
    BY DEF LastOf
  <1>6. Cardinality(over(n)) < k
    <2> HIDE DEF over
    <2> QED
      BY <1>4, <1>5
  <1> QED
    BY <1>6 DEF LastOf

LEMMA PageIsWhole ==
    ASSUME LInv, NEW r \in requests, r.kind = "older", r.target \in Rows,
           NEW s, s = [r EXCEPT !.page = Ascending(ServerPage(r))]
    PROVE  Whole(s)
  <1> DEFINE c == r.channel
             S == {n \in Present(c) : r.target \in Present(c) /\ n < r.target}
             P == LastOf(S, PageSize)
  <1>0. r \in Requests /\ Rows \subseteq Nat /\ log \in Seq(Stored)
    BY LInvFacts
  <1>1. S \in SUBSET Present(c) /\ IsFiniteSet(Present(c)) /\ Present(c) \subseteq Nat
    BY <1>0, RowFacts
  <1>2. IsFiniteSet(S) /\ S \subseteq Nat
    BY <1>1, FS_Subset
  <1>3. P \in SUBSET S
    BY DEF LastOf
  <1>4. IsFiniteSet(P) /\ P \subseteq Nat
    BY <1>2, <1>3, FS_Subset
  <1>5. ServerPage(r) = P
    BY DEF ServerPage
  <1>6. s.page = Ascending(P) /\ s.channel = c /\ s.target = r.target
    BY <1>0, <1>5 DEF Requests
  <1> HIDE DEF P
  <1>7. ToSet(s.page) = P /\ (P # {} => s.page # <<>> /\ s.page[1] \in P /\ \A n \in P : s.page[1] <= n)
    BY <1>4, <1>6, AscendingHolds
  <1>8. P = {} => s.page = <<>>
    <2>1. s.page \in Seq(P)
      BY <1>4, <1>6, AscendingLists
    <2> QED
      BY <2>1
  <1>9. ASSUME NEW n \in Present(c), n < r.target, s.page # <<>>, n >= s.page[1]
        PROVE  n \in P
    <2>1. s.page[1] \in P
      BY <1>7, <1>8, <1>9
    <2>2. s.page[1] \in S
      BY <1>3, <2>1
    <2>3. n \in S
      BY <1>9, <2>2
    <2>4. s.page[1] <= n
      BY <1>1, <1>2, <1>9, <2>2
    <2> HIDE DEF S
    <2> QED
      BY <1>2, <2>1, <2>3, <2>4, LastOfUpward, PageAssumption DEF P
  <1> QED
    BY <1>6, <1>7, <1>9 DEF Whole

LEMMA ReadKnown ==
    ASSUME LInv, [Next]_vars, PagesKnown, NEW r \in requests, ReadPage(r)
    PROVE  PagesKnown'
  <1> DEFINE s == [r EXCEPT !.page = Ascending(ServerPage(r))]
  <1>1. r \in Requests /\ PageKnown(r)
    BY LInvFacts DEF PagesKnown
  <1>2. requests' = (requests \ {r}) \cup {s} /\ open' = open
    BY DEF ReadPage, view
  <1> PICK t : t = s
    OBVIOUS
  <1>3. /\ t.current = r.current /\ t.kind = r.kind /\ t.found = r.found /\ t.target = r.target
        /\ t.channel = r.channel
    BY <1>1 DEF Requests
  <1>4. t.kind = "older" => Whole(t)
    BY <1>1, <1>3, PageIsWhole DEF PageKnown
  <1> HIDE DEF s
  <1>5. PageKnown(t)
    BY <1>1, <1>3, <1>4 DEF PageKnown
  <1>6. \A q \in requests' : PageKnown(q)
    BY <1>2, <1>5 DEF PagesKnown
  <1> QED
    BY <1>2, <1>6, KnownStays DEF PagesKnown

LEMMA OlderKnown ==
    ASSUME LInv, [Next]_vars, PagesKnown, LoadOlder
    PROVE  PagesKnown'
  <1>1. /\ open \in Channels /\ cache[open] # <<>> /\ cache[open][1].id # None
        /\ requests' = requests \cup {Request("older", open, cache[open][1].id)} /\ open' = open
    BY LInvFacts DEF LoadOlder, view, OrNone
  <1> PICK t : t = Request("older", open, cache[open][1].id)
    OBVIOUS
  <1>2. cache[open] \in Seq(Fitting(open))
    BY <1>1, LInvFacts
  <1> DEFINE e == cache[open][1]
  <1>3. e \in Fitting(open)
    BY <1>1, <1>2
  <1>4. e.id \in Rows
    <2>1. e \in Entries /\ (e.attempt = None => e.id \in RowsOf(Home(open)))
          /\ (e.attempt # None => e \in Locals)
      BY <1>3, FromFacts DEF Fitting
    <2> HIDE DEF e
    <2>2. e.attempt = None
      BY <1>1, <2>1, EntryFacts DEF e
    <2> QED
      BY <2>1, <2>2 DEF RowsOf
  <1>5. /\ t.channel = open /\ t.found = cache[open] /\ t.target = e.id /\ t.page = None
    BY DEF Request
  <1>6. PageKnown(t)
    BY <1>1, <1>4, <1>5 DEF PageKnown
  <1>7. \A q \in requests' : PageKnown(q)
    BY <1>1, <1>6 DEF PagesKnown
  <1> QED
    BY <1>1, <1>7, KnownStays DEF PagesKnown

LEMMA FewerKnown ==
    ASSUME LInv, [Next]_vars, PagesKnown, requests' \subseteq requests, open' = open
    PROVE  PagesKnown'
  BY KnownStays DEF PagesKnown

LEMMA PagesKnownKept ==
    ASSUME LInv, [Next]_vars, PagesKnown
    PROVE  PagesKnown'
  <1>0. open \in OrNone(Channels) /\ Rows \subseteq Nat /\ None \in OrNone(Nat)
        /\ \A n \in Rows : n \in OrNone(Nat)
    BY LInvFacts DEF OrNone
  <1>1. ASSUME NEW c \in Channels, OpenChannel(c) PROVE PagesKnown'
    BY <1>0, <1>1, AskedKnown DEF OpenChannel, Kinds
  <1>2. CASE ReturnToLatest
    BY <1>0, <1>2, AskedKnown DEF ReturnToLatest, Kinds, view, OrNone
  <1>3. ASSUME NEW n \in Rows, JumpTo(n) PROVE PagesKnown'
    BY <1>0, <1>3, AskedKnown DEF JumpTo, Kinds, view, OrNone
  <1>4. CASE Connects
    <2>1. open' = open
      BY <1>4 DEF Connects, view
    <2>2. CASE UNCHANGED requests
      BY <2>1, <2>2, FewerKnown
    <2>3. CASE open # None /\ Ask("refresh", open, None)
      BY <1>0, <2>1, <2>3, AskedKnown DEF Kinds, OrNone
    <2> QED
      BY <1>4, <2>2, <2>3 DEF Connects
  <1>5. CASE LoadOlder
    BY <1>5, OlderKnown
  <1>6. ASSUME NEW r \in requests, ReadPage(r) PROVE PagesKnown'
    BY <1>6, ReadKnown
  <1>7. ASSUME NEW r \in requests, Answered(r) \/ RequestFails(r) PROVE PagesKnown'
    <2>1. requests' \subseteq requests /\ open' = open
      BY <1>7 DEF Answered, RequestFails, view
    <2> QED
      BY <2>1, FewerKnown
  <1>8. CASE \/ LeaveView \/ ReturnToView \/ UNCHANGED vars \/ HandleEvent
             \/ Subscribes \/ Disconnects \/ GivesUp \/ SeeksConnection
             \/ (\E c \in Channels : OtherPosts(c)) \/ (\E n \in Rows : IsDeleted(n))
    <2>1. requests' = requests /\ open' = open
      BY <1>8 DEF LeaveView, ReturnToView, vars, HandleEvent, Subscribes, Disconnects, GivesUp,
         SeeksConnection, OtherPosts, IsDeleted, view
    <2> QED
      BY <2>1, FewerKnown
  <1>9. CASE SendStep
    <2>1. requests' = requests /\ open' = open
      BY <1>9 DEF SendStep, Retry, Discard, Send, Store, SendConfirmed, SendFails, DeleteMessage,
         Delete, DeleteRefused, DeleteConfirmed, view
    <2> QED
      BY <2>1, FewerKnown
  <1> QED
    BY <1>1, <1>2, <1>3, <1>4, <1>5, <1>6, <1>7, <1>8, <1>9 DEF Next, LinkStep, ListStep

LEMMA RemovalsDoneKept ==
    ASSUME LInv, [Next]_vars, RemovalsDone
    PROVE  RemovalsDone'
  <1> SUFFICES ASSUME NEW s \in removals', s.done PROVE ~log'[s.row].present
    BY DEF RemovalsDone
  <1>0. \A q \in removals : q \in Removals /\ q.row \in Rows
    BY LInvFacts DEF LInv, RemovalsKnown
  <1>1. CASE s \in removals
    BY <1>0, <1>1, PresentKept DEF RemovalsDone
  <1>2. CASE s \notin removals
    <2>1. ASSUME NEW q \in removals, Delete(q) PROVE ~log'[s.row].present
      <3>1. s = [q EXCEPT !.done = TRUE]
        BY <1>2, <2>1 DEF Delete
      <3>2. s.row = q.row
        BY <1>0, <3>1 DEF Removals
      <3>3. ~log'[q.row].present
        <4>1. log \in Seq(Stored) /\ q.row \in Rows /\ log' = [log EXCEPT ![q.row].present = FALSE]
          BY <1>0, <2>1, LInvFacts DEF Delete
        <4> QED
          BY <4>1, DeleteFacts
      <3> QED
        BY <3>2, <3>3
    <2>2. ASSUME NEW n \in Rows, DeleteMessage(n) PROVE FALSE
      <3>1. s = [row |-> n, channel |-> open, done |-> FALSE]
        BY <1>2, <2>2 DEF DeleteMessage
      <3> QED
        BY <3>1
    <2>3. CASE removals' \subseteq removals
      BY <1>2, <2>3
    <2>4. CASE \/ LinkStep \/ LeaveView \/ ReturnToView \/ UNCHANGED vars \/ HandleEvent
               \/ (\E c \in Channels : OtherPosts(c)) \/ (\E n \in Rows : IsDeleted(n))
      <3>1. removals' = removals
        BY <2>4 DEF LinkStep, LeaveView, ReturnToView, vars, HandleEvent, Connects, Subscribes, Disconnects,
           GivesUp, SeeksConnection, OtherPosts, IsDeleted, sending
      <3> QED
        BY <2>3, <3>1
    <2>5. CASE ListStep
      <3>1. removals' = removals
        BY <2>5 DEF ListStep, OpenChannel, LoadOlder, ReturnToLatest, JumpTo, ReadPage, Answered,
           RequestFails, sending
      <3> QED
        BY <2>3, <3>1
    <2>6. CASE \/ \E a \in Attempts : Retry(a) \/ Discard(a) \/ \E t \in Texts : Send(a, t)
               \/ \E p \in posts : Store(p) \/ SendConfirmed(p) \/ SendFails(p)
               \/ \E q \in removals : DeleteRefused(q) \/ DeleteConfirmed(q)
      <3>1. removals' \subseteq removals
        BY <2>6 DEF Retry, Discard, Send, Store, SendConfirmed, SendFails, DeleteRefused,
           DeleteConfirmed, sending
      <3> QED
        BY <2>3, <3>1
    <2> QED
      BY <2>1, <2>2, <2>4, <2>5, <2>6 DEF Next, SendStep
  <1> QED
    BY <1>1, <1>2

-----------------------------------------------------------------------------
(* The open channel's list: while no page of it is expected and it is not  *)
(* torn, it is the one kept for the channel, and fits.                     *)

Waited == (link # "up" /\ was) \/ Loading({"open", "refresh"})
Watched == open # None /\ open \notin torn /\ historical # open /\ ~Waited
Right == Watched => shown = cache[open] /\ Fits(Ids(shown), open)

LEMMA FittingIds ==
    ASSUME LInv, NEW c \in Channels, NEW list \in Seq(Fitting(c))
    PROVE  /\ list \in Seq(Entries) /\ Ids(list) \subseteq Rows
           /\ Careful => \A n \in Ids(list) : log[n].channel = c
  <1>1. Fitting(c) \subseteq Entries
    BY FromFacts DEF Fitting
  <1>2. list \in Seq(Entries)
    BY <1>1, SeqMonotonic
  <1>3. ToSet(list) \subseteq Fitting(c) /\ Ids(list) = {e.id : e \in ToSet(list)} \ {None}
    BY ElementsOf
  <1>4. ASSUME NEW n \in Ids(list) PROVE n \in RowsOf(Home(c))
    <2>1. PICK e \in Fitting(c) : n = e.id /\ n # None
      BY <1>3, <1>4
    <2>2. e \in Entries /\ (e.attempt # None => e \in Locals)
          /\ (e.attempt = None => e.id \in RowsOf(Home(c)))
      BY FromFacts DEF Fitting
    <2> QED
      BY <2>1, <2>2, EntryFacts
  <1> QED
    BY <1>2, <1>4 DEF RowsOf, Home

LEMMA ShownIds ==
    ASSUME LInv, open # None
    PROVE  /\ open \in Channels /\ shown \in Seq(Fitting(open)) /\ shown \in Seq(Entries)
           /\ Ids(shown) \subseteq Rows
           /\ Careful => \A n \in Ids(shown) : log[n].channel = open
  <1>1. open \in Channels /\ shown \in Seq(Fitting(open))
    BY LInvFacts DEF OrNone
  <1> QED
    BY <1>1, FittingIds

LEMMA KeptFits ==
    ASSUME log' = log, down' = down, NEW c, NEW ids, Fits(ids, c)
    PROVE  Fits(ids, c)'
  BY DEF Fits, FitsFrom, Since, Present, Coming, Rows

\* From here on the lists of a step are named, and compared with the next state.
LEMMA RightWith ==
    ASSUME NEW list, open' = open,
           Watched' => shown' = list /\ cache'[open] = list /\ \E ids, c : ids = Ids(list) /\ c = open
                                                                          /\ Fits(ids, c)'
    PROVE  Right'
  <1> SUFFICES ASSUME Watched' PROVE shown' = cache'[open'] /\ Fits(Ids(shown), open)'
    BY DEF Right
  <1>1. shown' = list /\ cache'[open'] = list
    OBVIOUS
  <1>2. PICK ids, c : ids = Ids(list) /\ c = open /\ Fits(ids, c)'
    OBVIOUS
  <1>3. Ids(shown)' = ids /\ open' = c
    BY <1>1, <1>2 DEF Ids
  <1>4. Fits(Ids(shown), open)'
    BY <1>2, <1>3
  <1> QED
    BY <1>1, <1>4

LEMMA KeptRight ==
    ASSUME Right, open' = open, shown' = shown, cache' = cache, log' = log, down' = down,
           Watched' => Watched
    PROVE  Right'
  <1> SUFFICES ASSUME Watched'
               PROVE  /\ cache'[open] = shown
                      /\ \E ids, c : ids = Ids(shown) /\ c = open /\ Fits(ids, c)'
    BY RightWith
  <1>1. shown = cache[open] /\ Fits(Ids(shown), open)
    BY DEF Right
  <1> PICK ids, c : ids = Ids(shown) /\ c = open
    OBVIOUS
  <1>2. Fits(ids, c)'
    BY <1>1, KeptFits
  <1> QED
    BY <1>1, <1>2

LEMMA ChangedRight ==
    ASSUME LInv, Right, open' = open, log' = log, down' = down, NEW d \in Channels, NEW list,
           Keep(d, list),
           Watched' => IF d = open THEN Fits(Ids(list), open) ELSE Watched
    PROVE  Right'
  <1>1. cache \in [Channels -> Seq(Entries)] /\ open \in OrNone(Channels)
    BY LInvFacts
  <1>2. CASE d = open
    <2>1. shown' = list /\ cache'[open] = list
      BY <1>1, <1>2 DEF Keep
    <2> SUFFICES ASSUME Watched' PROVE \E ids, c : ids = Ids(list) /\ c = open /\ Fits(ids, c)'
      BY <2>1, RightWith
    <2>2. Fits(Ids(list), open)
      BY <1>2
    <2> PICK ids, c : ids = Ids(list) /\ c = open
      OBVIOUS
    <2>3. Fits(ids, c)'
      BY <2>2, KeptFits
    <2> QED
      BY <2>3
  <1>3. CASE d # open
    <2>1. shown' = shown
      BY <1>3 DEF Keep
    <2> SUFFICES ASSUME Watched'
                 PROVE  /\ cache'[open] = shown
                        /\ \E ids, c : ids = Ids(shown) /\ c = open /\ Fits(ids, c)'
      BY <2>1, RightWith
    <2>2. shown = cache[open] /\ Fits(Ids(shown), open) /\ open # None
      BY <1>3 DEF Right, Watched
    <2>3. cache'[open] = cache[open]
      BY <1>1, <1>3, <2>2 DEF Keep, OrNone
    <2> PICK ids, c : ids = Ids(shown) /\ c = open
      OBVIOUS
    <2>4. Fits(ids, c)'
      BY <2>2, KeptFits
    <2> QED
      BY <2>2, <2>3, <2>4
  <1> QED
    BY <1>2, <1>3

\* What the server writes reaches the open channel as an event, or tears it,
\* or comes with the page that is expected.
LEMMA WrittenRight ==
    ASSUME LInv, Right, [Next]_vars, NEW d \in Channels, NEW n \in Rows', log'[n].channel = d,
           torn' = torn \cup Unnoticed(d), UNCHANGED <<network, view, lists, requests>>,
           \A m \in Rows : m # n => log'[m] = log[m],
           \A m \in Rows' : m \in Rows \/ m = n,
           \/ n \notin Rows /\ down' = Tell("new", n)
           \/ n \in Rows /\ ~log'[n].present /\ down' = Tell("deleted", n)
    PROVE  Right'
  <1>0. /\ open' = open /\ shown' = shown /\ cache' = cache /\ requests' = requests
        /\ historical' = historical /\ link' = link /\ was' = was
    BY DEF network, view, lists, link_vars
  <1> SUFFICES ASSUME Watched'
               PROVE  /\ cache'[open] = shown
                      /\ \E ids, c : ids = Ids(shown) /\ c = open /\ Fits(ids, c)'
    BY <1>0, RightWith
  <1>1. Watched
    BY <1>0 DEF Watched, Waited, Loading, Current
  <1>2. shown = cache[open] /\ Fits(Ids(shown), open) /\ open # None /\ Ids(shown) \subseteq Rows
    BY <1>1, ShownIds DEF Right, Watched
  <1> PICK ids, c : ids = Ids(shown) /\ c = open
    OBVIOUS
  <1>3. d = c => subscribed
    <2>1. open \notin torn' /\ ~Waited
      BY <1>0, <1>1 DEF Watched
    <2> QED
      BY <2>1 DEF Unnoticed, Waited
  <1>4. /\ log \in Seq(Stored) /\ log' \in Seq(Stored) /\ Rows \subseteq Rows'
        /\ \A m \in Rows : log'[m].channel = log[m].channel
    BY LogKept, LInvFacts
  <1>5. \A m \in Rows : log'[m].present => log[m].present
    BY PresentKept
  <1>6. \A t, m : Coming(t, m) => Coming(t, m)'
    <2>1. down' = down \/ \E t : down' = Append(down, [type |-> t, id |-> n])
      BY DEF Tell
    <2>2. ASSUME NEW t, down' = Append(down, [type |-> t, id |-> n])
          PROVE  \A u, m : Coming(u, m) => Coming(u, m)'
      BY <2>2, ToldAfter
    <2> QED
      BY <2>1, <2>2 DEF Coming
  <1>7. ASSUME subscribed
        PROVE  IF n \in Rows THEN Coming("deleted", n)' ELSE Coming("new", n)'
    <2>1. n \in Rows => down' = Append(down, [type |-> "deleted", id |-> n])
      BY <1>7 DEF Tell
    <2>2. n \notin Rows => down' = Append(down, [type |-> "new", id |-> n])
      BY <1>7 DEF Tell
    <2> QED
      BY <2>1, <2>2, ToldAfter
  <1>8. \A m \in ids : m \in Present(c) => m \in Present(c)' \/ Coming("deleted", m)'
    <2> SUFFICES ASSUME NEW m \in Present(c) PROVE m \in Present(c)' \/ Coming("deleted", m)'
      OBVIOUS
    <2>1. m \in Rows /\ log[m].channel = c /\ log[m].present
      BY DEF Present
    <2>2. CASE m = n
      BY <1>3, <1>4, <1>7, <2>1, <2>2
    <2>3. CASE m # n
      BY <1>4, <2>1, <2>3 DEF Present
    <2> QED
      BY <2>2, <2>3
  <1>9. \A m \in Present(c)' : m \in Present(c) \/ Coming("new", m)'
    <2> SUFFICES ASSUME NEW m \in Present(c)' PROVE m \in Present(c) \/ Coming("new", m)'
      OBVIOUS
    <2>1. m \in Rows' /\ log'[m].channel = c /\ log'[m].present
      BY DEF Present
    <2>2. CASE m \in Rows
      BY <1>4, <1>5, <2>1, <2>2 DEF Present
    <2>3. CASE m \notin Rows
      BY <1>3, <1>7, <2>1, <2>3
    <2> QED
      BY <2>2, <2>3
  <1>10. Fits(ids, c)
    BY <1>2
  <1>11. Fits(ids, c)'
    BY <1>4, <1>6, <1>8, <1>9, <1>10, FitsStays
  <1> QED
    BY <1>0, <1>2, <1>11

LEMMA StoredRight ==
    ASSUME LInv, Right, [Next]_vars, NEW d \in Channels, NEW q, StoreMessage(d, q),
           UNCHANGED <<network, view, lists, requests>>
    PROVE  Right'
  <1>0. /\ log \in Seq(Stored)
        /\ log' = Append(log, [channel |-> d, request |-> q, present |-> TRUE])
        /\ down' = Tell("new", Len(log')) /\ torn' = torn \cup Unnoticed(d)
    BY LInvFacts DEF StoreMessage
  <1> PICK n : n = Len(log')
    OBVIOUS
  <1>1. /\ n = Len(log) + 1 /\ Len(log) \in Nat
        /\ Rows = 1 .. Len(log) /\ Rows' = 1 .. (Len(log) + 1)
        /\ \A m \in Rows : log'[m] = log[m]
        /\ log'[n].channel = d
    BY <1>0, StoreFacts
  <1>2. n \in Rows' /\ n \notin Rows /\ \A m \in Rows' : m \in Rows \/ m = n
    BY <1>1
  <1> QED
    BY <1>0, <1>1, <1>2, WrittenRight

LEMMA DeletedRight ==
    ASSUME LInv, Right, [Next]_vars, NEW n \in Rows, log' = [log EXCEPT ![n].present = FALSE],
           down' = Tell("deleted", n), torn' = torn \cup Unnoticed(log[n].channel),
           UNCHANGED <<network, view, lists, requests>>
    PROVE  Right'
  <1>1. log \in Seq(Stored) /\ log[n].channel \in Channels
    BY LInvFacts
  <1>2. /\ Rows' = Rows /\ ~log'[n].present /\ log'[n].channel = log[n].channel
        /\ \A m \in Rows : m # n => log'[m] = log[m]
    BY <1>1, DeleteFacts
  <1> QED
    BY <1>1, <1>2, WrittenRight

LEMMA HandledFits ==
    ASSUME LInv, down # <<>>, down' = Tail(down), log' = log, NEW c, NEW ids, Fits(ids, c),
           NEW n, n = Head(down).id,
           IF Head(down).type = "deleted" THEN n \notin ids ELSE n \in ids \/ n \notin Present(c)
    PROVE  Fits(ids, c)'
  <1>1. /\ \A t, m : Coming(t, m) => Coming(t, m)' \/ down[1] = [type |-> t, id |-> m]
        /\ Head(down) = down[1]
    BY HandledFacts
  <1>2. \A t, m : down[1] = [type |-> t, id |-> m] => Head(down).type = t /\ n = m
    BY <1>1
  <1>3. ASSUME NEW m \in ids, Coming("deleted", m) PROVE Coming("deleted", m)'
    <2>1. ASSUME down[1] = [type |-> "deleted", id |-> m] PROVE FALSE
      <3>1. Head(down).type = "deleted" /\ n = m
        BY <1>2, <2>1
      <3> QED
        BY <3>1
    <2> QED
      BY <1>1, <1>3, <2>1
  <1>4. ASSUME NEW m \in Present(c), m \notin ids, Coming("new", m) PROVE Coming("new", m)'
    <2>1. ASSUME down[1] = [type |-> "new", id |-> m] PROVE FALSE
      <3>1. Head(down).type = "new" /\ n = m
        BY <1>2, <2>1
      <3> QED
        BY <1>4, <3>1
    <2> QED
      BY <1>1, <1>4, <2>1
  <1>5. Present(c)' = Present(c) /\ Rows' = Rows /\ log \in Seq(Stored) /\ log' \in Seq(Stored)
    BY LInvFacts DEF Present, Rows
  <1> QED
    BY <1>3, <1>4, <1>5, FitsStays

\* The event of a message that is new comes before those of the later ones.
LEMMA NewRight ==
    ASSUME LInv, Careful, News, Right, HandleEvent, Head(down).type = "new"
    PROVE  Right'
  <1> PICK n : n = Head(down).id
    OBVIOUS
  <1>0. /\ down # <<>> /\ down' = Tail(down) /\ log' = log /\ open' = open /\ requests' = requests
        /\ historical' = historical /\ link' = link /\ was' = was /\ NewMessage(n) /\ n \in Rows
    BY NoticeFacts DEF HandleEvent, network, link_vars
  <1>1. log[n].channel \in Channels /\ Rows \subseteq Nat /\ n \in Nat
    BY <1>0, LInvFacts
  <1>2. /\ \A m \in Rows : m > n => Coming("new", m)
        /\ ~log[n].present => Coming("deleted", n)
    <2>1. /\ 1 \in DOMAIN down /\ Head(down) = down[1]
      BY <1>0, HandledFacts
    <2>2. Heralds(1)
      BY <2>1 DEF News
    <2>3. down[1].type # "deleted"
      BY <2>1
    <2>4. /\ \A m \in Rows : m > n => After(1, "new", m)
          /\ ~log[n].present => After(1, "deleted", n)
      BY <2>1, <2>2, <2>3 DEF Heralds
    <2> QED
      BY <2>4 DEF After, Coming
  <1>3. CASE log[n].channel = open /\ ~active
    <2>1. open \in torn'
      BY <1>0, <1>3 DEF NewMessage
    <2> QED
      BY <1>0, <2>1 DEF Right, Watched
  <1>4. CASE log[n].channel # open
    <2>1. shown' = shown /\ torn' = torn
          /\ (cache' = cache \/ cache' = [cache EXCEPT ![log[n].channel] = Append(@, Row(n))])
      BY <1>0, <1>4 DEF NewMessage
    <2> SUFFICES ASSUME Watched'
                 PROVE  /\ cache'[open] = shown
                        /\ \E ids, c : ids = Ids(shown) /\ c = open /\ Fits(ids, c)'
      BY <1>0, <2>1, RightWith
    <2>2. Watched
      BY <1>0, <2>1 DEF Watched, Waited, Loading, Current
    <2>3. shown = cache[open] /\ Fits(Ids(shown), open) /\ open \in Channels
      BY <2>2, ShownIds DEF Right, Watched
    <2>4. cache'[open] = cache[open]
      <3>1. cache \in [Channels -> Seq(Entries)]
        BY LInvFacts
      <3> QED
        BY <1>1, <1>4, <2>1, <2>3, <3>1
    <2> PICK ids, c : ids = Ids(shown) /\ c = open
      OBVIOUS
    <2>5. n \notin Present(c)
      BY <1>4 DEF Present
    <2>6. Fits(ids, c)
      BY <2>3
    <2>7. Fits(ids, c)'
      BY <1>0, <2>5, <2>6, HandledFits
    <2> QED
      BY <2>3, <2>4, <2>7
  <1>5. CASE log[n].channel = open /\ active
    <2> PICK list : list = shown'
      OBVIOUS
    <2> SUFFICES ASSUME Watched'
                 PROVE  /\ cache'[open] = list
                        /\ \E ids, c : ids = Ids(list) /\ c = open /\ Fits(ids, c)'
      BY <1>0, RightWith
    <2>1. torn' = torn
      BY <1>0, <1>5 DEF NewMessage
    <2>2. Watched
      BY <1>0, <2>1 DEF Watched, Waited, Loading, Current
    <2>3. /\ shown = cache[open] /\ Fits(Ids(shown), open) /\ open \in Channels /\ shown \in Seq(Entries)
          /\ Ids(shown) \subseteq Rows
      BY <2>2, ShownIds DEF Right, Watched
    <2>4. CASE HasRow(shown, n)
      <3>1. shown' = shown /\ cache' = cache
        BY <1>0, <1>5, <2>4 DEF NewMessage
      <3> PICK ids, c : ids = Ids(list) /\ c = open
        OBVIOUS
      <3>2. Fits(ids, c) /\ n \in ids
        BY <2>3, <2>4, <3>1 DEF HasRow
      <3>3. Fits(ids, c)'
        BY <1>0, <3>2, HandledFits
      <3> QED
        BY <2>3, <3>1, <3>3
    <2>5. CASE ~HasRow(shown, n)
      <3> DEFINE awaited == IF log[n].request = None THEN {}
                            ELSE {Local(a, "sending") : a \in Saying(attempt[log[n].request].text)}
                 kept == Without(shown, awaited)
      <3>1. Keep(open, Append(kept, Row(n)))
        BY <1>0, <1>5, <2>5 DEF NewMessage
      <3>2. awaited \subseteq Locals
        BY EntryFacts DEF Saying
      <3> HIDE DEF awaited
      <3>3. kept \in Seq(Entries) /\ Ids(kept) = Ids(shown)
        BY <2>3, <3>2, WithoutIds
      <3> HIDE DEF kept
      <3>4. Row(n) \in Entries
        BY <1>1, EntryFacts
      <3>5. Ids(Append(kept, Row(n))) = Ids(shown) \cup {n}
        BY <1>1, <3>3, <3>4, AppendedIds
      <3>6. list = Append(kept, Row(n)) /\ cache'[open] = list
        <4>1. cache \in [Channels -> Seq(Entries)]
          BY LInvFacts
        <4> QED
          BY <2>3, <3>1, <4>1 DEF Keep
      <3> PICK old, ids, c : old = Ids(shown) /\ ids = Ids(list) /\ c = open
        OBVIOUS
      <3>7. ids = old \cup {n} /\ Fits(old, c) /\ old \subseteq Rows
        BY <2>3, <3>5, <3>6
      <3>8. n \in Present(c) \/ Coming("deleted", n)
        BY <1>0, <1>2, <1>5 DEF Present
      <3>9. \A m \in Present(c) \ old : m > n => Coming("new", m)
        BY <1>2 DEF Present
      <3>10. log \in Seq(Stored)
        BY LInvFacts
      <3>11. Fits(ids, c)
        BY <1>0, <3>7, <3>8, <3>9, <3>10, MoreFits
      <3>12. Fits(ids, c)'
        BY <1>0, <3>7, <3>11, HandledFits
      <3> QED
        BY <3>6, <3>12
    <2> QED
      BY <2>4, <2>5
  <1> QED
    BY <1>3, <1>4, <1>5

LEMMA GoneRight ==
    ASSUME LInv, Careful, News, Right, HandleEvent, Head(down).type = "deleted"
    PROVE  Right'
  <1> PICK n : n = Head(down).id
    OBVIOUS
  <1>0. /\ down # <<>> /\ down' = Tail(down) /\ log' = log /\ open' = open /\ requests' = requests
        /\ historical' = historical /\ link' = link /\ was' = was /\ MessageDeleted(n) /\ n \in Rows
    BY NoticeFacts DEF HandleEvent, network, link_vars
  <1>1. log[n].channel \in Channels /\ n \in Nat
    BY <1>0, LInvFacts
  <1>2. ~log[n].present
    <2>1. /\ 1 \in DOMAIN down /\ Head(down) = down[1]
      BY <1>0, HandledFacts
    <2>2. Heralds(1)
      BY <2>1 DEF News
    <2> QED
      BY <2>1, <2>2 DEF Heralds
  <1> PICK list : list = shown'
    OBVIOUS
  <1> SUFFICES ASSUME Watched'
               PROVE  /\ cache'[open] = list
                      /\ \E ids, c : ids = Ids(list) /\ c = open /\ Fits(ids, c)'
    BY <1>0, RightWith
  <1>3. /\ torn' = torn
        /\ list = IF log[n].channel = open THEN Without(shown, {Row(n)}) ELSE shown
        /\ cache' = [cache EXCEPT ![log[n].channel] = Without(@, {Row(n)})]
    BY <1>0 DEF MessageDeleted
  <1>4. Watched
    BY <1>0, <1>3 DEF Watched, Waited, Loading, Current
  <1>5. /\ shown = cache[open] /\ Fits(Ids(shown), open) /\ open \in Channels /\ shown \in Seq(Entries)
        /\ \A m \in Ids(shown) : log[m].channel = open
    BY <1>4, ShownIds DEF Right, Watched
  <1>6. cache'[open] = list
    <2>1. cache \in [Channels -> Seq(Entries)]
      BY LInvFacts
    <2> QED
      BY <1>1, <1>3, <1>5, <2>1
  <1>7. Ids(list) = Ids(shown) \ {n}
    <2>1. CASE log[n].channel = open
      BY <1>1, <1>3, <1>5, <2>1, WithoutIds
    <2>2. CASE log[n].channel # open
      BY <1>3, <1>5, <2>2
    <2> QED
      BY <2>1, <2>2
  <1> PICK old, ids, c : old = Ids(shown) /\ ids = Ids(list) /\ c = open
    OBVIOUS
  <1>8. ids = old \ {n} /\ Fits(old, c) /\ n \notin Present(c)
    BY <1>2, <1>5, <1>7 DEF Present
  <1>9. Fits(ids, c)
    BY <1>8, FewerFits
  <1>10. Fits(ids, c)'
    BY <1>0, <1>8, <1>9, HandledFits
  <1> QED
    BY <1>6, <1>10

LEMMA EventRight ==
    ASSUME LInv, Careful, News, Right, HandleEvent
    PROVE  Right'
  BY NewRight, GoneRight DEF HandleEvent

LEMMA SameIdsRight ==
    ASSUME LInv, Right, open' = open, log' = log, down' = down, NEW d \in Channels, NEW list,
           Keep(d, list), Watched' => Watched, d = open => Ids(list) = Ids(shown)
    PROVE  Right'
  <1>1. Watched' => IF d = open THEN Fits(Ids(list), open) ELSE Watched
    BY DEF Right
  <1> QED
    BY <1>1, ChangedRight

LEMMA WritingRight ==
    ASSUME LInv, Right, NEW a \in Attempts, Retry(a) \/ Discard(a) \/ \E t \in Texts : Send(a, t)
    PROVE  Right'
  <1>0. /\ open # None /\ open' = open /\ log' = log /\ down' = down /\ requests' = requests
        /\ historical' = historical /\ link' = link /\ was' = was /\ torn' = torn
    BY DEF Retry, Discard, Send, network, view, link_vars, history
  <1>1. shown \in Seq(Entries) /\ open \in Channels
    BY <1>0, ShownIds
  <1>2. Watched' => Watched
    BY <1>0 DEF Watched, Waited, Loading, Current
  <1>3. /\ Local(a, "sending") \in Locals /\ Local(a, "sending") \in Entries
        /\ LocalsOf(a) \subseteq Locals
    BY EntryFacts DEF LocalsOf
  <1>4. CASE Retry(a)
    <2> PICK list : list = Replace(shown, a, Local(a, "sending"))
      OBVIOUS
    <2>1. Keep(open, list) /\ Ids(list) = Ids(shown)
      BY <1>1, <1>3, <1>4, ReplacedIds DEF Retry
    <2> QED
      BY <1>0, <1>1, <1>2, <2>1, SameIdsRight
  <1>5. CASE Discard(a)
    <2> PICK list : list = Without(shown, LocalsOf(a))
      OBVIOUS
    <2>1. Keep(open, list) /\ Ids(list) = Ids(shown)
      BY <1>1, <1>3, <1>5, WithoutIds DEF Discard
    <2> QED
      BY <1>0, <1>1, <1>2, <2>1, SameIdsRight
  <1>6. ASSUME NEW t \in Texts, Send(a, t) PROVE Right'
    <2> DEFINE gone == {Local(b, "failed") : b \in Saying(t)}
               kept == Without(shown, gone)
    <2> PICK list : list = Append(kept, Local(a, "sending"))
      OBVIOUS
    <2>1. Keep(open, list)
      BY <1>6 DEF Send
    <2>2. gone \subseteq Locals
      BY EntryFacts DEF Saying
    <2> HIDE DEF gone
    <2>3. kept \in Seq(Entries) /\ Ids(kept) = Ids(shown)
      BY <1>1, <2>2, WithoutIds
    <2> HIDE DEF kept
    <2>4. Ids(list) = Ids(shown)
      BY <1>3, <2>3, AppendedIds
    <2> QED
      BY <1>0, <1>1, <1>2, <2>1, <2>4, SameIdsRight
  <1> QED
    BY <1>4, <1>5, <1>6

LEMMA ConfirmedIds ==
    ASSUME NEW list \in Seq(Entries), NEW a \in Attempts, NEW n \in Nat,
           NEW other \in {ApplyRetried(list, a, n), Reconcile(list, a, n)}
    PROVE  Ids(other) = Ids(list) \/ Ids(other) = Ids(list) \cup {n}
  <1>1. Row(n) \in Entries /\ LocalsOf(a) \subseteq Locals
    BY EntryFacts DEF LocalsOf
  <1>2. CASE HasRow(list, n)
    <2>1. other = Without(list, LocalsOf(a))
      BY <1>2 DEF ApplyRetried, Reconcile
    <2> QED
      BY <1>1, <2>1, WithoutIds
  <1>3. CASE other = Replace(list, a, Row(n))
    BY <1>1, <1>3, ReplacedIds
  <1>4. CASE other = Append(list, Row(n))
    BY <1>1, <1>4, AppendedIds
  <1> QED
    BY <1>2, <1>3, <1>4 DEF ApplyRetried, Reconcile

LEMMA AnswerRight ==
    ASSUME LInv, Right, NEW p \in posts, SendConfirmed(p) \/ SendFails(p)
    PROVE  Right'
  <1> DEFINE a == p.attempt
             d == attempt[a].channel
  <1>0. /\ open' = open /\ log' = log /\ down' = down /\ requests' = requests
        /\ historical' = historical /\ link' = link /\ was' = was /\ torn \subseteq torn'
    BY DEF SendConfirmed, SendFails, network, view, link_vars, history
  <1>1. /\ p \in Posts /\ a \in Attempts /\ d \in Channels
        /\ p.row # None => p.row \in Rows /\ p.row \in Nat
    BY LInvFacts DEF PostApart, RowsOf, Posts
  <1>2. Watched' => Watched
    BY <1>0 DEF Watched, Waited, Loading, Current
  <1>3. d = open => shown \in Seq(Entries) /\ Ids(shown) \subseteq Rows
    BY <1>1, ShownIds, NoneAssumption
  <1>4. CASE SendFails(p)
    <2> PICK list : list = ApplyFailed(Listed(d), a)
      OBVIOUS
    <2>1. Keep(d, list)
      BY <1>4 DEF SendFails
    <2>2. ASSUME d = open PROVE Ids(list) = Ids(shown)
      <3>1. list = Replace(shown, a, Local(a, "failed"))
        BY <2>2 DEF Listed, ApplyFailed
      <3>2. Local(a, "failed") \in Locals /\ Local(a, "failed") \in Entries
        BY <1>1, EntryFacts
      <3> HIDE DEF a
      <3> QED
        BY <1>1, <1>3, <2>2, <3>1, <3>2, ReplacedIds
    <2> HIDE DEF d
    <2> QED
      BY <1>0, <1>1, <1>2, <2>1, <2>2, SameIdsRight
  <1>5. CASE SendConfirmed(p)
    <2> PICK list : list = IF p.retry THEN ApplyRetried(Listed(d), a, p.row)
                           ELSE Reconcile(Listed(d), a, p.row)
      OBVIOUS
    <2>1. /\ Keep(d, list) /\ p.row \in Rows /\ p.row \in Nat
          /\ open = d /\ open \notin torn' => ~Ghosts({p.row}, d) /\ ~Lacks(Ids(shown), d, p.row)
      BY <1>1, <1>5 DEF SendConfirmed
    <2>2. ASSUME Watched', d = open PROVE Fits(Ids(list), open)
      <3>1. list \in {ApplyRetried(shown, a, p.row), Reconcile(shown, a, p.row)}
        BY <2>2 DEF Listed
      <3>2. Ids(list) = Ids(shown) \/ Ids(list) = Ids(shown) \cup {p.row}
        <4> HIDE DEF a
        <4> QED
          BY <1>1, <1>3, <2>1, <2>2, <3>1, ConfirmedIds
      <3>3. Fits(Ids(shown), open)
        BY <1>2, <2>2 DEF Right
      <3>4. ~Ghosts({p.row}, open) /\ ~Lacks(Ids(shown), open, p.row)
        BY <1>0, <2>1, <2>2 DEF Watched
      <3>5. /\ p.row \in Present(open) \/ Coming("deleted", p.row)
            /\ \A m \in Present(open) \ Ids(shown) : m > p.row => Coming("new", m)
        BY <3>4 DEF Ghosts, Lacks
      <3>6. log \in Seq(Stored)
        BY LInvFacts
      <3>7. Fits(Ids(shown) \cup {p.row}, open)
        BY <1>3, <2>1, <2>2, <3>3, <3>5, <3>6, MoreFits
      <3> QED
        BY <3>2, <3>3, <3>7
    <2>3. Watched' => IF d = open THEN Fits(Ids(list), open) ELSE Watched
      BY <1>2, <2>2
    <2> HIDE DEF d
    <2> QED
      BY <1>0, <1>1, <2>1, <2>3, ChangedRight
  <1> QED
    BY <1>4, <1>5

LEMMA DeletionRight ==
    ASSUME LInv, Careful, RemovalsDone, Right, NEW q \in removals, DeleteConfirmed(q)
    PROVE  Right'
  <1>0. /\ open' = open /\ log' = log /\ down' = down /\ requests' = requests
        /\ historical' = historical /\ link' = link /\ was' = was /\ torn' = torn
    BY DEF DeleteConfirmed, network, view, link_vars, history
  <1>1. q.channel = open /\ open \in Channels /\ q.row \in Nat
    <2>1. q \in Removals
      BY LInvFacts
    <2>2. q.channel = open
      BY DEF LInv, Stays
    <2> QED
      BY <2>1, <2>2 DEF Removals
  <1> PICK list : list = Without(shown, {Row(q.row)})
    OBVIOUS
  <1>2. Keep(open, list) /\ ~log[q.row].present
    BY <1>1 DEF DeleteConfirmed, Keep, RemovalsDone
  <1>3. Watched' => Watched
    BY <1>0 DEF Watched, Waited, Loading, Current
  <1>4. shown \in Seq(Entries)
    BY <1>1, ShownIds, NoneAssumption
  <1>5. Ids(list) = Ids(shown) \ {q.row}
    BY <1>1, <1>4, WithoutIds
  <1>6. ASSUME Watched PROVE Fits(Ids(list), open)
    <2>1. Fits(Ids(shown), open) /\ q.row \notin Present(open)
      BY <1>2, <1>6 DEF Right, Present
    <2> QED
      BY <1>5, <2>1, FewerFits
  <1> QED
    BY <1>0, <1>1, <1>2, <1>3, <1>6, ChangedRight

LEMMA ArrivedFacts ==
    ASSUME LInv, PagesKnown, NEW r \in requests, r.page # None, r.current
    PROVE  /\ r \in Requests /\ r.channel = open /\ open \in Channels /\ PageKnown(r)
           /\ r.page \in Seq(Nat) /\ ToSet(r.page) \subseteq Rows
           /\ r.found \in Seq(Entries) /\ Ids(r.found) \subseteq Rows
           /\ attempt \in [Attempts -> Drafts] /\ log \in Seq(Stored)
  <1>1. /\ r \in Requests /\ r.channel \in Channels /\ r.found \in Seq(Fitting(r.channel))
        /\ r.page \in Seq(RowsOf(Home(r.channel))) /\ Rows \subseteq Nat
        /\ attempt \in [Attempts -> Drafts] /\ log \in Seq(Stored)
    BY LInvFacts
  <1>2. PageKnown(r) /\ r.channel = open
    BY DEF PagesKnown, PageKnown
  <1>3. RowsOf(Home(r.channel)) \subseteq Rows
    BY DEF RowsOf
  <1>4. r.page \in Seq(Rows)
    BY <1>1, <1>3, SeqMonotonic
  <1>5. ToSet(r.page) \subseteq Rows
    BY <1>4, ElementsOf
  <1>6. r.page \in Seq(Nat)
    BY <1>1, <1>4, SeqMonotonic
  <1> QED
    BY <1>1, <1>2, <1>5, <1>6, FittingIds

LEMMA LatestRight ==
    ASSUME LInv, PagesKnown, Right, NEW r \in requests, r.page # None, r.current,
           LatestArrives(r), open' = open, log' = log, down' = down
    PROVE  Right'
  <1> DEFINE found == IF r.forgets THEN <<>> ELSE r.found
             kept == IF Joins(r.page, found) THEN {n \in Ids(found) : n < r.page[1]} ELSE {}
  <1> PICK list : list = MergeLatestPage(AsRows(r.page), found)
    OBVIOUS
  <1>1. /\ r.channel = open /\ open \in Channels /\ attempt \in [Attempts -> Drafts]
        /\ log \in Seq(Stored) /\ r.page \in Seq(Nat) /\ ToSet(r.page) \subseteq Rows
    BY ArrivedFacts
  <1>2. found \in Seq(Entries) /\ Ids(found) \subseteq Rows
    <2>1. CASE found = <<>>
      <3> HIDE DEF found
      <3>1. found \in Seq(Entries)
        BY <2>1, EmptySeq
      <3>2. Len(found) = 0
        BY <2>1
      <3>3. DOMAIN found = {}
        BY <3>1, <3>2, LenProperties
      <3> QED
        BY <3>1, <3>3 DEF Ids
    <2>2. CASE found = r.found
      BY <2>2, ArrivedFacts
    <2> QED
      BY <2>1, <2>2
  <1>3. Keep(open, list)
    BY <1>1 DEF LatestArrives
  <1>4. torn' = IF Outdated(ToSet(r.page) \cup kept, open) \/ (Joins(r.page, found) /\ ~InOrder(found))
                THEN torn \cup {open} ELSE torn \ {open}
    BY <1>1 DEF LatestArrives
  <1>5. kept = Before(r.page, found)
    BY DEF Before
  <1> HIDE DEF found, kept
  <1>6. ASSUME Watched' PROVE Fits(Ids(list), open)
    <2>1. ~Outdated(ToSet(r.page) \cup kept, open) /\ (Joins(r.page, found) => InOrder(found))
      BY <1>4, <1>6 DEF Watched
    <2>2. Ids(list) = ToSet(r.page) \cup kept
      BY <1>1, <1>2, <1>5, <2>1, LatestIds
    <2>3. ToSet(r.page) \cup kept \subseteq Rows
      BY <1>1, <1>2, <1>5 DEF Before
    <2> QED
      BY <1>1, <2>1, <2>2, <2>3, FreshFits
  <1> QED
    BY <1>1, <1>3, <1>6, ChangedRight

LEMMA ReturnRight ==
    ASSUME LInv, PagesKnown, Right, NEW r \in requests, r.page # None, r.current,
           ReturnArrives(r), open' = open, log' = log, down' = down
    PROVE  Right'
  <1> PICK list : list = MergeRemoteWithLocals(AsRows(r.page), cache[r.channel])
    OBVIOUS
  <1>1. /\ r.channel = open /\ open \in Channels /\ attempt \in [Attempts -> Drafts]
        /\ log \in Seq(Stored) /\ r.page \in Seq(Nat) /\ ToSet(r.page) \subseteq Rows
    BY ArrivedFacts
  <1>2. cache[open] \in Seq(Entries)
    BY <1>1, LInvFacts
  <1>3. Keep(open, list) /\ Ids(list) = ToSet(r.page)
    BY <1>1, <1>2, MergedIds DEF ReturnArrives
  <1>4. ASSUME Watched' PROVE Fits(Ids(list), open)
    <2>1. ~Outdated(ToSet(r.page), open)
      BY <1>4 DEF ReturnArrives, Watched
    <2> QED
      BY <1>1, <1>3, <2>1, FreshFits
  <1> QED
    BY <1>1, <1>3, <1>4, ChangedRight

LEMMA OlderRight ==
    ASSUME LInv, PagesKnown, Right, NEW r \in requests, r.page # None, r.current, r.kind = "older",
           OlderArrives(r), open' = open, log' = log, down' = down, Watched' => Watched
    PROVE  Right'
  <1> PICK list : list = AsRows(r.page) \o r.found
    OBVIOUS
  <1>1. /\ r.channel = open /\ open \in Channels
        /\ log \in Seq(Stored) /\ r.page \in Seq(Nat) /\ ToSet(r.page) \subseteq Rows
        /\ r.found \in Seq(Entries) /\ Ids(r.found) \subseteq Rows /\ PageKnown(r)
    BY ArrivedFacts
  <1>2. /\ AsRows(r.page) \in Seq(Entries) /\ Ids(AsRows(r.page)) = ToSet(r.page)
    BY <1>1, RowsHold
  <1>3. Keep(open, list) /\ Ids(list) = ToSet(r.page) \cup Ids(r.found)
    BY <1>1, <1>2, JoinedIds DEF OlderArrives
  <1>4. ASSUME Watched' PROVE Fits(Ids(list), open)
    <2>1. cache[open] = r.found /\ ~Ghosts(ToSet(r.page), open)
      BY <1>4 DEF OlderArrives, Watched
    <2>2. Fits(Ids(r.found), open)
      BY <1>4, <2>1 DEF Right
    <2>3. CASE r.page = <<>>
      <3>1. ToSet(r.page) = {}
        BY <2>3 DEF ToSet
      <3> QED
        BY <1>3, <2>2, <3>1
    <2>4. CASE r.page # <<>>
      <3>1. r.page[1] \in ToSet(r.page)
        BY <1>1, <2>4 DEF ToSet
      <3>2. r.found # <<>> /\ r.target = r.found[1].id /\ r.target \in Rows /\ Whole(r)
        BY <1>1 DEF PageKnown
      <3>3. r.target \in Ids(r.found)
        <4>1. 1 \in DOMAIN r.found
          BY <1>1, <3>2
        <4>2. r.target # None
          BY <3>2, LInvFacts, NoneAssumption
        <4> QED
          BY <3>2, <4>1, <4>2 DEF Ids
      <3>4. \A n \in ToSet(r.page) : r.page[1] <= n
        BY <3>2 DEF Whole
      <3>5. \A n \in ToSet(r.page) : n \in Present(open) \/ Coming("deleted", n)
        BY <2>1 DEF Ghosts
      <3>6. \A n \in Present(open) : n < r.target /\ n >= r.page[1] => n \in ToSet(r.page)
        BY <1>1, <2>4, <3>2 DEF Whole
      <3>7. Fits(ToSet(r.page) \cup Ids(r.found), open)
        BY <1>1, <2>2, <3>1, <3>3, <3>4, <3>5, <3>6, OlderFits
      <3> QED
        BY <1>3, <3>7
    <2> QED
      BY <2>3, <2>4
  <1> QED
    BY <1>1, <1>3, <1>4, ChangedRight

LEMMA PagesRight ==
    ASSUME LInv, PagesKnown, Right, NEW r \in requests, Answered(r)
    PROVE  Right'
  <1>0. /\ open' = open /\ log' = log /\ down' = down /\ link' = link /\ was' = was
        /\ requests' = requests \ {r} /\ r.page # None
    BY DEF Answered, network, view, link_vars
  <1>1. r.current /\ r.kind \in {"open", "refresh"} => open = r.channel
    BY DEF PagesKnown, PageKnown
  <1>2. ASSUME historical' = historical, torn \subseteq torn', Watched',
               r.current => r.kind \notin {"open", "refresh"}
        PROVE  Watched
    BY <1>0, <1>2 DEF Watched, Waited, Loading, Current
  <1>3. CASE r.current /\ Arrives(r)
    <2>1. r.channel = open
      BY <1>0, <1>3, ArrivedFacts
    <2>2. CASE LatestArrives(r)
      BY <1>0, <1>3, <2>2, LatestRight
    <2>3. CASE r.kind = "older" /\ OlderArrives(r)
      <3>1. historical' = historical /\ torn \subseteq torn'
        BY <2>3 DEF OlderArrives
      <3> QED
        BY <1>0, <1>2, <1>3, <2>3, <3>1, OlderRight
    <2>4. CASE r.kind = "around" /\ AroundArrives(r)
      <3>1. CASE historical' = open
        BY <1>0, <3>1 DEF Right, Watched
      <3>2. CASE UNCHANGED lists
        <4>1. historical' = historical /\ torn' = torn /\ shown' = shown /\ cache' = cache
          BY <2>4, <3>2 DEF AroundArrives, lists
        <4> QED
          BY <1>0, <1>2, <2>4, <4>1, KeptRight
      <3> QED
        BY <2>1, <2>4, <3>1, <3>2 DEF AroundArrives
    <2>5. CASE ReturnArrives(r)
      BY <1>0, <1>3, <2>5, ReturnRight
    <2> QED
      BY <1>3, <2>2, <2>3, <2>4, <2>5 DEF Arrives
  <1>4. CASE ~(r.current /\ (r.kind = "refresh" \/ open = r.channel)) /\ UNCHANGED <<lists, history>>
    <2>1. historical' = historical /\ torn' = torn /\ shown' = shown /\ cache' = cache
      BY <1>4 DEF lists, history
    <2>2. r.current => r.kind \notin {"open", "refresh"}
      BY <1>1, <1>4
    <2> QED
      BY <1>0, <1>2, <2>1, <2>2, KeptRight
  <1> QED
    BY <1>3, <1>4 DEF Answered

LEMMA AskedNotWaiting ==
    ASSUME LInv, NEW kind, NEW c, NEW target, Ask(kind, c, target)
    PROVE  Loading({"open", "refresh"})' <=> kind \in {"open", "refresh"}
  <1>1. requests' = {[r EXCEPT !.current = FALSE] : r \in requests} \cup {Request(kind, c, target)}
    BY DEF Ask
  <1>2. \A r \in requests : ~[r EXCEPT !.current = FALSE].current
    BY LInvFacts DEF Requests
  <1>3. Request(kind, c, target).current /\ Request(kind, c, target).kind = kind
    BY DEF Request
  <1> PICK s : s = Request(kind, c, target)
    OBVIOUS
  <1>4. s \in requests' /\ \A r \in requests' : r = s \/ ~r.current
    BY <1>1, <1>2
  <1> QED
    BY <1>3, <1>4 DEF Loading, Current

LEMMA AskingRight ==
    ASSUME LInv, Right,
           \/ \E c \in Channels : OpenChannel(c)
           \/ LoadOlder \/ ReturnToLatest
           \/ \E n \in Rows : JumpTo(n)
           \/ \E r \in requests : ReadPage(r) \/ RequestFails(r)
           , PagesKnown
    PROVE  Right'
  <1>1. ASSUME NEW c \in Channels, OpenChannel(c) PROVE Right'
    <2>1. Loading({"open", "refresh"})'
      BY <1>1, AskedNotWaiting DEF OpenChannel
    <2> QED
      BY <2>1 DEF Right, Watched, Waited
  <1>2. ASSUME open' = open, UNCHANGED <<network, lists, log, down>>, torn \subseteq torn',
               open \notin torn' => (Loading({"open", "refresh"}) => Loading({"open", "refresh"})')
        PROVE  Right'
    <2>1. /\ shown' = shown /\ cache' = cache /\ historical' = historical /\ link' = link /\ was' = was
          /\ log' = log /\ down' = down
      BY <1>2 DEF lists, network, link_vars
    <2>2. Watched' => Watched
      BY <1>2, <2>1 DEF Watched, Waited
    <2> QED
      BY <1>2, <2>1, <2>2, KeptRight
  <1>3. CASE ReturnToLatest
    <2>1. open' = open /\ historical' = open
      BY <1>3 DEF ReturnToLatest, view, lists
    <2> QED
      BY <2>1 DEF Right, Watched
  <1>4. CASE LoadOlder
    <2>1. open' = open /\ UNCHANGED <<network, lists, log, down>> /\ torn' = torn /\ requests \subseteq requests'
      BY <1>4 DEF LoadOlder, view, history
    <2>2. Loading({"open", "refresh"}) => Loading({"open", "refresh"})'
      BY <2>1 DEF Loading, Current
    <2> QED
      BY <1>2, <2>1, <2>2
  <1>5. ASSUME NEW n \in Rows, JumpTo(n) PROVE Right'
    <2>1. open' = open /\ UNCHANGED <<network, lists, log, down>>
          /\ torn' = IF Loading({"open", "refresh"}) THEN torn \cup {open} ELSE torn
      BY <1>5 DEF JumpTo, view
    <2> QED
      BY <1>2, <2>1
  <1>6. ASSUME NEW r \in requests, ReadPage(r) PROVE Right'
    <2>1. open' = open /\ UNCHANGED <<network, lists, log, down>> /\ torn' = torn
          /\ requests' = (requests \ {r}) \cup {[r EXCEPT !.page = Ascending(ServerPage(r))]}
      BY <1>6 DEF ReadPage, view, history
    <2> PICK s : s = [r EXCEPT !.page = Ascending(ServerPage(r))]
      OBVIOUS
    <2>2. s.current = r.current /\ s.kind = r.kind
      BY LInvFacts DEF Requests
    <2>3. Loading({"open", "refresh"}) => Loading({"open", "refresh"})'
      BY <2>1, <2>2 DEF Loading, Current
    <2> QED
      BY <1>2, <2>1, <2>3
  <1>7. ASSUME NEW r \in requests, RequestFails(r) PROVE Right'
    <2>1. open' = open /\ UNCHANGED <<network, lists, log, down>> /\ requests' = requests \ {r}
          /\ torn' = IF r.current /\ r.kind \in {"open", "refresh"} THEN torn \cup {r.channel} ELSE torn
      BY <1>7 DEF RequestFails, view
    <2>2. r.current => r.channel = open
      BY DEF PagesKnown, PageKnown
    <2>3. open \notin torn' => (Loading({"open", "refresh"}) => Loading({"open", "refresh"})')
      BY <2>1, <2>2 DEF Loading, Current
    <2> QED
      BY <1>2, <2>1, <2>3
  <1> QED
    BY <1>1, <1>3, <1>4, <1>5, <1>6, <1>7

LEMMA LinkRight ==
    ASSUME LInv, News, Right, LinkStep
    PROVE  Right'
  <1>1. ASSUME UNCHANGED <<log, view, lists, requests, history>>, down' = down, Watched' => Watched
        PROVE  Right'
    BY <1>1, KeptRight DEF view, lists
  <1>2. CASE Connects
    <2>1. /\ UNCHANGED <<log, view, lists, history>> /\ down' = down /\ link' = "up" /\ was' = TRUE
          /\ IF was /\ open # None THEN Ask("refresh", open, None) ELSE UNCHANGED requests
      BY <1>2 DEF Connects, Opens
    <2>2. CASE was /\ open # None
      <3>1. Loading({"open", "refresh"})'
        BY <2>1, <2>2, AskedNotWaiting
      <3> QED
        BY <3>1 DEF Right, Watched, Waited
    <2>3. CASE ~was /\ open # None
      <3>1. Watched' => Watched
        BY <2>1, <2>3 DEF Watched, Waited, Loading, Current, view, lists, history
      <3> QED
        BY <1>1, <2>1, <2>3, <3>1
    <2>4. CASE open = None
      BY <2>1, <2>4 DEF Right, Watched, view
    <2> QED
      BY <2>2, <2>3, <2>4 DEF LInv, TypeOK
  <1>3. CASE Disconnects
    <2>1. link' # "up" /\ was'
      BY <1>3 DEF Disconnects, Loses, News
    <2> QED
      BY <2>1 DEF Right, Watched, Waited
  <1>4. CASE Subscribes
    <2>1. UNCHANGED <<log, view, lists, requests, history, link_vars>> /\ down' = down
      BY <1>4 DEF Subscribes
    <2>2. Watched' => Watched
      BY <2>1 DEF Watched, Waited, Loading, Current, view, lists, history, link_vars
    <2> QED
      BY <1>1, <2>1, <2>2
  <1>5. CASE GivesUp \/ SeeksConnection
    <2>1. /\ UNCHANGED <<log, view, lists, requests, history>> /\ down' = down
          /\ link # "up" /\ link' # "up" /\ was' = was
      BY <1>5 DEF GivesUp, SeeksConnection, Exhausted, Wanted
    <2>2. Watched' => Watched
      BY <2>1 DEF Watched, Waited, Loading, Current, view, lists, history
    <2> QED
      BY <1>1, <2>1, <2>2
  <1> QED
    BY <1>2, <1>3, <1>4, <1>5 DEF LinkStep

LEMMA RightKept ==
    ASSUME LInv, Careful, News, PagesKnown, RemovalsDone, Right, [Next]_vars
    PROVE  Right'
  <1>1. CASE LinkStep
    BY <1>1, LinkRight
  <1>2. CASE ListStep
    BY <1>2, PagesRight, AskingRight DEF ListStep
  <1>3. CASE HandleEvent
    BY <1>3, EventRight
  <1>4. ASSUME UNCHANGED <<network, lists, log, down, requests>>, open' = open, torn' = torn PROVE Right'
    <2>1. /\ shown' = shown /\ cache' = cache /\ historical' = historical /\ link' = link /\ was' = was
          /\ log' = log /\ down' = down /\ requests' = requests
      BY <1>4 DEF lists, network, link_vars
    <2>2. Watched' => Watched
      BY <1>4, <2>1 DEF Watched, Waited, Loading, Current
    <2> QED
      BY <1>4, <2>1, <2>2, KeptRight
  <1>5. CASE LeaveView \/ ReturnToView
    BY <1>4, <1>5 DEF LeaveView, ReturnToView, history
  <1>6. CASE UNCHANGED vars
    BY <1>4, <1>6 DEF vars, network, lists, link_vars
  <1>7. ASSUME NEW c \in Channels, OtherPosts(c) PROVE Right'
    BY <1>7, StoredRight DEF OtherPosts
  <1>8. ASSUME NEW n \in Rows, IsDeleted(n) PROVE Right'
    BY <1>8, DeletedRight DEF IsDeleted
  <1>9. ASSUME NEW a \in Attempts, Retry(a) \/ Discard(a) \/ \E t \in Texts : Send(a, t) PROVE Right'
    BY <1>9, WritingRight
  <1>10. ASSUME NEW p \in posts, Store(p) PROVE Right'
    <2>1. attempt[p.attempt].channel \in Channels
      BY LInvFacts DEF PostApart
    <2>2. CASE UNCHANGED <<log, down, torn>>
      BY <1>4, <1>10, <2>2 DEF Store, view
    <2>3. CASE StoreMessage(attempt[p.attempt].channel, p.attempt)
      <3>1. UNCHANGED <<network, view, lists, requests>>
        BY <1>10 DEF Store
      <3> QED
        BY <2>1, <2>3, <3>1, StoredRight
    <2> QED
      BY <1>10, <2>2, <2>3 DEF Store
  <1>11. ASSUME NEW p \in posts, SendConfirmed(p) \/ SendFails(p) PROVE Right'
    BY <1>11, AnswerRight
  <1>12. ASSUME NEW n \in Rows, DeleteMessage(n) PROVE Right'
    BY <1>4, <1>12 DEF DeleteMessage, view, history
  <1>13. ASSUME NEW q \in removals, Delete(q) PROVE Right'
    <2>1. q.row \in Rows
      BY DEF LInv, RemovalsKnown
    <2> QED
      BY <1>13, <2>1, DeletedRight DEF Delete
  <1>14. ASSUME NEW q \in removals, DeleteRefused(q) PROVE Right'
    BY <1>4, <1>14 DEF DeleteRefused, view, history
  <1>15. ASSUME NEW q \in removals, DeleteConfirmed(q) PROVE Right'
    BY <1>15, DeletionRight
  <1>16. CASE SendStep
    BY <1>9, <1>10, <1>11, <1>12, <1>13, <1>14, <1>15, <1>16 DEF SendStep
  <1> QED
    BY <1>1, <1>2, <1>3, <1>5, <1>6, <1>7, <1>8, <1>16 DEF Next

CInv == News /\ PagesKnown /\ RemovalsDone /\ Right

LEMMA CInvInit == Init => CInv
  BY EmptySeq DEF Init, LinkInit, CInv, News, PagesKnown, RemovalsDone, Right, Watched

LEMMA CInvStep == LInv /\ Careful /\ CInv /\ [Next]_vars => CInv'
  BY NewsKept, PagesKnownKept, RemovalsDoneKept, RightKept DEF CInv

LEMMA CInvCaughtUp == LInv /\ Careful /\ CInv => CaughtUp
  <1> SUFFICES ASSUME LInv, Careful, CInv, Quiet, open \notin torn PROVE UpToDate
    BY DEF CaughtUp
  <1>1. Watched /\ down = <<>> /\ open # None
    BY DEF Quiet, Watched, Waited, Loading
  <1>2. Fits(Ids(shown), open)
    BY <1>1 DEF CInv, Right
  <1>3. \A t, n : ~Coming(t, n)
    BY <1>1 DEF Coming
  <1>4. Ids(shown) \subseteq Rows /\ \A n \in Ids(shown) : log[n].channel = open
    BY <1>1, ShownIds
  <1>5. PICK k \in 1 .. (Len(log) + 1) : FitsFrom(Ids(shown), open, k)
    BY <1>2 DEF Fits
  <1>6. Ids(shown) = Since(k, open) \cap Present(open)
    BY <1>3, <1>4, <1>5 DEF FitsFrom, Since, Present
  <1>7. k = 1 \/ Cardinality(Since(k, open)) >= PageSize
    BY <1>5 DEF FitsFrom
  <1> QED
    BY <1>6, <1>7 DEF UpToDate, Since

\* Once nothing is under way, the list on the screen is the channel from some
\* message on, whatever was lost, switched, answered late or came out of order
\* (loadMessages, refreshActiveChannelMessages, loadOlderMessages,
\* handleReturnToLatest, handleSocketMessage), unless the list is one that
\* missed what the code has no way to learn of (torn). As above, a user who
\* deletes a message does not switch channels besides.
THEOREM AlwaysCaughtUp ==
    ASSUME \A s \in Scenarios : s["delete"] = 0 \/ s["open"] <= 1
    PROVE  Spec => []CaughtUp
  <1>1. Careful
    BY DEF Careful
  <1>2. Init => LInv /\ CInv
    BY LInvInit, CInvInit
  <1>3. LInv /\ CInv /\ [Next]_vars => LInv' /\ CInv'
    BY <1>1, LInvStep, CInvStep
  <1>4. LInv /\ CInv => CaughtUp
    BY <1>1, CInvCaughtUp
  <1> QED
    BY <1>2, <1>3, <1>4, PTL DEF Spec

=============================================================================
