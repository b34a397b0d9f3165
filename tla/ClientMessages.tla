--------------------------- MODULE ClientMessages ---------------------------
(***************************************************************************)
(* The messages of the open channel in the web client (pages/AppLayout.tsx *)
(* with pages/appLayoutEvents.ts and messageResilience.ts): the list on    *)
(* the screen, the lists kept per channel, the pages asked of the server,  *)
(* the messages being sent, and the server's events, which come over a     *)
(* connection of their own (ClientLink) and so in any order relative to    *)
(* the answers.  A request remembers the list it found when it was made.   *)
(***************************************************************************)
EXTENDS ClientLink, Integers, Sequences, FiniteSets, SequencesExt

CONSTANTS
    Channels,
    Attempts,     \* messages this user sends, a bound of the model
    Texts,        \* what they say
    PageSize,     \* MESSAGE_PAGE_SIZE
    MaxRequests,  \* requests outstanding at once, a bound of the model
    None,
    Scenarios     \* budgets of what the user, others and the network do

Budgets == {"open", "leave", "send", "retry", "discard", "delete", "older", "jump",
            "post", "remove", "drop", "fail"}

ASSUME NoneAssumption == None \notin Channels /\ None \notin Attempts /\ None \notin Nat
ASSUME PageAssumption == PageSize \in Nat \ {0} /\ MaxRequests \in Nat
ASSUME ScenariosAssumption == Scenarios \subseteq [Budgets -> Nat]

VARIABLES
    log,         \* the server's messages, in the order they were stored
    subscribed,  \* the server has this connection's channels
    down,        \* events on their way to the client
    open,        \* activeChannelId
    active,      \* isViewActive: the servers' view, not the direct messages'
    shown,       \* messages, the list on the screen
    cache,       \* messagesByChannelRef
    historical,  \* historicalChannelIdRef
    requests,    \* pages asked for
    attempt,     \* per message sent: its channel, its text, and when
    posts,       \* requests to send that are on their way
    removals,    \* requests to delete a message that are on their way
    unread,      \* per channel: messages counted as unread
    read,        \* messages whose unread count was cleared
    torn,        \* channels whose list has missed something (history)
    stale,       \* channels whose list went back to an earlier copy (history)
    left         \* what is left of the budgets

vars == <<link_vars, log, subscribed, down, open, active, shown, cache, historical,
          requests, attempt, posts, removals, unread, read, torn, stale, left>>

view == <<open, active, unread, read>>
lists == <<shown, cache, historical>>
sending == <<attempt, posts, removals>>
history == <<torn, stale>>
network == <<link_vars, subscribed>>

OrNone(S) == {None} \cup S
Rows == DOMAIN log
Stored == [channel : Channels, request : OrNone(Attempts), present : BOOLEAN]
Row(n) == [id |-> n, attempt |-> None, status |-> "sent"]
Local(a, status) == [id |-> None, attempt |-> a, status |-> status]
Locals == {Local(a, status) : a \in Attempts, status \in {"sending", "failed"}}
Entries == [id : Nat, attempt : {None}, status : {"sent"}] \cup Locals
Kinds == {"open", "refresh", "older", "around", "latest"}
Requests ==
    [kind    : Kinds,
     channel : Channels,
     target  : OrNone(Nat),              \* the oldest message had, the message jumped to
     found   : Seq(Entries),             \* the channel's list when the request was made
     forgets : BOOLEAN,                  \* that list was historical, and not to be kept
     page    : OrNone(Seq(Nat)),         \* the answer, once the server has read it
     current : BOOLEAN]                  \* its number is still the latest
Drafts == [channel : OrNone(Channels), text : OrNone(Texts), born : Nat]
Posts ==
    [attempt : Attempts,
     retry   : BOOLEAN,                  \* handleRetryMessage asked
     row     : OrNone(Nat)]              \* the answer, once the server has stored it
Removals == [row : Nat, channel : Channels, done : BOOLEAN]

Spend(what) == left[what] > 0 /\ left' = [left EXCEPT ![what] = @ - 1]

-----------------------------------------------------------------------------
(* Lists of messages: messageResilience.ts *)

Ids(list) == {list[i].id : i \in DOMAIN list} \ {None}
HasRow(list, n) == n \in Ids(list)
IsOf(e, a) == e.attempt = a
Replace(list, a, by) == [i \in DOMAIN list |-> IF IsOf(list[i], a) THEN by ELSE list[i]]
LocalsOf(a) == {Local(a, "sending"), Local(a, "failed")}
AsRows(page) == [i \in DOMAIN page |-> Row(page[i])]

Ascending(S) ==
    [k \in 1..Cardinality(S) |-> CHOOSE n \in S : Cardinality({m \in S : m <= n}) = k]
Without(list, gone) ==
    LET kept == Ascending({i \in DOMAIN list : list[i] \notin gone})
    IN  [k \in DOMAIN kept |-> list[kept[k]]]

\* created_at: a local message is as old as its first request.
Time(e) == IF e.id # None THEN 2 * e.id ELSE 2 * attempt[e.attempt].born + 1
UpTo(list, i) ==
    {j \in DOMAIN list : \/ Time(list[j]) < Time(list[i])
                         \/ Time(list[j]) = Time(list[i]) /\ j <= i}
ByTime(list) ==
    [k \in DOMAIN list |->
        list[CHOOSE i \in DOMAIN list : Cardinality(UpTo(list, i)) = k]]

\* Slip: a message being sent is kept as such.
MergeAsTheyAre(remote, local) == ByTime(remote \o Without(local, ToSet(local) \ Locals))

\* mergeRemoteWithRetryableLocals
MergeRemoteWithLocals(remote, local) ==
    LET retryable == Without(local, ToSet(local) \ Locals)
    IN  ByTime(remote \o [i \in DOMAIN retryable |-> Local(retryable[i].attempt, "failed")])

\* mergeLatestPageWithHistory
MergeLatestPage(latest, cached) ==
    LET merged == MergeRemoteWithLocals(latest, cached)
        overlaps == {i \in DOMAIN cached : latest # <<>> /\ cached[i].id = latest[1].id}
    IN  IF overlaps = {} THEN merged
        ELSE LET first == CHOOSE i \in overlaps : \A j \in overlaps : i <= j
             IN  Without(SubSeq(cached, 1, first - 1), Locals) \o merged

\* Slip: the confirmed message keeps the fields of the local one.
ReconcileInto(list, a, n) ==
    IF HasRow(list, n) THEN Without(list, LocalsOf(a))
    ELSE Replace(list, a, [Local(a, "sending") EXCEPT !.id = n])

\* reconcileConfirmedMessage
Reconcile(list, a, n) ==
    IF HasRow(list, n) THEN Without(list, LocalsOf(a))
    ELSE IF \E i \in DOMAIN list : IsOf(list[i], a)
    THEN Replace(list, a, Row(n))
    ELSE Append(list, Row(n))

\* applyRetriedMessage
ApplyRetried(list, a, n) ==
    IF HasRow(list, n) THEN Without(list, LocalsOf(a))
    ELSE Replace(list, a, Row(n))

\* applyFailedMessage, applyFailedRetry
ApplyFailed(list, a) == Replace(list, a, Local(a, "failed"))

-----------------------------------------------------------------------------
(* The server *)

Present(c) == {n \in Rows : log[n].channel = c /\ log[n].present}
LastOf(S, k) == {n \in S : Cardinality({m \in S : m > n}) < k}
FirstOf(S, k) == {n \in S : Cardinality({m \in S : m < n}) < k}

\* list_messages: the latest page, the one before a message that is still
\* there, the one from it on.
ServerPage(r) ==
    LET here == Present(r.channel)
    IN  CASE r.kind = "older" ->
                 LastOf({n \in here : r.target \in here /\ n < r.target}, PageSize)
          [] r.kind = "around" ->
                 FirstOf({n \in here : r.target \in here /\ n >= r.target}, PageSize)
          [] OTHER -> LastOf(here, PageSize)

Tell(type, n) == IF subscribed THEN Append(down, [type |-> type, id |-> n]) ELSE down

\* A change the client can learn of only by asking for the page again; a
\* reconnection asks by itself.
Unnoticed(c) == IF ~subscribed /\ (link = "up" \/ ~was) THEN {c} ELSE {}

StoreMessage(c, request) ==
    /\ log' = Append(log, [channel |-> c, request |-> request, present |-> TRUE])
    /\ down' = Tell("new", Len(log'))
    /\ torn' = torn \cup Unnoticed(c)

\* Another member writes.
OtherPosts(c) ==
    /\ Spend("post")
    /\ StoreMessage(c, None)
    /\ UNCHANGED <<network, view, lists, requests, sending, stale>>

\* The author or a moderator deletes a message, on another device.
IsDeleted(n) ==
    /\ n \in Rows /\ log[n].present
    /\ Spend("remove")
    /\ log' = [log EXCEPT ![n].present = FALSE]
    /\ down' = Tell("deleted", n)
    /\ torn' = torn \cup Unnoticed(log[n].channel)
    /\ UNCHANGED <<network, view, lists, requests, sending, stale>>

RequestedRows(a) == {n \in Rows : log[n].request = a /\ log[n].present}
Answer(p, n) == posts' = (posts \ {p}) \cup {[p EXCEPT !.row = n]}

\* Slip: the server does not look for a message of the same request.
StoreAgain(p) ==
    /\ p \in posts /\ p.row = None
    /\ StoreMessage(attempt[p.attempt].channel, p.attempt)
    /\ Answer(p, Len(log'))
    /\ UNCHANGED <<network, view, lists, requests, attempt, removals, stale, left>>

\* send_message: a request the server has stored before is answered with it.
Store(p) ==
    /\ p \in posts /\ p.row = None
    /\ \/ /\ RequestedRows(p.attempt) # {}
          /\ \E n \in RequestedRows(p.attempt) : Answer(p, n)
          /\ UNCHANGED <<log, down, torn>>
       \/ /\ RequestedRows(p.attempt) = {}
          /\ StoreMessage(attempt[p.attempt].channel, p.attempt)
          /\ Answer(p, Len(log'))
    /\ UNCHANGED <<network, view, lists, requests, attempt, removals, stale, left>>

\* The server reads a page; the answer travels beside the events.
ReadPage(r) ==
    /\ r \in requests /\ r.page = None
    /\ requests' = (requests \ {r}) \cup {[r EXCEPT !.page = Ascending(ServerPage(r))]}
    /\ UNCHANGED <<network, log, down, view, lists, sending, history, left>>

-----------------------------------------------------------------------------
(* Pages *)

Current == {r \in requests : r.current}
Loading(kinds) == \E r \in Current : r.kind \in kinds

Request(kind, c, target) ==
    [kind |-> kind, channel |-> c, target |-> target, found |-> cache[c],
     forgets |-> kind = "open" /\ historical = c, page |-> None, current |-> TRUE]

\* A request with a new number: the answers of earlier ones no longer count.
Ask(kind, c, target) ==
    /\ Cardinality(requests) < MaxRequests
    /\ requests' = {[r EXCEPT !.current = FALSE] : r \in requests}
                     \cup {Request(kind, c, target)}

MarkRead(c) ==
    /\ unread' = [unread EXCEPT ![c] = {}]
    /\ read' = read \cup unread[c]

\* A channel is opened: the kept list is shown, the latest page is asked for.
OpenChannel(c) ==
    /\ active /\ open # c
    /\ Spend("open")
    /\ open' = c
    /\ shown' = IF historical = c THEN <<>> ELSE cache[c]
    /\ Ask("open", c, None)
    /\ MarkRead(c)
    /\ UNCHANGED <<network, log, down, active, cache, historical, sending, history>>

\* loadOlderMessages: keeps the number of the list it extends.
LoadOlder ==
    /\ active /\ open # None
    /\ cache[open] # <<>> /\ cache[open][1].id # None
    /\ ~\E r \in requests : r.kind = "older"
    /\ Cardinality(requests) < MaxRequests
    /\ Spend("older")
    /\ requests' = requests \cup {Request("older", open, cache[open][1].id)}
    /\ UNCHANGED <<network, log, down, view, lists, sending, history>>

\* handleJumpToPinnedMessage, for a message that is not in the list.
JumpTo(n) ==
    /\ active /\ open # None /\ n \in Present(open) \ Ids(shown)
    /\ ~Loading({"around"})
    /\ Spend("jump")
    /\ Ask("around", open, n)
    /\ torn' = IF Loading({"open", "refresh"}) THEN torn \cup {open} ELSE torn
    /\ UNCHANGED <<network, log, down, view, lists, sending, stale>>

\* handleReturnToLatest
ReturnToLatest ==
    /\ active /\ open # None /\ historical = open
    /\ ~\E r \in requests : r.kind = "latest"
    /\ Ask("latest", open, None)
    /\ UNCHANGED <<network, log, down, view, lists, sending, history, left>>

Coming(type, n) == \E i \in DOMAIN down : down[i] = [type |-> type, id |-> n]

\* Messages, and the events still to come, keep one that is gone, or lack one
\* that is newer than n.
Ghosts(ids, c) == \E n \in ids \ Present(c) : ~Coming("deleted", n)
Lacks(ids, c, n) == \E m \in Present(c) \ ids : m > n /\ ~Coming("new", m)
Outdated(ids, c) ==
    \/ Ghosts(ids, c)
    \/ \E n \in ids : Lacks(ids, c, n)
    \/ \E n \in LastOf(Present(c), PageSize) \ ids : ~Coming("new", n)

\* A page that connects to a list leaves what is older of it, or rather what
\* stands before: a message that was confirmed may stand before older ones.
Joins(page, list) == page # <<>> /\ page[1] \in Ids(list)
InOrder(list) ==
    \A i, j \in DOMAIN list :
        i < j /\ list[i].id # None /\ list[j].id # None => list[i].id <= list[j].id

Keep(c, list) ==
    /\ cache' = [cache EXCEPT ![c] = list]
    /\ shown' = IF open = c THEN list ELSE shown

\* The load effect and refreshActiveChannelMessages: the page is merged with
\* the list found when it was asked for.  What is before the page's first
\* message in that list is kept as it was, a message deleted meanwhile with it
\* and without one that was missed.
LatestArrives(r) ==
    LET found == IF r.forgets THEN <<>> ELSE r.found
        kept == IF Joins(r.page, found) THEN {n \in Ids(found) : n < r.page[1]} ELSE {}
    IN
    /\ Keep(r.channel, MergeLatestPage(AsRows(r.page), found))
    /\ historical' = IF historical = r.channel /\ open = r.channel THEN None ELSE historical
    /\ torn' = IF open # r.channel THEN torn
               ELSE IF Outdated(ToSet(r.page) \cup kept, open) \/ (Joins(r.page, found) /\ ~InOrder(found))
               THEN torn \cup {open}
               ELSE torn \ {open}
    /\ stale' = stale \ {r.channel}

OlderArrives(r) ==
    /\ Keep(r.channel, AsRows(r.page) \o r.found)
    /\ torn' = IF cache[open] # r.found \/ Ghosts(ToSet(r.page), open)
               THEN torn \cup {open} ELSE torn
    /\ stale' = IF cache[open] # r.found THEN stale \cup {open} ELSE stale
    /\ UNCHANGED historical

AroundArrives(r) ==
    /\ IF r.target \in ToSet(r.page)
       THEN /\ Keep(r.channel, AsRows(r.page))
            /\ historical' = r.channel
            /\ stale' = stale \ {r.channel}
       ELSE UNCHANGED <<lists, stale>>
    /\ UNCHANGED torn

ReturnArrives(r) ==
    /\ Keep(r.channel, MergeRemoteWithLocals(AsRows(r.page), cache[r.channel]))
    /\ historical' = None
    /\ torn' = IF Outdated(ToSet(r.page), open) THEN torn \cup {open} ELSE torn \ {open}
    /\ stale' = stale \ {r.channel}

Arrives(r) ==
    \/ r.kind \in {"open", "refresh"} /\ LatestArrives(r)
    \/ r.kind = "older" /\ OlderArrives(r)
    \/ r.kind = "around" /\ AroundArrives(r)
    \/ r.kind = "latest" /\ ReturnArrives(r)

\* Only the answer to the latest number counts, and only a refresh may end
\* for a channel that is no longer open.
Answered(r) ==
    /\ r \in requests /\ r.page # None
    /\ requests' = requests \ {r}
    /\ IF r.current /\ (r.kind = "refresh" \/ open = r.channel)
       THEN Arrives(r)
       ELSE UNCHANGED <<lists, history>>
    /\ UNCHANGED <<network, log, down, view, sending, left>>

RequestFails(r) ==
    /\ r \in requests
    /\ Spend("fail")
    /\ requests' = requests \ {r}
    /\ torn' = IF r.current /\ r.kind \in {"open", "refresh"}
               THEN torn \cup {r.channel} ELSE torn
    /\ UNCHANGED <<network, log, down, view, lists, sending, stale>>

-----------------------------------------------------------------------------
(* Sending *)

\* What setMessages starts from: the list on the screen, or the one kept.
Listed(c) == IF open = c THEN shown ELSE cache[c]

Saying(t) == {b \in Attempts : attempt[b].text = t}

\* handleSendMessage: one request at a time for a text in a channel; a failed
\* message of that text gives way.
Send(a, t) ==
    /\ active /\ open # None
    /\ attempt[a].channel = None
    /\ \A p \in posts : ~p.retry => attempt[p.attempt].channel # open
                                     \/ attempt[p.attempt].text # t
    /\ Spend("send")
    /\ attempt' = [attempt EXCEPT ![a] = [channel |-> open, text |-> t, born |-> Len(log)]]
    /\ posts' = posts \cup {[attempt |-> a, retry |-> FALSE, row |-> None]}
    /\ Keep(open, Append(Without(shown, {Local(b, "failed") : b \in Saying(t)}),
                         Local(a, "sending")))
    /\ UNCHANGED <<network, log, down, view, historical, requests, removals, history>>

\* handleRetryMessage: under the same request id.
Retry(a) ==
    /\ active /\ open # None
    /\ \E i \in DOMAIN shown : shown[i] = Local(a, "failed")
    /\ Spend("retry")
    /\ posts' = posts \cup {[attempt |-> a, retry |-> TRUE, row |-> None]}
    /\ Keep(open, Replace(shown, a, Local(a, "sending")))
    /\ UNCHANGED <<network, log, down, view, historical, requests, attempt, removals, history>>

\* handleDeleteMessage for a message that is only local.
Discard(a) ==
    /\ active /\ open # None
    /\ \E i \in DOMAIN shown : IsOf(shown[i], a)
    /\ Spend("discard")
    /\ Keep(open, Without(shown, LocalsOf(a)))
    /\ UNCHANGED <<network, log, down, view, historical, requests, sending, history>>

\* The answer to a send: the local message becomes the server's.
SendConfirmed(p) ==
    LET a == p.attempt
        c == attempt[a].channel
    IN
    /\ p \in posts /\ p.row # None
    /\ posts' = posts \ {p}
    /\ Keep(c, IF p.retry THEN ApplyRetried(Listed(c), a, p.row)
               ELSE Reconcile(Listed(c), a, p.row))
    /\ torn' = IF open = c /\ (Ghosts({p.row}, c) \/ Lacks(Ids(shown), c, p.row))
               THEN torn \cup {c} ELSE torn
    /\ UNCHANGED <<network, log, down, view, historical, requests, attempt, removals, stale, left>>

\* Slip: a failure is not noted on the message.
SendFailsUnnoted(p) ==
    /\ p \in posts
    /\ Spend("fail")
    /\ posts' = posts \ {p}
    /\ UNCHANGED <<network, log, down, view, lists, requests, attempt, removals, history>>

\* The request or its answer is lost: the message was or was not stored.
SendFails(p) ==
    /\ p \in posts
    /\ Spend("fail")
    /\ posts' = posts \ {p}
    /\ LET c == attempt[p.attempt].channel IN Keep(c, ApplyFailed(Listed(c), p.attempt))
    /\ UNCHANGED <<network, log, down, view, historical, requests, attempt, removals, history>>

\* handleDeleteMessage for a message of the server.
DeleteMessage(n) ==
    /\ active /\ open # None /\ n \in Ids(shown)
    /\ Spend("delete")
    /\ removals' = removals \cup {[row |-> n, channel |-> open, done |-> FALSE]}
    /\ UNCHANGED <<network, log, down, view, lists, requests, attempt, posts, history>>

Delete(q) ==
    /\ q \in removals /\ ~q.done /\ log[q.row].present
    /\ log' = [log EXCEPT ![q.row].present = FALSE]
    /\ down' = Tell("deleted", q.row)
    /\ torn' = torn \cup Unnoticed(log[q.row].channel)
    /\ removals' = (removals \ {q}) \cup {[q EXCEPT !.done = TRUE]}
    /\ UNCHANGED <<network, view, lists, requests, attempt, posts, stale, left>>

DeleteRefused(q) ==
    /\ q \in removals /\ ~q.done /\ ~log[q.row].present
    /\ removals' = removals \ {q}
    /\ UNCHANGED <<network, log, down, view, lists, requests, attempt, posts, history, left>>

\* The answer: the list on the screen is kept for the channel of the request,
\* even when another channel is open by now.
DeleteConfirmed(q) ==
    /\ q \in removals /\ q.done
    /\ removals' = removals \ {q}
    /\ shown' = Without(shown, {Row(q.row)})
    /\ cache' = [cache EXCEPT ![q.channel] = shown']
    /\ UNCHANGED <<network, log, down, view, historical, requests, attempt, posts, history, left>>

-----------------------------------------------------------------------------
(* Events *)

\* Slip: the message is put on the screen whichever channel is open.
NewMessageAnywhere(n) ==
    /\ IF active /\ open # None /\ ~HasRow(shown, n)
       THEN Keep(open, Append(shown, Row(n)))
       ELSE UNCHANGED <<shown, cache>>
    /\ UNCHANGED <<unread, torn>>

\* NewMessage: the message takes the place of one being sent with its text.
NewMessage(n) ==
    LET c == log[n].channel
        mine == log[n].request # None
        awaited == IF ~mine THEN {}
                   ELSE {Local(a, "sending") : a \in Saying(attempt[log[n].request].text)}
    IN
    IF c = open /\ active
    THEN /\ IF HasRow(shown, n)
            THEN UNCHANGED <<shown, cache>>
            ELSE Keep(c, Append(Without(shown, awaited), Row(n)))
         /\ UNCHANGED <<unread, torn>>
    ELSE /\ cache' = IF cache[c] = <<>> \/ HasRow(cache[c], n) THEN cache
                     ELSE [cache EXCEPT ![c] = Append(@, Row(n))]
         /\ unread' = IF mine THEN unread ELSE [unread EXCEPT ![c] = @ \cup {n}]
         /\ torn' = IF c = open THEN torn \cup {c} ELSE torn
         /\ UNCHANGED shown

MessageDeleted(n) ==
    LET c == log[n].channel IN
    /\ shown' = IF c = open THEN Without(shown, {Row(n)}) ELSE shown
    /\ cache' = [cache EXCEPT ![c] = Without(@, {Row(n)})]
    /\ UNCHANGED <<unread, torn>>

HandleEvent ==
    /\ down # <<>>
    /\ down' = Tail(down)
    /\ LET event == Head(down) IN
       \/ event.type = "new" /\ NewMessage(event.id)
       \/ event.type = "deleted" /\ MessageDeleted(event.id)
    /\ UNCHANGED <<network, log, open, active, read, historical, requests, sending, stale, left>>

-----------------------------------------------------------------------------
(* The connection and the view *)

\* Slip: nothing is fetched when the connection comes back.
ConnectsOnly ==
    /\ Opens
    /\ UNCHANGED <<subscribed, log, down, view, lists, requests, sending, history, left>>

\* onReconnect runs before the channels are subscribed again.
Connects ==
    /\ Opens
    /\ IF was /\ open # None THEN Ask("refresh", open, None) ELSE UNCHANGED requests
    /\ UNCHANGED <<subscribed, log, down, view, lists, sending, history, left>>

Subscribes ==
    /\ link = "up" /\ ~subscribed
    /\ subscribed' = TRUE
    /\ UNCHANGED <<link_vars, log, down, view, lists, requests, sending, history, left>>

\* Events on their way are lost with the connection.
Disconnects ==
    /\ Loses
    /\ Spend("drop")
    /\ subscribed' = FALSE /\ down' = <<>>
    /\ UNCHANGED <<log, view, lists, requests, sending, history>>

GivesUp ==
    /\ Exhausted
    /\ Spend("drop")
    /\ UNCHANGED <<subscribed, log, down, view, lists, requests, sending, history>>

SeeksConnection ==
    /\ Wanted
    /\ UNCHANGED <<subscribed, log, down, view, lists, requests, sending, history, left>>

\* The direct messages are shown; the servers' view stays mounted.
LeaveView ==
    /\ active
    /\ Spend("leave")
    /\ active' = FALSE
    /\ UNCHANGED <<network, log, down, open, unread, read, lists, requests, sending, history>>

\* Back again: what is unread in the open channel is marked read.
ReturnToView ==
    /\ ~active
    /\ active' = TRUE
    /\ IF open = None THEN UNCHANGED <<unread, read>> ELSE MarkRead(open)
    /\ UNCHANGED <<network, log, down, open, lists, requests, sending, history, left>>

-----------------------------------------------------------------------------

Init ==
    /\ LinkInit
    /\ log = <<>> /\ subscribed = FALSE /\ down = <<>>
    /\ open = None /\ active = TRUE
    /\ shown = <<>> /\ cache = [c \in Channels |-> <<>>] /\ historical = None
    /\ requests = {}
    /\ attempt = [a \in Attempts |-> [channel |-> None, text |-> None, born |-> 0]]
    /\ posts = {} /\ removals = {}
    /\ unread = [c \in Channels |-> {}] /\ read = {}
    /\ torn = {} /\ stale = {}
    /\ left \in Scenarios

LinkStep == Connects \/ Subscribes \/ Disconnects \/ GivesUp \/ SeeksConnection
ListStep ==
    \/ \E c \in Channels : OpenChannel(c)
    \/ LoadOlder \/ ReturnToLatest
    \/ \E n \in Rows : JumpTo(n)
    \/ \E r \in requests : ReadPage(r) \/ Answered(r) \/ RequestFails(r)
SendStep ==
    \/ \E a \in Attempts : Retry(a) \/ Discard(a) \/ \E t \in Texts : Send(a, t)
    \/ \E p \in posts : Store(p) \/ SendConfirmed(p) \/ SendFails(p)
    \/ \E n \in Rows : DeleteMessage(n)
    \/ \E q \in removals : Delete(q) \/ DeleteRefused(q) \/ DeleteConfirmed(q)

Next ==
    \/ LinkStep \/ ListStep \/ SendStep \/ HandleEvent
    \/ LeaveView \/ ReturnToView
    \/ \E c \in Channels : OtherPosts(c)
    \/ \E n \in Rows : IsDeleted(n)

Spec == Init /\ [][Next]_vars

\* While requests are to be answered or events to be handled, one of them is.
Handling ==
    \/ HandleEvent
    \/ \E p \in posts : Store(p) \/ SendConfirmed(p)
    \/ \E r \in requests : ReadPage(r) \/ Answered(r)
Fairness == WF_vars(Handling)
FairSpec == Spec /\ Fairness

-----------------------------------------------------------------------------
(* Properties *)

TypeOK ==
    /\ link \in {"off", "trying", "up", "resting"} /\ was \in BOOLEAN
    /\ log \in Seq(Stored) /\ subscribed \in BOOLEAN
    /\ down \in Seq([type : {"new", "deleted"}, id : Rows])
    /\ open \in OrNone(Channels) /\ active \in BOOLEAN
    /\ shown \in Seq(Entries) /\ cache \in [Channels -> Seq(Entries)]
    /\ historical \in OrNone(Channels)
    /\ requests \subseteq Requests
    /\ attempt \in [Attempts -> Drafts] /\ posts \subseteq Posts
    /\ removals \subseteq Removals
    /\ unread \in [Channels -> SUBSET Rows] /\ read \subseteq Rows
    /\ torn \subseteq Channels /\ stale \subseteq Channels
    /\ left \in [Budgets -> Nat]

\* A message is on the server once, however often its request was lost, failed
\* and was retried.
StoredOnce == \A a \in Attempts : Cardinality(RequestedRows(a)) <= 1

\* Nothing is under way for the open channel.
Quiet ==
    /\ link = "up" /\ subscribed /\ down = <<>>
    /\ active /\ open # None /\ historical # open
    /\ Current = {}

\* The list on the screen is the channel from some message on, at least a page
\* of what was ever written: nothing between is missing, nothing deleted is left.
UpToDate ==
    LET since(k) == {n \in Rows : log[n].channel = open /\ n >= k}
    IN  \E k \in 1..(Len(log) + 1) :
            /\ Ids(shown) = since(k) \cap Present(open)
            /\ k = 1 \/ Cardinality(since(k)) >= PageSize

\* Once nothing is under way the open channel is up to date, across lost
\* connections, channel switches and answers that come late; torn are only the
\* lists that lost what happened while their page was on its way, while the
\* view was hidden or before the subscription.
CaughtUp == Quiet /\ open \notin torn => UpToDate

\* A message shown as being sent is being sent.
SendingIsSent ==
    open \notin stale =>
        \A i \in DOMAIN shown : shown[i].status = "sending" =>
                 \E p \in posts : p.attempt = shown[i].attempt

\* No message is shown or kept under another channel.  DeleteConfirmed breaks
\* it when its channel was left meanwhile; the scenarios keep that channel open.
ChannelsApart ==
    \A c \in Channels :
        /\ \A n \in Ids(cache[c]) : log[n].channel = c
        /\ \A i \in DOMAIN cache[c] :
              cache[c][i].attempt # None => attempt[cache[c][i].attempt].channel = c

\* A send ends: no message stays on the screen as being sent.
SendSettles ==
    \A a \in Attempts :
        (\E i \in DOMAIN shown : shown[i] = Local(a, "sending"))
            ~> (open \in stale \/ ~\E i \in DOMAIN shown : shown[i] = Local(a, "sending"))

\* No message is in the list twice.
ShownOnce ==
    \A i, j \in DOMAIN shown :
        shown[i].id = shown[j].id /\ shown[i].id # None => i = j

\* A message marked read when the user returns is on the screen.
ReadIsShown ==
    active /\ open # None /\ Current = {} =>
        read \cap LastOf(Present(open), PageSize) \subseteq Ids(shown)
=============================================================================
