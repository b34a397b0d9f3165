--------------------------- MODULE DesktopSession ---------------------------
(***************************************************************************)
(* The session of the desktop app (stores/auth.ts, secureStorage.ts, the   *)
(* effects of App.tsx and the 401 handling of api/client.ts): sign-in,     *)
(* restore, sign-out and expiry, the queue that orders their keyring and   *)
(* server calls, the keyring, the logout tombstone in localStorage and the *)
(* list of tokens whose revocation failed.  The app may stop anywhere; the *)
(* keyring and localStorage survive.                                       *)
(***************************************************************************)
EXTENDS Integers, Sequences, FiniteSets

CONSTANTS
    Tokens,      \* session tokens the server can issue
    None,        \* no token
    Stored,      \* tokens, or None, that an earlier run may have left
    MaxPending,  \* MAX_PENDING_REVOCATIONS
    Limit        \* budgets of what users, the network and the keyring do

Spendable == {"signin", "logout", "request", "revoke", "refused", "offline", "locked", "crash"}

ASSUME NoneAssumption == None \notin Tokens
ASSUME StoredAssumption == Stored \subseteq {None} \cup Tokens
ASSUME MaxPendingAssumption == MaxPending \in Nat \ {0}
ASSUME LimitAssumption == Limit \in [Spendable -> Nat]

VARIABLES
    store,      \* useAuthStore: the token, sessionState and loggingOut
    restore,    \* the pending restoreSession of this generation
    queue,      \* desktopTask: the operation that runs and those behind it
    call,       \* an API call that is under way
    screens,    \* what code of the screens, mounted or not, still holds
    keyring,    \* what the system keyring holds
    tombstone,  \* DESKTOP_LOGOUT_PENDING, of this server and of older versions
    valid,      \* tokens the server accepts
    issued,     \* tokens the server has issued
    signedOut,  \* tokens of sessions the user logged out of
    spent

vars == <<store, restore, queue, call, screens, keyring, tombstone, valid, issued,
          signedOut, spent>>
server == <<valid, issued>>

OrNone == {None} \cup Tokens
Kinds == {"retry", "cleanup", "signin", "remove", "logout"}
Steps == {"start", "list", "retry", "save", "read", "revoke", "parked", "park", "remove", "write"}
\* current: no invalidate since the operation was queued.
Operations == [kind : Kinds, token : OrNone, current : BOOLEAN, step : Steps,
               victim : OrNone, list : Seq(Tokens), left : Seq(Tokens)]
Stores == [token : OrNone, state : {"idle", "loading", "ready", "error"}, loggingOut : BOOLEAN]
Restores == [step : {"none", "cleaning", "reading", "asking"}, token : OrNone]

Spend(what) == /\ spent[what] < Limit[what]
               /\ spent' = [spent EXCEPT ![what] = @ + 1]

Idle == [step |-> "none", token |-> None]
NoCall == [token |-> None, current |-> FALSE, ready |-> FALSE]
Calls == [token : OrNone,
          current : BOOLEAN,     \* sessionEpoch is authSessionEpoch
          ready : BOOLEAN]       \* made with the token of a ready session
Screens == [held : SUBSET Tokens, \* tokens a closure may have captured
            handled : BOOLEAN]   \* authFailureHandledRef
NothingHeld == [held |-> {}, handled |-> FALSE]
Operation(kind, token) ==
    [kind |-> kind, token |-> token, current |-> TRUE, step |-> "start",
     victim |-> None, list |-> <<>>, left |-> <<>>]
SignedOutStore(loggingOut) == [token |-> None, state |-> "ready", loggingOut |-> loggingOut]

Elements(s) == {s[i] : i \in DOMAIN s}
LogoutPending == tombstone.server \/ tombstone.legacy
Cleared == [server |-> FALSE, legacy |-> FALSE]

\* setPendingRevocations: without duplicates, the newest few.
Park(s, t) ==
    LET all == IF t \in Elements(s) THEN s ELSE Append(s, t)
    IN  IF Len(all) > MaxPending THEN Tail(all) ELSE all

\* Slip: a change of session leaves the calls of the old one current.
InvalidateQueueOnly(more) ==
    /\ queue' = [i \in DOMAIN queue |-> [queue[i] EXCEPT !.current = FALSE]] \o more
    /\ restore' = Idle
    /\ UNCHANGED call

\* Slip: the operations on the queue are not invalidated.
InvalidateCallsOnly(more) ==
    /\ queue' = queue \o more
    /\ restore' = Idle
    /\ call' = [call EXCEPT !.current = FALSE]

\* invalidate: what is under way belongs to an older generation.
Invalidate(more) ==
    /\ queue' = [i \in DOMAIN queue |-> [queue[i] EXCEPT !.current = FALSE]] \o more
    /\ restore' = Idle
    /\ call' = [call EXCEPT !.current = FALSE]

-----------------------------------------------------------------------------
(* The entry points of the store *)

\* The token the server issues next; which one it is does not matter.
NextIssued(t) == t \notin issued /\ t = CHOOSE u \in Tokens : u \notin issued

\* setAuth queues the keyring write of a token the server has just issued.
SetAuth(t) ==
    /\ Invalidate(<<Operation("signin", t)>>)
    /\ store' = [store EXCEPT !.state = "loading"]
    /\ UNCHANGED <<keyring, tombstone, signedOut>>

\* A sign-in: the form, or a deep link at any time after the start.
SignIn(t) ==
    /\ NextIssued(t)
    /\ store.state # "idle" \/ store.token # None
    /\ Spend("signin")
    /\ issued' = issued \cup {t} /\ valid' = valid \cup {t}
    /\ SetAuth(t)

\* A password is set: the server ends the old token and issues another.
SetPassword(t) ==
    /\ NextIssued(t)
    /\ store.state = "ready" /\ store.token # None
    /\ Spend("signin")
    /\ issued' = issued \cup {t}
    /\ valid' = (valid \cup {t}) \ {store.token}
    /\ SetAuth(t)

\* "Log out" is offered on the signed-in screens and when the session could
\* not be checked; a changed password, which ends the token, logs out a
\* moment later on any screen.
CanLogOut ==
    \/ store.state = "error"
    \/ store.token # None /\ (store.state = "ready" \/ store.token \notin valid)

\* The session the user ends: the one on the screen, or else the stored one.
Ended == {IF store.token # None THEN store.token ELSE keyring.token} \ {None}

\* logout.
LogOut ==
    /\ CanLogOut
    /\ Spend("logout")
    /\ tombstone' = [tombstone EXCEPT !.server = TRUE]
    /\ Invalidate(<<Operation("logout", store.token)>>)
    /\ store' = SignedOutStore(TRUE)
    /\ signedOut' = signedOut \cup Ended
    /\ UNCHANGED <<server, keyring>>

\* clearSession: the server no longer accepts the token.
ClearSession ==
    /\ tombstone' = [tombstone EXCEPT !.server = TRUE]
    /\ Invalidate(<<Operation("remove", None)>>)
    /\ store' = SignedOutStore(FALSE)

\* Slip: the tombstone is not looked at.
RestoreSessionAlways ==
    /\ restore.step = "none" /\ ~store.loggingOut
    /\ store.state \in {"idle", "error"}
    /\ store' = [store EXCEPT !.state = "loading"]
    /\ queue' = Append(queue, Operation("retry", None))
    /\ restore' = IF store.token # None THEN [step |-> "asking", token |-> store.token]
                  ELSE [step |-> "reading", token |-> None]
    /\ UNCHANGED <<call, keyring, tombstone, server, signedOut, spent>>

\* restoreSession, from App's effect in the idle state or from "Try again".
RestoreSession ==
    /\ restore.step = "none" /\ ~store.loggingOut
    /\ store.state \in {"idle", "error"}
    /\ store' = [store EXCEPT !.state = "loading"]
    /\ queue' = Append(queue, Operation("retry", None))
                \o IF LogoutPending THEN <<Operation("cleanup", None)>> ELSE <<>>
    /\ restore' = IF LogoutPending THEN [step |-> "cleaning", token |-> None]
                  ELSE IF store.token # None THEN [step |-> "asking", token |-> store.token]
                  ELSE [step |-> "reading", token |-> None]
    /\ UNCHANGED <<call, keyring, tombstone, server, signedOut, spent>>

RestoreReads ==
    /\ restore.step = "reading"
    /\ IF keyring.token = None
       THEN restore' = Idle /\ store' = [store EXCEPT !.token = None, !.state = "ready"]
       ELSE restore' = [step |-> "asking", token |-> keyring.token] /\ UNCHANGED store
    /\ UNCHANGED <<queue, call, keyring, tombstone, server, signedOut, spent>>

\* The session snapshot arrives, or a 401.
RestoreAnswered ==
    /\ restore.step = "asking"
    /\ IF restore.token \in valid
       THEN /\ restore' = Idle
            /\ store' = [store EXCEPT !.token = restore.token, !.state = "ready"]
            /\ UNCHANGED <<queue, call, tombstone>>
       ELSE ClearSession
    /\ UNCHANGED <<keyring, server, signedOut, spent>>

\* The keyring is locked, or the server cannot be reached.
RestoreFails ==
    /\ \/ /\ restore.step = "reading"
          /\ Spend("locked")
       \/ /\ restore.step = "asking"
          /\ Spend("offline")
    /\ restore' = Idle
    /\ store' = [store EXCEPT !.state = "error"]
    /\ UNCHANGED <<queue, call, keyring, tombstone, server, signedOut>>

-----------------------------------------------------------------------------
(* The operations on the desktop queue, one await at a time *)

op == Head(queue)
Runs(step) == queue # <<>> /\ op.step = step
Goto(step) == queue' = [queue EXCEPT ![1].step = step]

\* The operation is done and, if nothing invalidated it, its caller goes on.
Finish ==
    /\ queue' = Tail(queue)
    /\ restore' = IF op.kind = "cleanup" /\ op.current THEN Idle ELSE restore
    /\ tombstone' = IF op.current /\ op.kind # "retry" THEN Cleared ELSE tombstone
    /\ store' = IF ~op.current THEN store
                ELSE CASE op.kind = "signin" ->
                            [token |-> op.token, state |-> "idle", loggingOut |-> FALSE]
                       [] op.kind = "cleanup" -> [store EXCEPT !.token = None, !.state = "ready"]
                       [] op.kind = "logout" -> [store EXCEPT !.loggingOut = FALSE]
                       [] OTHER -> store

\* It throws: its caller shows the error page.
Abort ==
    /\ queue' = Tail(queue)
    /\ restore' = IF op.kind = "cleanup" /\ op.current THEN Idle ELSE restore
    /\ store' = IF ~op.current THEN store
                ELSE CASE op.kind = "signin" -> [store EXCEPT !.token = None, !.state = "error"]
                       [] op.kind = "logout" ->
                            [store EXCEPT !.loggingOut = FALSE, !.state = "error"]
                       [] op.kind \in {"cleanup", "remove"} -> [store EXCEPT !.state = "error"]
                       [] OTHER -> store

\* The write of a sign-in starts under the tombstone, so that a stop before
\* the commit does not sign in.
StartWrite ==
    /\ Goto("write")
    /\ tombstone' = [tombstone EXCEPT !.server = TRUE]

Start ==
    /\ Runs("start")
    /\ CASE op.kind = "retry" -> Goto("list") /\ UNCHANGED <<store, restore, tombstone>>
         [] op.kind = "cleanup" -> Goto("read") /\ UNCHANGED <<store, restore, tombstone>>
         [] op.kind = "remove" -> Goto("remove") /\ UNCHANGED <<store, restore, tombstone>>
         [] op.kind = "logout" ->
              /\ queue' = [queue EXCEPT ![1].step = IF op.token = None THEN "read" ELSE "revoke",
                                        ![1].victim = op.token]
              /\ UNCHANGED <<store, restore, tombstone>>
         [] op.kind = "signin" ->
              IF ~op.current THEN Abort /\ UNCHANGED tombstone
              ELSE /\ IF tombstone.legacy THEN Goto("read") /\ UNCHANGED tombstone ELSE StartWrite
                   /\ UNCHANGED <<store, restore>>
    /\ UNCHANGED <<call, keyring, server, signedOut, spent>>

\* Slip: an empty keyring is revoked as well.
ReadTokenUnchecked ==
    /\ Runs("read")
    /\ queue' = IF op.kind = "logout"
                THEN [queue EXCEPT ![1].step = "remove"]
                ELSE [queue EXCEPT ![1].step = "revoke", ![1].victim = keyring.token]
    /\ UNCHANGED <<store, restore, call, keyring, tombstone, server, signedOut, spent>>

\* cleanupDesktopSession reads the token and revokes it, unless the logout
\* that runs has done so.
ReadToken ==
    /\ Runs("read")
    /\ queue' = IF keyring.token = None \/ op.kind = "logout"
                THEN [queue EXCEPT ![1].step = "remove"]
                ELSE [queue EXCEPT ![1].step = "revoke", ![1].victim = keyring.token]
    /\ UNCHANGED <<store, restore, call, keyring, tombstone, server, signedOut, spent>>

AfterRevoke == IF op.kind = "logout" THEN "read" ELSE "remove"

Revoke ==
    /\ Runs("revoke")
    /\ valid' = valid \ {op.victim}
    /\ Goto(AfterRevoke)
    /\ UNCHANGED <<store, restore, call, keyring, tombstone, issued, signedOut, spent>>

\* Slip: a revocation that failed is forgotten.
RevokeFailsSilently ==
    /\ Runs("revoke")
    /\ Spend("refused")
    /\ valid' \in {valid, valid \ {op.victim}}
    /\ Goto(AfterRevoke)
    /\ UNCHANGED <<store, restore, call, keyring, tombstone, issued, signedOut>>

\* Slip: a revocation that failed ends the logout where it stands.
RevokeFailsForGood ==
    /\ Runs("revoke")
    /\ Spend("refused")
    /\ valid' \in {valid, valid \ {op.victim}}
    /\ queue' = Tail(queue)
    /\ UNCHANGED <<store, restore, call, keyring, tombstone, issued, signedOut>>

\* revokeOrPark: the server is out of reach, or its answer is lost.
RevokeFails ==
    /\ Runs("revoke")
    /\ Spend("refused")
    /\ valid' \in {valid, valid \ {op.victim}}
    /\ Goto("parked")
    /\ UNCHANGED <<store, restore, call, keyring, tombstone, issued, signedOut>>

ReadParked ==
    /\ Runs("parked") \/ Runs("list")
    /\ IF op.step = "list" /\ keyring.parked = <<>>
       THEN queue' = Tail(queue)
       ELSE queue' = [queue EXCEPT ![1].step = IF @ = "list" THEN "retry" ELSE "park",
                                   ![1].list = keyring.parked]
    /\ UNCHANGED <<store, restore, call, keyring, tombstone, server, signedOut, spent>>

ParkToken ==
    /\ Runs("park")
    /\ keyring' = [keyring EXCEPT !.parked = Park(op.list, op.victim)]
    /\ Goto(AfterRevoke)
    /\ UNCHANGED <<store, restore, call, tombstone, server, signedOut, spent>>

\* retryPendingRevocations: one token after the other, then the rest is saved.
RetryRevoke(fails) ==
    LET t == Head(op.list) IN
    /\ Runs("retry")
    /\ valid' \in IF fails THEN {valid, valid \ {t}} ELSE {valid \ {t}}
    /\ IF fails THEN Spend("refused") ELSE UNCHANGED spent
    /\ queue' = [queue EXCEPT ![1].step = IF Len(op.list) = 1 THEN "save" ELSE @,
                              ![1].list = Tail(@),
                              ![1].left = IF fails THEN Append(@, t) ELSE @]
    /\ UNCHANGED <<store, restore, call, keyring, tombstone, issued, signedOut>>

SaveParked ==
    /\ Runs("save")
    /\ keyring' = [keyring EXCEPT !.parked = op.left]
    /\ queue' = Tail(queue)
    /\ UNCHANGED <<store, restore, call, tombstone, server, signedOut, spent>>

RemoveToken ==
    /\ Runs("remove")
    /\ keyring' = [keyring EXCEPT !.token = None]
    /\ IF op.kind = "signin"
       THEN StartWrite /\ UNCHANGED <<store, restore>>
       ELSE Finish
    /\ UNCHANGED <<call, server, signedOut, spent>>

WriteToken ==
    /\ Runs("write")
    /\ keyring' = [keyring EXCEPT !.token = op.token]
    /\ IF op.current THEN Finish ELSE Abort /\ UNCHANGED tombstone
    /\ UNCHANGED <<call, server, signedOut, spent>>

\* Any keyring access may fail.
KeyringLocked ==
    /\ queue # <<>> /\ op.step \in {"list", "save", "read", "parked", "park", "remove", "write"}
    /\ Spend("locked")
    /\ Abort
    /\ UNCHANGED <<call, keyring, tombstone, server, signedOut>>

-----------------------------------------------------------------------------
(* Calls of the signed-in screens, the server, and a stop of the app *)

\* apiFetch takes the caller's token, which may be that of an earlier session,
\* and reads the epoch when it is called.
Request(t) ==
    /\ call = NoCall /\ t \in screens.held
    /\ Spend("request")
    /\ call' = [token |-> t, current |-> TRUE,
                ready |-> store.state = "ready" /\ t = store.token]
    /\ UNCHANGED <<store, restore, queue, keyring, tombstone, server, signedOut>>

\* The answer is a 401 of the epoch, and none was handled since a user signed in.
Clears == call.token \notin valid /\ call.current /\ ~screens.handled

\* clearExpiredSession, or nothing.
Answer ==
    /\ call.token # None
    /\ IF Clears
       THEN /\ tombstone' = [tombstone EXCEPT !.server = TRUE]
            /\ queue' = [i \in DOMAIN queue |-> [queue[i] EXCEPT !.current = FALSE]]
                        \o <<Operation("remove", None)>>
            /\ restore' = Idle
            /\ store' = SignedOutStore(FALSE)
       ELSE UNCHANGED <<store, restore, queue, tombstone>>
    /\ call' = NoCall
    /\ UNCHANGED <<keyring, server, signedOut, spent>>

\* The password is changed on another device, or the account goes.
ServerRevokes(t) ==
    /\ t \in valid
    /\ Spend("revoke")
    /\ valid' = valid \ {t}
    /\ UNCHANGED <<store, restore, queue, call, keyring, tombstone, issued, signedOut>>

\* The app stops and starts again.
Crash ==
    /\ Spend("crash")
    /\ store' = [token |-> None, state |-> "idle", loggingOut |-> FALSE]
    /\ restore' = Idle
    /\ queue' = <<>>
    /\ call' = NoCall
    /\ UNCHANGED <<keyring, tombstone, server, signedOut>>

\* What the screens hold after a step: the tokens shown since the app started,
\* and whether a 401 was handled since a user signed in.
ScreensHold(handledNow) ==
    screens' =
        IF store'.token = None /\ store'.state = "idle" THEN NothingHeld
        ELSE [held |-> screens.held \cup ({store'.token} \ {None}),
              handled |-> store'.token = None /\ (screens.handled \/ handledNow)]

-----------------------------------------------------------------------------

\* An earlier start may have left a session, and an earlier version its flag.
Init ==
    /\ store = [token |-> None, state |-> "idle", loggingOut |-> FALSE]
    /\ restore = Idle
    /\ queue = <<>>
    /\ call = NoCall
    /\ screens = NothingHeld
    /\ \E t \in Stored :
          /\ keyring = [token |-> t, parked |-> <<>>]
          /\ valid = {t} \ {None} /\ issued = {t} \ {None}
    /\ tombstone \in [server : {FALSE}, legacy : BOOLEAN]
    /\ signedOut = IF tombstone.legacy THEN issued ELSE {}
    /\ spent = [what \in Spendable |-> 0]

QueueStep ==
    \/ Start \/ ReadToken \/ Revoke \/ RevokeFails \/ ReadParked \/ ParkToken
    \/ SaveParked \/ RemoveToken \/ WriteToken \/ KeyringLocked
    \/ \E fails \in BOOLEAN : RetryRevoke(fails)

RestoreStep == RestoreReads \/ RestoreAnswered \/ RestoreFails

Acts ==
    \/ \E t \in Tokens : SignIn(t) \/ SetPassword(t) \/ ServerRevokes(t) \/ Request(t)
    \/ LogOut \/ RestoreSession \/ RestoreStep \/ QueueStep \/ Crash

Next == (Acts /\ ScreensHold(FALSE)) \/ (Answer /\ ScreensHold(Clears))

Spec == Init /\ [][Next]_vars

\* Requests have deadlines and the keyring answers; App's effect restores an
\* idle session.  Nobody has to try again on the error page.
Fairness ==
    /\ WF_vars(QueueStep /\ ScreensHold(FALSE)) /\ WF_vars(RestoreStep /\ ScreensHold(FALSE))
    /\ WF_vars(store.state = "idle" /\ RestoreSession /\ ScreensHold(FALSE))
FairSpec == Spec /\ Fairness

-----------------------------------------------------------------------------
(* Properties *)

TypeOK ==
    /\ store \in Stores
    /\ restore \in Restores
    /\ queue \in Seq(Operations)
    /\ call \in Calls
    /\ screens \in Screens
    /\ keyring \in [token : OrNone, parked : Seq(Tokens)]
    /\ tombstone \in [server : BOOLEAN, legacy : BOOLEAN]
    /\ valid \subseteq Tokens /\ issued \subseteq Tokens /\ signedOut \subseteq Tokens
    /\ spent \in [Spendable -> Nat]

\* A session the user logged out of never comes back, whatever is still on
\* its way, fails or is cut off by a stop of the app.
SignedOutStaysOut == store.token \notin signedOut

\* A session the app shows as signed in is the one in the keyring, without a
\* tombstone: it survives a stop of the app.
SessionSurvives ==
    store.token # None /\ store.state \in {"idle", "ready"} =>
        keyring.token = store.token /\ ~LogoutPending

\* What keeps a token for revocation, even over a stop of the app: the stored
\* token under a tombstone, or the list of failed revocations.
Kept(t) == (keyring.token = t /\ LogoutPending) \/ t \in Elements(keyring.parked)

\* A token the user logged out of is revoked or kept for revocation, as long
\* as the list has room for every token that was ever issued: the list also
\* takes tokens nobody logged out of, and drops its oldest.
RevokedOrKept ==
    Cardinality(issued) <= MaxPending => \A t \in signedOut \cap valid : Kept(t)

\* The same while the keyring answers and no session check has failed.
RevokedUnlessCutOff ==
    spent["locked"] = 0 /\ spent["offline"] = 0 => RevokedOrKept

\* A 401 clears only a session whose own token the server has refused.
OnlyRefusedIsCleared ==
    [][Answer /\ store'.token # store.token => store.token \notin valid]_vars

\* So it is with a call that was made with the token of a ready session, however
\* late its answer comes and whatever follows that session.
LateAnswerIsHarmless ==
    [][Answer /\ store'.token # store.token /\ call.ready => store.token \notin valid]_vars

\* A logout ends, and the app can sign in again, unless the keyring failed.
LogoutEnds == store.loggingOut ~> (~store.loggingOut \/ spent["locked"] > 0)
=============================================================================
