------------------------ MODULE DesktopSessionProofs ------------------------
(***************************************************************************)
(* For any number of tokens, sign-ins, logouts, failures and stops of the  *)
(* app: a session the user logged out of is never shown again, and one     *)
(* that is shown survives a stop of the app.                               *)
(***************************************************************************)
EXTENDS DesktopSession, SequenceTheorems, TLAPS

-----------------------------------------------------------------------------
(* What the operations on the queue may look like *)

\* An operation is where its kind takes it, with what it needs there.
Sane(o) ==
    /\ o.step = "retry" => o.list # <<>>
    /\ o.step \in {"revoke", "parked", "park"} => o.victim # None
    /\ o.kind = "retry" => o.step \in {"start", "list", "retry", "save"}
    /\ o.step \in {"list", "retry", "save"} => o.kind = "retry"
    /\ o.step = "write" => o.kind = "signin"

SignsIn(o) == o.kind = "signin"
Ends(o) == o.kind \in {"logout", "remove"}

\* Its caller waits for it and will change the store.
Binds(o) == o.current /\ o.kind # "retry"

\* It touches neither the stored token nor the tombstone.
Harmless(o) == o.kind = "retry" \/ (o.kind = "signin" /\ ~o.current /\ o.step = "start")

AllSane(q) == \A i \in DOMAIN q : Sane(q[i])

\* The tokens of waiting sign-ins are new, and each waits once.
Fresh(q, known, out, held) ==
    \A i \in DOMAIN q : SignsIn(q[i]) =>
        /\ q[i].token \in known /\ q[i].token \notin out /\ q[i].token \notin held
        /\ \A j \in DOMAIN q : i # j /\ SignsIn(q[j]) => q[i].token # q[j].token

\* Whatever is invalidated is before the one operation somebody waits for.
Orderly(q) == \A i \in DOMAIN q : Binds(q[i]) => i = Len(q)

Line(q, known, out, held) ==
    /\ q \in Seq(Operations) /\ AllSane(q) /\ Orderly(q)
    /\ Fresh(q, known, out, held)

Binding(q) == \E i \in DOMAIN q : Binds(q[i])
Signing(q) == \E i \in DOMAIN q : Binds(q[i]) /\ SignsIn(q[i])
Ending(q) == \E i \in DOMAIN q : Binds(q[i]) /\ Ends(q[i])
Calm(q) == \A i \in DOMAIN q : Harmless(q[i])

\* Operations are the records they are built as.
LEMMA OperationType ==
    ASSUME NEW k \in Kinds, NEW t \in OrNone
    PROVE  /\ Operation(k, t) \in Operations
           /\ Operation(k, t).kind = k /\ Operation(k, t).token = t
           /\ Operation(k, t).current /\ Operation(k, t).step = "start"
           /\ Sane(Operation(k, t))
  <1>1. <<>> \in Seq(Tokens)
    OBVIOUS
  <1> QED
    BY <1>1 DEF Operation, Operations, Steps, OrNone, Sane, Kinds

\* The running operation goes on to another step.
Succeeds(r, q, o) == r = [q EXCEPT ![1] = o]

LEMMA Replaced ==
    ASSUME NEW q, NEW known, NEW out, NEW held, Line(q, known, out, held), q # <<>>,
           NEW o \in Operations, Sane(o), o.kind = q[1].kind, o.token = q[1].token,
           o.current = q[1].current, NEW r, Succeeds(r, q, o)
    PROVE  /\ Line(r, known, out, held)
           /\ Binding(r) <=> Binding(q)
           /\ Signing(r) <=> Signing(q)
           /\ Ending(r) <=> Ending(q)
           /\ Calm(q) /\ q[1].kind = "retry" => Calm(r)
  <1>1. /\ q \in Seq(Operations) /\ 1 \in 1..Len(q) /\ Len(q) \in Nat
        /\ DOMAIN q = 1..Len(q)
    BY EmptySeq, LenProperties DEF Line
  <1>2. /\ r \in Seq(Operations) /\ Len(r) = Len(q)
        /\ \A j \in 1..Len(q) : r[j] = IF j = 1 THEN o ELSE q[j]
    BY <1>1, ExceptSeq DEF Succeeds
  <1>3. DOMAIN r = DOMAIN q
    BY <1>1, <1>2, LenProperties
  <1>4. \A j \in DOMAIN q : /\ r[j].kind = q[j].kind /\ r[j].token = q[j].token
                            /\ r[j].current = q[j].current
                            /\ Sane(q[j]) => Sane(r[j])
                            /\ Binds(r[j]) <=> Binds(q[j])
                            /\ SignsIn(r[j]) <=> SignsIn(q[j])
                            /\ Ends(r[j]) <=> Ends(q[j])
    BY <1>1, <1>2 DEF Binds, SignsIn, Ends
  <1>5. AllSane(r) /\ Orderly(r)
    BY <1>2, <1>3, <1>4 DEF Line, AllSane, Orderly
  <1>6. Fresh(r, known, out, held)
    BY <1>3, <1>4 DEF Line, Fresh
  <1>7. /\ Binding(r) <=> Binding(q)
        /\ Signing(r) <=> Signing(q)
        /\ Ending(r) <=> Ending(q)
    BY <1>3, <1>4 DEF Binding, Signing, Ending
  <1>8. Calm(q) /\ q[1].kind = "retry" => Calm(r)
    BY <1>1, <1>2, <1>3 DEF Calm, Harmless
  <1> QED
    BY <1>2, <1>5, <1>6, <1>7, <1>8 DEF Line

\* The running operation ends.
LEMMA Dropped ==
    ASSUME NEW q, NEW known, NEW out, NEW held, Line(q, known, out, held), q # <<>>,
           NEW r, r = Tail(q)
    PROVE  /\ Line(r, known, out, held)
           /\ SignsIn(q[1]) => Line(r, known, out, held \cup {q[1].token})
           /\ Calm(q) => Calm(r)
           /\ ~Binds(q[1]) => /\ Binding(r) <=> Binding(q)
                              /\ Signing(r) <=> Signing(q)
                              /\ Ending(r) <=> Ending(q)
           /\ Binds(q[1]) => ~Binding(r) /\ ~Signing(r) /\ ~Ending(r) /\ Calm(r)
  <1>1. /\ q \in Seq(Operations) /\ 1 \in 1..Len(q) /\ Len(q) \in Nat
        /\ DOMAIN q = 1..Len(q)
    BY EmptySeq, LenProperties DEF Line
  <1>2. /\ r \in Seq(Operations) /\ Len(r) = Len(q) - 1
        /\ \A j \in 1..Len(r) : r[j] = q[j + 1]
    BY <1>1, HeadTailProperties
  <1>3. DOMAIN r = 1..Len(q) - 1
    BY <1>2, LenProperties
  <1>4. \A j \in DOMAIN r : j + 1 \in DOMAIN q /\ r[j] = q[j + 1] /\ j + 1 # 1
    BY <1>1, <1>2, <1>3
  <1>5. \A j \in DOMAIN q : j # 1 => j - 1 \in DOMAIN r /\ q[j] = r[j - 1]
    BY <1>1, <1>2, <1>3
  <1>6. AllSane(r)
    BY <1>4 DEF Line, AllSane
  <1>7. Orderly(r)
    BY <1>1, <1>2, <1>3, <1>4 DEF Line, Orderly
  <1>8. \A i, j \in DOMAIN r : i # j => i + 1 # j + 1
    BY <1>1, <1>3
  <1>9. Fresh(r, known, out, held)
    BY <1>4, <1>8 DEF Line, Fresh
  <1>10. SignsIn(q[1]) => Fresh(r, known, out, held \cup {q[1].token})
    <2> SUFFICES ASSUME SignsIn(q[1]), NEW i \in DOMAIN r, SignsIn(r[i])
                 PROVE  r[i].token # q[1].token
      BY <1>9 DEF Fresh
    <2>1. i + 1 \in DOMAIN q /\ r[i] = q[i + 1] /\ i + 1 # 1 /\ 1 \in DOMAIN q
      BY <1>1, <1>4
    <2> QED
      BY <2>1 DEF Line, Fresh
  <1>11. Calm(q) => Calm(r)
    BY <1>4 DEF Calm
  <1>12. ~Binds(q[1]) => /\ Binding(r) <=> Binding(q)
                         /\ Signing(r) <=> Signing(q)
                         /\ Ending(r) <=> Ending(q)
    BY <1>4, <1>5 DEF Binding, Signing, Ending
  <1>13. Binds(q[1]) => ~Binding(r) /\ ~Signing(r) /\ ~Ending(r) /\ Calm(r)
    <2> SUFFICES ASSUME Binds(q[1]) PROVE DOMAIN r = {}
      BY DEF Binding, Signing, Ending, Calm
    <2>1. Len(q) = 1
      BY <1>1 DEF Line, Orderly
    <2> QED
      BY <1>3, <2>1
  <1> QED
    BY <1>2, <1>6, <1>7, <1>9, <1>10, <1>11, <1>12, <1>13 DEF Line

\* One more operation on the queue, of which no sign-in is waited for.
LEMMA Added ==
    ASSUME NEW q, NEW known, NEW out, NEW held, Line(q, known, out, held), ~Binding(q),
           NEW o \in Operations, Sane(o),
           SignsIn(o) => o.token \in known /\ o.token \notin out /\ o.token \notin held,
           SignsIn(o) => \A i \in DOMAIN q : SignsIn(q[i]) => q[i].token # o.token,
           NEW r, r = Append(q, o)
    PROVE  /\ Line(r, known, out, held)
           /\ Binding(r) <=> Binds(o)
           /\ Signing(r) <=> Binds(o) /\ SignsIn(o)
           /\ Ending(r) <=> Binds(o) /\ Ends(o)
           /\ Calm(q) /\ Harmless(o) => Calm(r)
  <1>1. /\ q \in Seq(Operations) /\ Len(q) \in Nat /\ DOMAIN q = 1..Len(q)
    BY LenProperties DEF Line
  <1>2. /\ r \in Seq(Operations) /\ Len(r) = Len(q) + 1
        /\ \A j \in 1..Len(r) : r[j] = IF j = Len(r) THEN o ELSE q[j]
    BY <1>1
  <1>3. DOMAIN r = 1..Len(q) + 1
    BY <1>1, <1>2, LenProperties
  <1>4. \A j \in DOMAIN r : j # Len(r) => j \in DOMAIN q /\ r[j] = q[j]
    BY <1>1, <1>2, <1>3
  <1>5. Len(r) \in DOMAIN r /\ r[Len(r)] = o
    BY <1>1, <1>2, <1>3
  <1>6. AllSane(r)
    BY <1>4, <1>5 DEF Line, AllSane
  <1>7. \A j \in DOMAIN r : Binds(r[j]) => j = Len(r)
    BY <1>4 DEF Binding
  <1>8. Fresh(r, known, out, held)
    <2> SUFFICES ASSUME NEW i \in DOMAIN r, SignsIn(r[i])
                 PROVE  /\ r[i].token \in known /\ r[i].token \notin out
                        /\ r[i].token \notin held
                        /\ \A j \in DOMAIN r : i # j /\ SignsIn(r[j]) =>
                                                   r[i].token # r[j].token
      BY DEF Fresh
    <2>1. CASE i = Len(r)
      BY <1>4, <1>5, <2>1
    <2>2. CASE i # Len(r)
      <3>1. i \in DOMAIN q /\ r[i] = q[i]
        BY <1>4, <2>2
      <3> QED
        BY <1>4, <1>5, <3>1 DEF Line, Fresh
    <2> QED
      BY <2>1, <2>2
  <1>9. Binding(r) <=> Binds(o)
    BY <1>5, <1>7 DEF Binding
  <1>10. /\ Signing(r) <=> Binds(o) /\ SignsIn(o)
         /\ Ending(r) <=> Binds(o) /\ Ends(o)
    BY <1>5, <1>7 DEF Signing, Ending
  <1>11. Calm(q) /\ Harmless(o) => Calm(r)
    BY <1>4, <1>5 DEF Calm
  <1> QED
    BY <1>2, <1>6, <1>7, <1>8, <1>9, <1>10, <1>11 DEF Line, Orderly

\* A queue whose operations are all of an older generation.
Staled(q) == [i \in DOMAIN q |-> [q[i] EXCEPT !.current = FALSE]]

LEMMA StaledLine ==
    ASSUME NEW q, NEW known, NEW out, NEW held, Line(q, known, out, held)
    PROVE  Line(Staled(q), known, out, held) /\ ~Binding(Staled(q))
  <1> DEFINE r == Staled(q)
  <1>1. q \in Seq(Operations) /\ Len(q) \in Nat /\ DOMAIN q = 1..Len(q)
    BY LenProperties DEF Line
  <1>2. \A i \in DOMAIN q : q[i] \in Operations
    BY <1>1, ElementOfSeq
  <1>3. \A i \in DOMAIN q : [q[i] EXCEPT !.current = FALSE] \in Operations
    BY <1>2 DEF Operations
  <1>4. r \in [1..Len(q) -> Operations]
    BY <1>1, <1>3 DEF Staled
  <1>5. r \in Seq(Operations)
    BY <1>1, <1>4, SeqDef
  <1>6. DOMAIN r = DOMAIN q /\ Len(r) = Len(q)
    BY <1>1, <1>4, <1>5, LenProperties
  <1>7. \A i \in DOMAIN q : /\ r[i].kind = q[i].kind /\ r[i].token = q[i].token
                            /\ ~r[i].current /\ r[i].step = q[i].step
                            /\ r[i].list = q[i].list /\ r[i].victim = q[i].victim
    BY <1>2 DEF Staled, Operations
  <1> HIDE DEF r
  <1>8. AllSane(r)
    BY <1>6, <1>7 DEF Line, AllSane, Sane
  <1>9. Fresh(r, known, out, held)
    BY <1>6, <1>7 DEF Line, Fresh, SignsIn
  <1>10. ~Binding(r) /\ Orderly(r)
    BY <1>6, <1>7 DEF Binding, Orderly, Binds
  <1> QED
    BY <1>5, <1>8, <1>9, <1>10 DEF Line, r

\* A queue stays in line when more tokens are known and fewer are held.
LEMMA StillInLine ==
    ASSUME NEW q, NEW known, NEW out, NEW held, Line(q, known, out, held),
           NEW known2, NEW out2, NEW held2,
           known \subseteq known2, None \notin known,
           out2 \subseteq out \cup held \cup {None},
           held2 \subseteq out \cup held \cup {None}
    PROVE  Line(q, known2, out2, held2)
  BY DEF Line, Fresh

\* A one-element sequence at the end is an element appended.
LEMMA ConcatOne ==
    ASSUME NEW q \in Seq(Operations), NEW o \in Operations
    PROVE  q \o <<o>> = Append(q, o)
  <1>1. <<o>> \in Seq(Operations) /\ Len(<<o>>) = 1 /\ <<o>>[1] = o
    OBVIOUS
  <1>2. /\ q \o <<o>> \in Seq(Operations) /\ Len(q \o <<o>>) = Len(q) + 1
        /\ \A i \in 1..Len(q) + 1 :
              (q \o <<o>>)[i] = IF i <= Len(q) THEN q[i] ELSE <<o>>[i - Len(q)]
    BY <1>1, ConcatProperties
  <1>3. /\ Append(q, o) \in Seq(Operations) /\ Len(Append(q, o)) = Len(q) + 1
        /\ \A i \in 1..Len(q) + 1 : Append(q, o)[i] = IF i <= Len(q) THEN q[i] ELSE o
    BY LenProperties
  <1>4. \A i \in 1..Len(q) + 1 : (q \o <<o>>)[i] = Append(q, o)[i]
    <2> TAKE i \in 1..Len(q) + 1
    <2>1. Len(q) \in Nat
      BY LenProperties
    <2>2. CASE i <= Len(q)
      BY <1>2, <1>3, <2>2
    <2>3. CASE ~(i <= Len(q))
      <3>1. i - Len(q) = 1
        BY <2>1, <2>3
      <3> QED
        BY <1>1, <1>2, <1>3, <2>3, <3>1
    <2> QED
      BY <2>2, <2>3
  <1> QED
    BY <1>2, <1>3, <1>4, SeqEqual

-----------------------------------------------------------------------------
(* The inductive invariant *)

Spending == [Spendable -> Nat]

Rest ==
    /\ store \in Stores /\ restore \in Restores
    /\ call \in Calls
    /\ keyring \in [token : OrNone, parked : Seq(Tokens)]
    /\ tombstone \in [server : BOOLEAN, legacy : BOOLEAN]
    /\ valid \subseteq Tokens /\ issued \subseteq Tokens /\ signedOut \subseteq Tokens
    /\ spent \in Spending

Held == {store.token, keyring.token}
InLine == Line(queue, issued, signedOut, Held)

\* Only issued tokens are held or were signed out of.
Known == Held \subseteq issued \cup {None} /\ signedOut \subseteq issued

\* A stored token that the user logged out of is marked.
Marked == keyring.token \in signedOut => LogoutPending

Secure(t) == keyring.token = t /\ ~LogoutPending

\* A token in memory is stored and unmarked, unless a sign-in replaces it.
Backed == store.token # None => Signing(queue) \/ Secure(store.token)

\* So is one that is being checked; and one that is read is unmarked.
Restoring ==
    /\ restore.step = "asking" => Secure(restore.token) /\ restore.token # None
    /\ restore.step = "reading" => ~LogoutPending

\* While somebody waits for an operation nothing is restored.
Engaged ==
    /\ Binding(queue) => store.loggingOut \/ store.state \notin {"idle", "error"}
    /\ Signing(queue) => store.state = "loading" /\ restore.step = "none"
    /\ Ending(queue) => restore.step = "none"

\* What a ready session called for is of that session, as long as it is current.
Calling ==
    call.current /\ call.ready =>
        store.state = "ready" /\ store.token = call.token /\ call.token # None

Loading == restore.step # "none" => store.state = "loading"

\* What touches the stored token runs under the tombstone, or before a sign-in.
Guarded == LogoutPending \/ Signing(queue) \/ Calm(queue)

IInv ==
    /\ Rest /\ InLine /\ Known /\ Marked /\ SignedOutStaysOut
    /\ Backed /\ Restoring /\ Engaged /\ Guarded /\ Calling /\ Loading

\* An app that has just started has called for nothing.
Screening ==
    /\ screens \in Screens
    /\ store.state = "idle" /\ store.token = None => call.token = None /\ screens.held = {}

LEMMA IInvTyped == IInv /\ Screening => TypeOK
  BY DEF IInv, Screening, Rest, InLine, Line, TypeOK, Spending

LEMMA IInvInit == Init => IInv
  <1> SUFFICES ASSUME Init PROVE IInv
    OBVIOUS
  <1>1. PICK t \in Stored : /\ keyring = [token |-> t, parked |-> <<>>]
                            /\ valid = {t} \ {None} /\ issued = {t} \ {None}
    BY DEF Init
  <1>2. t \in OrNone
    BY StoredAssumption DEF OrNone
  <1>3. <<>> \in Seq(Tokens) /\ <<>> \in Seq(Operations)
    OBVIOUS
  <1>4. /\ store = [token |-> None, state |-> "idle", loggingOut |-> FALSE]
        /\ restore = Idle /\ queue = <<>> /\ call = NoCall
        /\ tombstone \in [server : {FALSE}, legacy : BOOLEAN]
        /\ signedOut = IF tombstone.legacy THEN issued ELSE {}
        /\ spent = [what \in Spendable |-> 0]
    BY DEF Init
  <1>5. Rest
    BY <1>1, <1>2, <1>3, <1>4, NoneAssumption
       DEF Rest, Stores, Restores, Calls, Idle, NoCall, OrNone, Spending
  <1>6. DOMAIN queue = {}
    BY <1>4
  <1>7. InLine
    BY <1>3, <1>4, <1>6 DEF InLine, Line, AllSane, Orderly, Fresh
  <1>8. ~Binding(queue) /\ ~Signing(queue) /\ ~Ending(queue) /\ Calm(queue)
    BY <1>6 DEF Binding, Signing, Ending, Calm
  <1>9. Known /\ Marked
    BY <1>1, <1>4 DEF Known, Held, Marked, LogoutPending
  <1>10. SignedOutStaysOut /\ Backed
    BY <1>1, <1>4 DEF SignedOutStaysOut, Backed
  <1>11. Restoring /\ Engaged /\ Guarded /\ Calling /\ Loading
    BY <1>4, <1>8 DEF Restoring, Engaged, Guarded, Calling, Loading, Idle, NoCall
  <1> QED
    BY <1>5, <1>7, <1>9, <1>10, <1>11 DEF IInv

-----------------------------------------------------------------------------
(* The entry points *)

\* Operations that invalidate the queue put one operation behind it.
LEMMA InvalidateStep ==
    ASSUME IInv, NEW o \in Operations, Sane(o), o.current, o.kind # "retry",
           NEW known2, NEW held2, NEW out2, issued \subseteq known2,
           held2 \subseteq Held \cup {None}, out2 \subseteq signedOut \cup Held \cup {None},
           SignsIn(o) => o.token \in known2 /\ o.token \notin issued
                         /\ o.token \notin out2 /\ o.token \notin held2,
           queue' = Staled(queue) \o <<o>>
    PROVE  /\ Line(queue', known2, out2, held2)
           /\ Binding(queue')
           /\ Signing(queue') <=> SignsIn(o)
  <1>1. Line(Staled(queue), issued, signedOut, Held) /\ ~Binding(Staled(queue))
    BY StaledLine DEF IInv, InLine
  <1>2. None \notin issued
    BY NoneAssumption DEF IInv, Rest
  <1>3. Line(Staled(queue), known2, out2, held2)
    BY <1>1, <1>2, StillInLine
  <1>4. queue' = Append(Staled(queue), o)
    BY <1>1, ConcatOne DEF Line
  <1>5. SignsIn(o) => \A i \in DOMAIN Staled(queue) :
                          SignsIn(Staled(queue)[i]) => Staled(queue)[i].token # o.token
    BY <1>1 DEF Line, Fresh
  <1>6. /\ Line(queue', known2, out2, held2)
        /\ Binding(queue') <=> Binds(o)
        /\ Signing(queue') <=> Binds(o) /\ SignsIn(o)
    BY <1>1, <1>3, <1>4, <1>5, Added
  <1> QED
    BY <1>6 DEF Binds

LEMMA SetAuthKeeps ==
    ASSUME IInv, Rest', NEW t \in Tokens, t \notin issued, issued' = issued \cup {t},
           SetAuth(t)
    PROVE  IInv'
  <1> DEFINE o == Operation("signin", t)
  <1>1. /\ queue' = Staled(queue) \o <<o>> /\ restore' = Idle
        /\ store' = [store EXCEPT !.state = "loading"]
        /\ keyring' = keyring /\ tombstone' = tombstone /\ signedOut' = signedOut
        /\ call' = [call EXCEPT !.current = FALSE]
    BY DEF SetAuth, Invalidate, Staled
  <1>2. o \in Operations /\ Sane(o) /\ o.current /\ o.kind = "signin" /\ o.token = t
    BY OperationType DEF Kinds, OrNone
  <1>3. store'.token = store.token /\ store'.state = "loading"
    BY <1>1 DEF IInv, Rest, Stores
  <1>4. Held' = Held
    BY <1>1, <1>3 DEF Held
  <1>5. t \notin signedOut /\ t \notin Held
    BY NoneAssumption DEF IInv, Known
  <1> HIDE DEF o
  <1>6. /\ Line(queue', issued', signedOut, Held)
        /\ Binding(queue') /\ Signing(queue')
    <2>1. /\ o.kind # "retry" /\ issued \subseteq issued'
          /\ Held \subseteq Held \cup {None}
          /\ signedOut \subseteq signedOut \cup Held \cup {None}
      BY <1>2
    <2>2. SignsIn(o) /\ o.token \in issued' /\ o.token \notin issued
          /\ o.token \notin signedOut /\ o.token \notin Held
      BY <1>2, <1>5 DEF SignsIn
    <2>3. queue' = Staled(queue) \o <<o>>
      BY <1>1
    <2> QED
      BY <1>2, <2>1, <2>2, <2>3, InvalidateStep
  <1>7. InLine'
    BY <1>1, <1>4, <1>6 DEF InLine
  <1>8. Known' /\ Marked' /\ SignedOutStaysOut'
    BY <1>1, <1>3, <1>4
       DEF IInv, Known, Marked, SignedOutStaysOut, LogoutPending
  <1>9. Backed' /\ Guarded'
    BY <1>6 DEF Backed, Guarded
  <1>10. Restoring' /\ Engaged' /\ Loading'
    BY <1>1, <1>3 DEF Restoring, Engaged, Loading, Idle
  <1>11. Calling'
    BY <1>1 DEF IInv, Rest, Calling
  <1> QED
    BY <1>7, <1>8, <1>9, <1>10, <1>11 DEF IInv

\* A logout or an expired session: nothing is signed in, under the tombstone.
LEMMA EndKeeps ==
    ASSUME IInv, Rest', NEW k \in {"logout", "remove"}, NEW t \in OrNone, NEW b \in BOOLEAN,
           queue' = Staled(queue) \o <<Operation(k, t)>>, restore' = Idle,
           store' = SignedOutStore(b), b \/ k = "remove",
           tombstone' = [tombstone EXCEPT !.server = TRUE], keyring' = keyring,
           issued' = issued, signedOut \subseteq signedOut', ~call'.current,
           signedOut' \subseteq signedOut \cup (Held \ {None})
    PROVE  IInv'
  <1> DEFINE o == Operation(k, t)
  <1>1. o \in Operations /\ Sane(o) /\ o.current /\ o.kind = k
    BY OperationType DEF Kinds
  <1>2. store'.token = None /\ store'.state = "ready"
    BY DEF SignedOutStore
  <1>3. LogoutPending'
    BY DEF IInv, Rest, LogoutPending
  <1>4. Held' \subseteq Held \cup {None} /\ signedOut' \subseteq signedOut \cup Held \cup {None}
    BY <1>2 DEF Held
  <1> HIDE DEF o
  <1>5. /\ Line(queue', issued, signedOut', Held')
        /\ Binding(queue') /\ ~Signing(queue')
    <2>1. queue' = Staled(queue) \o <<o>> /\ ~SignsIn(o) /\ o.kind # "retry"
      BY <1>1 DEF SignsIn, o
    <2> QED
      BY <1>1, <1>4, <2>1, InvalidateStep
  <1>6. InLine'
    BY <1>5 DEF InLine
  <1>7. Known' /\ Marked'
    BY <1>2, <1>3 DEF IInv, Known, Held, Marked
  <1>8. SignedOutStaysOut'
    BY <1>2, NoneAssumption DEF SignedOutStaysOut, Rest
  <1>9. Backed' /\ Guarded'
    BY <1>2, <1>3 DEF Backed, Guarded
  <1>10. Restoring' /\ Engaged' /\ Loading' /\ Calling'
    BY <1>2, <1>5 DEF Restoring, Engaged, Loading, Calling, Idle
  <1> QED
    BY <1>6, <1>7, <1>8, <1>9, <1>10 DEF IInv

\* restoreSession starts: with a retry and, under a tombstone, a cleanup.
LEMMA RestoreSessionKeeps == ASSUME IInv, Rest', RestoreSession PROVE IInv'
  <1> DEFINE o == Operation("retry", None)
             c == Operation("cleanup", None)
             q == Append(queue, o)
  <1>1. /\ o \in Operations /\ Sane(o) /\ ~SignsIn(o) /\ ~Binds(o) /\ Harmless(o)
        /\ c \in Operations /\ Sane(c) /\ ~SignsIn(c) /\ ~Ends(c) /\ Binds(c)
    BY OperationType DEF Kinds, OrNone, SignsIn, Ends, Binds, Harmless
  <1>2. ~Binding(queue) /\ ~Signing(queue)
    BY DEF RestoreSession, IInv, Engaged, Binding, Signing
  <1>3. /\ store.state \in {"idle", "error"}
        /\ store' = [store EXCEPT !.state = "loading"]
        /\ queue' = q \o IF LogoutPending THEN <<c>> ELSE <<>>
        /\ keyring' = keyring /\ tombstone' = tombstone /\ issued' = issued
        /\ signedOut' = signedOut /\ call' = call
        /\ restore' = IF LogoutPending THEN [step |-> "cleaning", token |-> None]
                      ELSE IF store.token # None
                           THEN [step |-> "asking", token |-> store.token]
                           ELSE [step |-> "reading", token |-> None]
    BY DEF RestoreSession, server
  <1>4. store'.token = store.token /\ store'.state = "loading"
    BY <1>3 DEF IInv, Rest, Stores
  <1> HIDE DEF o, c
  <1>5. /\ Line(q, issued, signedOut, Held) /\ ~Binding(q) /\ ~Signing(q) /\ ~Ending(q)
        /\ Calm(queue) => Calm(q)
    BY <1>1, <1>2, Added DEF IInv, InLine
  <1> HIDE DEF q
  <1>6. /\ Line(queue', issued, signedOut, Held) /\ ~Signing(queue') /\ ~Ending(queue')
        /\ ~LogoutPending /\ Calm(queue) => Calm(queue')
    <2>1. CASE LogoutPending
      <3>1. queue' = Append(q, c)
        BY <1>1, <1>3, <1>5, <2>1, ConcatOne DEF Line
      <3> QED
        BY <1>1, <1>5, <2>1, <3>1, Added
    <2>2. CASE ~LogoutPending
      <3>1. queue' = q
        BY <1>3, <1>5, <2>2, ConcatEmptySeq DEF Line
      <3> QED
        BY <1>5, <3>1
    <2> QED
      BY <2>1, <2>2
  <1>7. Held' = Held /\ (LogoutPending' <=> LogoutPending)
    BY <1>3, <1>4 DEF Held, LogoutPending
  <1>8. InLine'
    BY <1>3, <1>6, <1>7 DEF InLine
  <1>9. Known' /\ Marked' /\ SignedOutStaysOut'
    BY <1>3, <1>4, <1>7 DEF IInv, Known, Marked, SignedOutStaysOut
  <1>10. store.token # None => Secure(store.token)
    BY <1>2 DEF IInv, Backed
  <1>11. Backed'
    BY <1>3, <1>4, <1>7, <1>10 DEF Backed, Secure
  <1>12. Restoring'
    BY <1>3, <1>7, <1>10 DEF Restoring, Secure
  <1>13. Engaged'
    BY <1>4, <1>6 DEF Engaged
  <1>14. Guarded'
    BY <1>2, <1>6, <1>7 DEF IInv, Guarded
  <1>15. Calling' /\ Loading'
    BY <1>3, <1>4 DEF IInv, Calling, Loading
  <1> QED
    BY <1>8, <1>9, <1>11, <1>12, <1>13, <1>14, <1>15 DEF IInv

\* While a session is restored nobody waits for an operation.
LEMMA RestoringAlone ==
    ASSUME IInv, restore.step \in {"asking", "reading"}
    PROVE  ~LogoutPending /\ ~Signing(queue) /\ ~Binding(queue)
  <1>1. ~LogoutPending
    BY DEF IInv, Restoring, Secure
  <1>2. ~Signing(queue)
    BY DEF IInv, Engaged
  <1>3. Calm(queue)
    BY <1>1, <1>2 DEF IInv, Guarded
  <1> QED
    BY <1>1, <1>2, <1>3 DEF Calm, Binding, Binds, Harmless

\* The answers of a restore leave the queue alone, but for a refused token.
LEMMA RestoreStepKeeps == ASSUME IInv, Rest', RestoreStep PROVE IInv'
  <1>1. CASE RestoreAnswered /\ restore.token \notin valid
    <2>1. /\ queue' = Staled(queue) \o <<Operation("remove", None)>> /\ restore' = Idle
          /\ store' = SignedOutStore(FALSE)
          /\ tombstone' = [tombstone EXCEPT !.server = TRUE] /\ keyring' = keyring
          /\ issued' = issued /\ signedOut' = signedOut
          /\ call' = [call EXCEPT !.current = FALSE]
      BY <1>1 DEF RestoreAnswered, ClearSession, Invalidate, Staled, server
    <2>2. None \in OrNone /\ ~call'.current
      BY <2>1 DEF OrNone, IInv, Rest
    <2> QED
      BY <2>1, <2>2, EndKeeps
  <1>2. CASE ~(RestoreAnswered /\ restore.token \notin valid)
    <2>1. /\ restore.step \in {"asking", "reading"}
          /\ queue' = queue /\ keyring' = keyring /\ tombstone' = tombstone
          /\ issued' = issued /\ signedOut' = signedOut /\ call' = call
          /\ \/ restore' = Idle /\ store' = [store EXCEPT !.token = None, !.state = "ready"]
             \/ /\ restore.step = "reading" /\ keyring.token # None
                /\ restore' = [step |-> "asking", token |-> keyring.token]
                /\ store' = store
             \/ /\ restore.step = "asking" /\ restore' = Idle
                /\ store' = [store EXCEPT !.token = restore.token, !.state = "ready"]
             \/ restore' = Idle /\ store' = [store EXCEPT !.state = "error"]
      BY <1>2 DEF RestoreStep, RestoreReads, RestoreAnswered, RestoreFails, server
    <2>2. ~LogoutPending /\ ~Signing(queue) /\ ~Binding(queue)
      BY <2>1, RestoringAlone
    <2>3. ~LogoutPending' /\ ~Signing(queue') /\ ~Binding(queue') /\ Calm(queue')
      BY <2>1, <2>2 DEF IInv, Guarded, LogoutPending
    <2>4. store'.token \in {None, store.token, keyring.token}
      BY <2>1 DEF IInv, Rest, Stores, Restoring, Secure
    <2>5. Held' \subseteq Held \cup {None} /\ None \notin issued
      BY <2>1, <2>4, NoneAssumption DEF Held, IInv, Rest
    <2>6. InLine'
      <3>1. Line(queue, issued, signedOut, Held')
        BY <2>5, StillInLine DEF IInv, InLine
      <3> QED
        BY <2>1, <3>1 DEF InLine
    <2>7. Known' /\ Marked'
      BY <2>1, <2>2, <2>5 DEF IInv, Known, Marked, LogoutPending
    <2>8. keyring.token \notin signedOut /\ None \notin signedOut
      BY <2>2, NoneAssumption DEF IInv, Marked, Rest
    <2>9. SignedOutStaysOut'
      BY <2>1, <2>4, <2>8 DEF IInv, SignedOutStaysOut
    <2>10. store'.token # None => keyring.token = store'.token
      BY <2>1, <2>2 DEF IInv, Rest, Stores, Restoring, Secure, Backed
    <2>11. Backed' /\ Guarded' /\ Engaged'
      BY <2>1, <2>3, <2>10 DEF Backed, Guarded, Engaged, Secure, Binding, Ending
    <2>12. Restoring'
      BY <2>1, <2>3 DEF Restoring, Secure, Idle
    <2>13. Calling' /\ Loading'
      BY <2>1 DEF IInv, Calling, Loading, Idle
    <2> QED
      BY <2>6, <2>7, <2>9, <2>11, <2>12, <2>13 DEF IInv
  <1> QED
    BY <1>1, <1>2

-----------------------------------------------------------------------------
(* The running operation *)

LEMMA HeadFacts ==
    ASSUME IInv, queue # <<>>
    PROVE  /\ op = queue[1] /\ 1 \in DOMAIN queue /\ op \in Operations /\ Sane(op)
           /\ SignsIn(op) => /\ op.token \in issued /\ op.token \notin signedOut
                             /\ op.token \notin Held
           /\ ~Harmless(op) => LogoutPending \/ Signing(queue)
           /\ ~Harmless(op) => restore.step \notin {"asking", "reading"}
           /\ Binds(op) => /\ ~Harmless(op) /\ Binding(queue)
                           /\ Signing(queue) <=> SignsIn(op)
                           /\ Ending(queue) <=> Ends(op)
  <1>1. /\ queue \in Seq(Operations) /\ DOMAIN queue = 1..Len(queue) /\ 1 \in DOMAIN queue
        /\ op = queue[1]
    BY EmptySeq, LenProperties DEF IInv, InLine, Line, op
  <1>2. op \in Operations /\ Sane(op)
    BY <1>1, ElementOfSeq DEF IInv, InLine, Line, AllSane
  <1>3. SignsIn(op) => /\ op.token \in issued /\ op.token \notin signedOut
                       /\ op.token \notin Held
    BY <1>1 DEF IInv, InLine, Line, Fresh
  <1>4. ~Harmless(op) => ~Calm(queue)
    BY <1>1 DEF Calm
  <1>5. ~Harmless(op) => LogoutPending \/ Signing(queue)
    BY <1>4 DEF IInv, Guarded
  <1>6. ~Harmless(op) => restore.step \notin {"asking", "reading"}
    BY <1>5, RestoringAlone
  <1>7. Binds(op) => /\ ~Harmless(op) /\ Binding(queue)
                     /\ Signing(queue) <=> SignsIn(op)
                     /\ Ending(queue) <=> Ends(op)
    <2> SUFFICES ASSUME Binds(op) PROVE /\ ~Harmless(op) /\ Binding(queue)
                                        /\ Signing(queue) <=> SignsIn(op)
                                        /\ Ending(queue) <=> Ends(op)
      OBVIOUS
    <2>1. Len(queue) = 1
      BY <1>1 DEF IInv, InLine, Line, Orderly
    <2>2. DOMAIN queue = {1}
      BY <1>1, <2>1
    <2> QED
      BY <1>1, <2>2 DEF Binding, Signing, Ending, Binds, Harmless
  <1> QED
    BY <1>1, <1>2, <1>3, <1>5, <1>6, <1>7

\* It goes on to another step.
LEMMA GoOnKeeps ==
    ASSUME IInv, Rest', queue # <<>>, NEW o \in Operations, Sane(o), o.kind = op.kind,
           o.token = op.token, o.current = op.current, queue' = [queue EXCEPT ![1] = o],
           store' = store, restore' = restore, signedOut' = signedOut, issued' = issued,
           call' = call,
           op.kind = "signin" /\ op.step = "start" => op.current,
           \/ keyring'.token = keyring.token /\ tombstone' = tombstone
           \/ /\ op.kind = "signin" /\ LogoutPending'
              /\ keyring'.token \in {None, keyring.token}
    PROVE  IInv'
  <1>1. op = queue[1]
    BY HeadFacts
  <1>2. /\ Line(queue', issued, signedOut, Held)
        /\ Binding(queue') <=> Binding(queue)
        /\ Signing(queue') <=> Signing(queue)
        /\ Ending(queue') <=> Ending(queue)
        /\ Calm(queue) /\ op.kind = "retry" => Calm(queue')
    <2>1. Line(queue, issued, signedOut, Held)
      BY DEF IInv, InLine
    <2>2. /\ queue # <<>> /\ o \in Operations /\ Sane(o)
          /\ o.kind = queue[1].kind /\ o.token = queue[1].token
          /\ o.current = queue[1].current
      BY <1>1
    <2>3. Succeeds(queue', queue, o)
      BY DEF Succeeds
    <2> QED
      BY ONLY <1>1, <2>1, <2>2, <2>3, Replaced
  <1>3. Held' \subseteq Held \cup {None} /\ None \notin issued /\ None \notin signedOut
    BY NoneAssumption DEF Held, IInv, Rest
  <1>4. InLine'
    <2>1. Line(queue', issued, signedOut, Held')
      BY <1>2, <1>3, StillInLine
    <2> QED
      BY <2>1 DEF InLine
  <1>5. Known' /\ SignedOutStaysOut'
    BY <1>3 DEF IInv, Known, SignedOutStaysOut
  <1>6. Engaged' /\ Calling' /\ Loading'
    BY <1>2 DEF IInv, Engaged, Calling, Loading
  <1>7. CASE op.kind # "signin"
    <2>1. keyring'.token = keyring.token /\ tombstone' = tombstone
      BY <1>7
    <2>2. Marked' /\ Restoring'
      BY <2>1 DEF IInv, Marked, Restoring, Secure, LogoutPending
    <2>3. Backed'
      BY <1>2, <2>1 DEF IInv, Backed, Secure, LogoutPending
    <2>4. Harmless(op) => op.kind = "retry"
      BY <1>7 DEF Harmless
    <2>5. Guarded'
      BY <1>2, <2>1, <2>4, HeadFacts DEF IInv, Guarded, LogoutPending
    <2> QED
      BY <1>4, <1>5, <1>6, <2>2, <2>3, <2>5 DEF IInv
  <1>8. CASE op.kind = "signin"
    <2>1. ~Harmless(op)
      BY <1>8 DEF Harmless
    <2>2. (LogoutPending => LogoutPending') /\ keyring'.token \in {None, keyring.token}
      BY DEF LogoutPending
    <2>3. (LogoutPending \/ Signing(queue)) /\ restore.step \notin {"asking", "reading"}
      BY <2>1, HeadFacts
    <2>4. Restoring' /\ Guarded' /\ Marked'
      BY <1>2, <1>3, <2>2, <2>3 DEF IInv, Restoring, Guarded, Marked
    <2>5. Backed'
      BY <1>2, <2>3 DEF IInv, Backed, Secure
    <2> QED
      BY <1>4, <1>5, <1>6, <2>4, <2>5 DEF IInv
  <1> QED
    BY <1>7, <1>8

\* It ends and nobody waits for it.
LEMMA StaleEndKeeps ==
    ASSUME IInv, Rest', queue # <<>>, queue' = Tail(queue), ~Binds(op),
           store' = store, restore' = restore, signedOut' = signedOut, issued' = issued,
           call' = call, tombstone' = tombstone,
           \/ keyring'.token = keyring.token
           \/ ~Harmless(op) /\ keyring'.token = None
           \/ ~Harmless(op) /\ SignsIn(op) /\ keyring'.token = op.token
    PROVE  IInv'
  <1>1. op = queue[1]
    BY HeadFacts
  <1>2. /\ Line(queue', issued, signedOut, Held)
        /\ SignsIn(op) => Line(queue', issued, signedOut, Held \cup {op.token})
        /\ Calm(queue) => Calm(queue')
        /\ Binding(queue') <=> Binding(queue)
        /\ Signing(queue') <=> Signing(queue)
        /\ Ending(queue') <=> Ending(queue)
    BY <1>1, Dropped DEF IInv, InLine
  <1>3. None \notin issued /\ None \notin signedOut
    BY NoneAssumption DEF IInv, Rest
  <1>4. InLine'
    <2>1. CASE SignsIn(op) /\ keyring'.token = op.token
      <3>1. Held' \subseteq Held \cup {op.token}
        BY <2>1 DEF Held
      <3>2. Line(queue', issued, signedOut, Held')
        BY <1>2, <1>3, <2>1, <3>1, StillInLine
      <3> QED
        BY <3>2 DEF InLine
    <2>2. CASE ~(SignsIn(op) /\ keyring'.token = op.token)
      <3>1. Held' \subseteq Held \cup {None}
        BY <2>2 DEF Held
      <3>2. Line(queue', issued, signedOut, Held')
        BY <1>2, <1>3, <3>1, StillInLine
      <3> QED
        BY <3>2 DEF InLine
    <2> QED
      BY <2>1, <2>2
  <1>5. /\ keyring'.token = keyring.token \/ keyring'.token \notin signedOut
        /\ keyring'.token \in issued \cup {None}
    BY <1>3, HeadFacts DEF IInv, Known, Held
  <1>6. Known' /\ Marked' /\ SignedOutStaysOut'
    BY <1>5 DEF IInv, Known, Held, Marked, SignedOutStaysOut, LogoutPending
  <1>7. Engaged' /\ Guarded' /\ Calling' /\ Loading'
    BY <1>2 DEF IInv, Engaged, Guarded, LogoutPending, Calling, Loading
  <1>8. CASE Harmless(op)
    <2>1. Backed' /\ Restoring'
      BY <1>2, <1>8 DEF IInv, Backed, Restoring, Secure, LogoutPending
    <2> QED
      BY <1>4, <1>6, <1>7, <2>1 DEF IInv
  <1>9. CASE ~Harmless(op)
    <2>1. (LogoutPending \/ Signing(queue)) /\ restore.step \notin {"asking", "reading"}
      BY <1>9, HeadFacts
    <2>2. Backed' /\ Restoring'
      BY <1>2, <2>1 DEF IInv, Backed, Restoring, Secure
    <2> QED
      BY <1>4, <1>6, <1>7, <2>2 DEF IInv
  <1> QED
    BY <1>8, <1>9

\* It ends and its caller goes on without a session.
LEMMA BoundEndKeeps ==
    ASSUME IInv, Rest', queue # <<>>, queue' = Tail(queue), Binds(op),
           store'.token = None \/ (~SignsIn(op) /\ store'.token = store.token),
           restore' = IF op.kind = "cleanup" THEN Idle ELSE restore,
           signedOut' = signedOut, issued' = issued, call' = call,
           \/ keyring'.token = keyring.token /\ tombstone' = tombstone
           \/ keyring'.token = None
    PROVE  IInv'
  <1>1. op = queue[1]
    BY HeadFacts
  <1>2. /\ Line(queue', issued, signedOut, Held)
        /\ ~Binding(queue') /\ ~Signing(queue') /\ ~Ending(queue') /\ Calm(queue')
    BY <1>1, Dropped DEF IInv, InLine
  <1>3. /\ LogoutPending \/ SignsIn(op)
        /\ restore.step \notin {"asking", "reading"}
        /\ Signing(queue) <=> SignsIn(op)
        /\ Ending(queue) <=> Ends(op)
        /\ op.kind \in Kinds /\ op.kind # "retry"
    BY HeadFacts DEF Binds, Operations
  <1>4. store'.token = None
    BY <1>3 DEF IInv, Backed, Secure
  <1>5. None \notin issued /\ None \notin signedOut
    BY NoneAssumption DEF IInv, Rest
  <1>6. Held' \subseteq Held \cup {None}
    BY <1>4 DEF Held
  <1>7. InLine'
    <2>1. Line(queue', issued, signedOut, Held')
      BY <1>2, <1>5, <1>6, StillInLine
    <2> QED
      BY <2>1 DEF InLine
  <1>8. Known' /\ Marked' /\ SignedOutStaysOut'
    BY <1>4, <1>5, <1>6 DEF IInv, Known, Marked, SignedOutStaysOut, LogoutPending
  <1>9. Backed' /\ Engaged' /\ Guarded'
    BY <1>2, <1>4 DEF Backed, Engaged, Guarded
  <1>10. restore'.step = "none"
    BY <1>3 DEF IInv, Engaged, Kinds, SignsIn, Ends, Idle
  <1>11. Restoring' /\ Loading'
    BY <1>10 DEF Restoring, Loading
  <1>12. Calling'
    BY <1>3 DEF IInv, Engaged, Backed, Secure, Calling
  <1> QED
    BY <1>7, <1>8, <1>9, <1>11, <1>12 DEF IInv

\* A sign-in that is still wanted has written its token.
LEMMA SignedInKeeps ==
    ASSUME IInv, Rest', queue # <<>>, queue' = Tail(queue), Binds(op), SignsIn(op),
           store'.token = op.token, keyring'.token = op.token, restore' = restore,
           ~LogoutPending', signedOut' = signedOut, issued' = issued, call' = call
    PROVE  IInv'
  <1>1. op = queue[1]
    BY HeadFacts
  <1>2. /\ Line(queue', issued, signedOut, Held \cup {op.token})
        /\ ~Binding(queue') /\ ~Signing(queue') /\ ~Ending(queue') /\ Calm(queue')
    BY <1>1, Dropped DEF IInv, InLine
  <1>3. /\ op.token \in issued /\ op.token \notin signedOut
        /\ Signing(queue)
    BY HeadFacts
  <1>4. None \notin issued /\ Held' \subseteq Held \cup {op.token}
    BY NoneAssumption DEF IInv, Rest, Held
  <1>5. InLine'
    <2>1. Line(queue', issued, signedOut, Held')
      BY <1>2, <1>4, StillInLine
    <2> QED
      BY <2>1 DEF InLine
  <1>6. Known' /\ Marked' /\ SignedOutStaysOut'
    BY <1>3 DEF IInv, Known, Held, Marked, SignedOutStaysOut
  <1>7. Backed' /\ Engaged' /\ Guarded'
    BY <1>2 DEF Backed, Secure, Engaged, Guarded
  <1>8. Restoring' /\ Calling' /\ Loading'
    BY <1>3 DEF IInv, Engaged, Restoring, Calling, Loading
  <1> QED
    BY <1>5, <1>6, <1>7, <1>8 DEF IInv

-----------------------------------------------------------------------------
(* Type correctness of the steps *)

LEMMA SpendType == ASSUME Rest, NEW what \in Spendable, Spend(what) PROVE spent' \in Spending
  <1>1. spent \in [Spendable -> Nat]
    BY DEF Rest, Spending
  <1>2. spent[what] + 1 \in Nat
    BY <1>1
  <1> QED
    BY <1>1, <1>2 DEF Spend, Spending

LEMMA ParkType ==
    ASSUME NEW q \in Seq(Tokens), NEW t \in Tokens
    PROVE  Park(q, t) \in Seq(Tokens)
  <1> DEFINE all == IF t \in Elements(q) THEN q ELSE Append(q, t)
  <1>1. all \in Seq(Tokens)
    OBVIOUS
  <1>2. CASE Len(all) > MaxPending
    <2>1. all # <<>>
      BY <1>1, <1>2, EmptySeq, MaxPendingAssumption
    <2>2. Tail(all) \in Seq(Tokens)
      BY <1>1, <2>1, HeadTailProperties
    <2> QED
      BY <1>2, <2>2 DEF Park
  <1>3. CASE ~(Len(all) > MaxPending)
    BY <1>1, <1>3 DEF Park
  <1> QED
    BY <1>2, <1>3

\* The end of an operation leaves a store and a restore.
LEMMA EndTypes ==
    ASSUME IInv, queue # <<>>, Finish \/ (Abort /\ UNCHANGED tombstone)
    PROVE  /\ store' \in Stores /\ restore' \in Restores
           /\ tombstone' \in [server : BOOLEAN, legacy : BOOLEAN]
  <1>1. op \in Operations
    BY HeadFacts
  <1>2. op.token \in OrNone /\ op.kind \in Kinds
    BY <1>1 DEF Operations
  <1>3. store \in Stores /\ restore \in Restores
        /\ tombstone \in [server : BOOLEAN, legacy : BOOLEAN]
    BY DEF IInv, Rest
  <1>4. Idle \in Restores
    BY DEF Idle, Restores, OrNone
  <1>5. restore' \in Restores
    BY <1>3, <1>4 DEF Finish, Abort
  <1>6. tombstone' \in [server : BOOLEAN, legacy : BOOLEAN]
    <2>1. Cleared \in [server : BOOLEAN, legacy : BOOLEAN]
      BY DEF Cleared
    <2>2. tombstone' = Cleared \/ tombstone' = tombstone
      BY DEF Finish
    <2> QED
      BY <1>3, <2>1, <2>2
  <1>7. store' \in Stores
    <2>1. CASE Finish
      BY <1>2, <1>3, <2>1 DEF Finish, Stores, OrNone, Kinds
    <2>2. CASE Abort
      BY <1>2, <1>3, <2>2 DEF Abort, Stores, OrNone, Kinds
    <2> QED
      BY <2>1, <2>2
  <1> QED
    BY <1>5, <1>6, <1>7

\* Of what the queue's steps do to the rest, only the ends are more than an
\* assignment.
\* A step of the queue is one of the operation that runs: it ends, throws or goes on.
LEMMA QueueEnds ==
    ASSUME IInv, QueueStep
    PROVE  /\ queue # <<>> /\ op \in Operations /\ Sane(op)
           /\ call' = call /\ issued' = issued /\ signedOut' = signedOut /\ valid' \subseteq valid
           /\ \/ Finish \/ (Abort /\ UNCHANGED tombstone)
              \/ /\ store' = store /\ restore' = restore
                 /\ tombstone' \in {tombstone, [tombstone EXCEPT !.server = TRUE]}
  <1>1. Rest
    BY DEF IInv
  <1>2. queue # <<>>
    BY DEF QueueStep, Start, ReadToken, Revoke, RevokeFails, ReadParked, ParkToken,
           SaveParked, RemoveToken, WriteToken, KeyringLocked, RetryRevoke, Runs
  <1>3. op \in Operations /\ Sane(op)
    BY <1>2, HeadFacts
  <1>5. call' = call /\ issued' = issued /\ signedOut' = signedOut /\ valid' \subseteq valid
    BY DEF QueueStep, Start, ReadToken, Revoke, RevokeFails, ReadParked, ParkToken,
           SaveParked, RemoveToken, WriteToken, KeyringLocked, RetryRevoke, server
  <1>7. \/ Finish \/ (Abort /\ UNCHANGED tombstone)
        \/ /\ store' = store /\ restore' = restore
           /\ tombstone' \in {tombstone, [tombstone EXCEPT !.server = TRUE]}
    <2>1. CASE Start
      <3>1. op.kind \in Kinds
        BY <1>3 DEF Operations
      <3>2. CASE op.kind = "signin"
        BY <2>1, <3>2 DEF Start, StartWrite
      <3>3. CASE op.kind # "signin"
        BY <2>1, <3>1, <3>3 DEF Start, Kinds
      <3> QED
        BY <3>2, <3>3
    <2>2. CASE RemoveToken
      BY <2>2 DEF RemoveToken, StartWrite
    <2>3. CASE WriteToken \/ KeyringLocked
      BY <2>3 DEF WriteToken, KeyringLocked
    <2>4. CASE ~(Start \/ RemoveToken \/ WriteToken \/ KeyringLocked)
      BY <2>4 DEF QueueStep, ReadToken, Revoke, RevokeFails, ReadParked, ParkToken,
                  SaveParked, RetryRevoke
    <2> QED
      BY <2>1, <2>2, <2>3, <2>4
  <1> QED
    BY <1>2, <1>3, <1>5, <1>7

LEMMA QueueStepTypes == ASSUME IInv, QueueStep PROVE Rest'
  <1>1. Rest
    BY DEF IInv
  <1>2. /\ queue # <<>> /\ op \in Operations /\ Sane(op)
        /\ call' = call /\ issued' = issued /\ signedOut' = signedOut /\ valid' \subseteq valid
        /\ \/ Finish \/ (Abort /\ UNCHANGED tombstone)
           \/ /\ store' = store /\ restore' = restore
              /\ tombstone' \in {tombstone, [tombstone EXCEPT !.server = TRUE]}
    BY QueueEnds
  <1>3. op \in Operations /\ Sane(op)
    BY <1>2
  <1>4. /\ op.token \in OrNone /\ op.victim \in OrNone
        /\ op.list \in Seq(Tokens) /\ op.left \in Seq(Tokens)
    BY <1>3 DEF Operations
  <1>6. spent' \in Spending
    <2>1. \/ spent' = spent \/ Spend("refused") \/ Spend("locked")
      BY DEF QueueStep, Start, ReadToken, Revoke, RevokeFails, ReadParked, ParkToken,
             SaveParked, RemoveToken, WriteToken, KeyringLocked, RetryRevoke
    <2> QED
      BY <1>1, <2>1, SpendType DEF Rest, Spendable
  <1>7. keyring' \in [token : OrNone, parked : Seq(Tokens)]
    <2>1. CASE ParkToken
      <3>1. op.victim \in Tokens
        BY <1>3, <1>4, <2>1 DEF ParkToken, Runs, Sane, OrNone
      <3>2. Park(op.list, op.victim) \in Seq(Tokens)
        BY <1>4, <3>1, ParkType
      <3> QED
        BY <1>1, <2>1, <3>2 DEF ParkToken, Rest
    <2>2. CASE ~ParkToken
      <3>1. \/ keyring' = keyring
            \/ keyring' = [keyring EXCEPT !.parked = op.left]
            \/ keyring' = [keyring EXCEPT !.token = None]
            \/ keyring' = [keyring EXCEPT !.token = op.token]
        BY <2>2 DEF QueueStep, Start, ReadToken, Revoke, RevokeFails, ReadParked,
                    SaveParked, RemoveToken, WriteToken, KeyringLocked, RetryRevoke
      <3> QED
        BY <1>1, <1>4, <3>1 DEF Rest, OrNone
    <2> QED
      BY <2>1, <2>2
  <1>8. /\ store' \in Stores /\ restore' \in Restores
        /\ tombstone' \in [server : BOOLEAN, legacy : BOOLEAN]
    BY <1>1, <1>2, EndTypes DEF Rest
  <1> QED
    BY <1>1, <1>2, <1>6, <1>7, <1>8 DEF Rest

LEMMA OtherStepTypes ==
    ASSUME IInv, \/ \E t \in Tokens : SignIn(t) \/ SetPassword(t) \/ ServerRevokes(t)
                 \/ LogOut \/ RestoreSession \/ RestoreStep \/ Answer \/ Crash
                 \/ \E t \in Tokens : Request(t)
    PROVE  Rest'
  <1>1. Rest
    BY DEF IInv
  <1>2. Idle \in Restores /\ NoCall \in Calls
    BY DEF Idle, Restores, NoCall, Calls, OrNone
  <1>3. \A b \in BOOLEAN : SignedOutStore(b) \in Stores
    BY DEF SignedOutStore, Stores, OrNone
  <1>4. /\ [call EXCEPT !.current = FALSE] \in Calls
        /\ [tombstone EXCEPT !.server = TRUE] \in [server : BOOLEAN, legacy : BOOLEAN]
    BY <1>1 DEF Rest, Calls
  <1>5. /\ store.token \in OrNone /\ keyring.token \in OrNone /\ restore.token \in OrNone
        /\ \A x \in {"idle", "loading", "ready", "error"} :
              [store EXCEPT !.state = x] \in Stores
        /\ \A t \in OrNone : [store EXCEPT !.token = t, !.state = "ready"] \in Stores
    BY <1>1 DEF Rest, Stores, Restores
  <1>6. ASSUME NEW t \in Tokens, SignIn(t) \/ SetPassword(t) PROVE Rest'
    <2>1. /\ issued' = issued \cup {t} /\ valid' \subseteq valid \cup {t}
          /\ restore' = Idle /\ call' = [call EXCEPT !.current = FALSE]
          /\ store' = [store EXCEPT !.state = "loading"]
          /\ keyring' = keyring /\ tombstone' = tombstone /\ signedOut' = signedOut
          /\ Spend("signin")
      BY <1>6 DEF SignIn, SetPassword, SetAuth, Invalidate
    <2>2. spent' \in Spending
      BY <1>1, <2>1, SpendType DEF Spendable
    <2> QED
      BY <1>1, <1>2, <1>4, <1>5, <2>1, <2>2 DEF Rest
  <1>7. ASSUME NEW t \in Tokens, ServerRevokes(t) PROVE Rest'
    <2>1. spent' \in Spending
      BY <1>1, <1>7, SpendType DEF ServerRevokes, Spendable
    <2> QED
      BY <1>1, <1>7, <2>1 DEF ServerRevokes, Rest
  <1>8. CASE LogOut
    <2>1. spent' \in Spending
      BY <1>1, <1>8, SpendType DEF LogOut, Spendable
    <2>2. Ended \subseteq Tokens
      BY <1>5 DEF Ended, OrNone
    <2> QED
      BY <1>1, <1>2, <1>3, <1>4, <1>8, <2>1, <2>2 DEF LogOut, Invalidate, server, Rest
  <1>9. CASE RestoreSession
    <2>1. /\ [step |-> "cleaning", token |-> None] \in Restores
          /\ [step |-> "asking", token |-> store.token] \in Restores
          /\ [step |-> "reading", token |-> None] \in Restores
      BY <1>5 DEF Restores, OrNone
    <2> QED
      BY <1>1, <1>5, <1>9, <2>1 DEF RestoreSession, server, Rest
  <1>10. CASE RestoreStep
    <2>1. [step |-> "asking", token |-> keyring.token] \in Restores
      BY <1>5 DEF Restores
    <2>2. [store EXCEPT !.token = None, !.state = "ready"] \in Stores
      BY <1>5 DEF OrNone
    <2>3. CASE RestoreReads
      BY <1>1, <1>2, <2>1, <2>2, <2>3 DEF RestoreReads, server, Rest
    <2>4. CASE RestoreAnswered
      <3>1. /\ store' \in {[store EXCEPT !.token = restore.token, !.state = "ready"],
                            SignedOutStore(FALSE)}
            /\ restore' = Idle /\ call' \in {call, [call EXCEPT !.current = FALSE]}
            /\ tombstone' \in {tombstone, [tombstone EXCEPT !.server = TRUE]}
            /\ UNCHANGED <<keyring, valid, issued, signedOut, spent>>
        BY <2>4 DEF RestoreAnswered, ClearSession, Invalidate, server
      <3>2. store' \in Stores
        BY <1>3, <1>5, <3>1
      <3> QED
        BY <1>1, <1>2, <1>4, <3>1, <3>2 DEF Rest
    <2>5. CASE RestoreFails
      <3>1. spent' \in Spending
        BY <1>1, <2>5, SpendType DEF RestoreFails, Spendable
      <3> QED
        BY <1>1, <1>2, <1>5, <2>5, <3>1 DEF RestoreFails, server, Rest
    <2> QED
      BY <1>10, <2>3, <2>4, <2>5 DEF RestoreStep
  <1>11. ASSUME NEW t \in Tokens, Request(t) PROVE Rest'
    <2>1. spent' \in Spending
      BY <1>1, <1>11, SpendType DEF Request, Spendable
    <2>2. [token |-> t, current |-> TRUE, ready |-> store.state = "ready" /\ t = store.token]
             \in Calls
      BY DEF Calls, OrNone
    <2> QED
      BY <1>1, <1>11, <2>1, <2>2 DEF Request, server, Rest
  <1>12. CASE Answer
    BY <1>1, <1>2, <1>3, <1>4, <1>12 DEF Answer, server, Rest
  <1>13. CASE Crash
    <2>1. spent' \in Spending
      BY <1>1, <1>13, SpendType DEF Crash, Spendable
    <2>2. [token |-> None, state |-> "idle", loggingOut |-> FALSE] \in Stores
      BY DEF Stores, OrNone
    <2> QED
      BY <1>1, <1>2, <1>13, <2>1, <2>2 DEF Crash, server, Rest
  <1> QED
    BY <1>6, <1>7, <1>8, <1>9, <1>10, <1>11, <1>12, <1>13

-----------------------------------------------------------------------------
(* The steps of the queue *)

\* An operation that is only at another step, with another victim or lists.
At(x, v, l, f) == [op EXCEPT !.step = x, !.victim = v, !.list = l, !.left = f]

\* The running operation goes on so.
Moves(x, v, l, f) == queue' = [queue EXCEPT ![1] = At(x, v, l, f)]

LEMMA AtFacts ==
    ASSUME op \in Operations, NEW x \in Steps, NEW v \in OrNone,
           NEW l \in Seq(Tokens), NEW f \in Seq(Tokens)
    PROVE  /\ At(x, v, l, f) \in Operations
           /\ At(x, v, l, f).kind = op.kind /\ At(x, v, l, f).token = op.token
           /\ At(x, v, l, f).current = op.current
           /\ At(x, v, l, f).step = x /\ At(x, v, l, f).victim = v
           /\ At(x, v, l, f).list = l
           /\ op.victim \in OrNone /\ op.list \in Seq(Tokens) /\ op.left \in Seq(Tokens)
           /\ op.step \in Steps /\ op.kind \in Kinds /\ op.token \in OrNone
  BY DEF At, Operations

\* A step of the running operation that leaves the rest alone.
LEMMA StepKeeps ==
    ASSUME IInv, Rest', queue # <<>>, NEW x \in Steps, NEW v \in OrNone,
           NEW l \in Seq(Tokens), NEW f \in Seq(Tokens),
           Sane(At(x, v, l, f)), Moves(x, v, l, f),
           op.kind = "signin" /\ op.step = "start" => op.current,
           store' = store, restore' = restore, signedOut' = signedOut, issued' = issued,
           call' = call,
           \/ keyring'.token = keyring.token /\ tombstone' = tombstone
           \/ /\ op.kind = "signin" /\ LogoutPending'
              /\ keyring'.token \in {None, keyring.token}
    PROVE  IInv'
  <1>1. op \in Operations
    BY HeadFacts
  <1>2. /\ At(x, v, l, f) \in Operations
        /\ At(x, v, l, f).kind = op.kind /\ At(x, v, l, f).token = op.token
        /\ At(x, v, l, f).current = op.current
    BY <1>1, AtFacts
  <1>3. queue' = [queue EXCEPT ![1] = At(x, v, l, f)]
    BY DEF Moves
  <1> QED
    BY <1>2, <1>3, GoOnKeeps

\* The forms in which the steps write it.
LEMMA AtForms ==
    ASSUME IInv, queue # <<>>
    PROVE  /\ \A x : Goto(x) => Moves(x, op.victim, op.list, op.left)
           /\ \A x, v : [queue EXCEPT ![1].step = x, ![1].victim = v] =
                        [queue EXCEPT ![1] = At(x, v, op.list, op.left)]
           /\ \A x, l : [queue EXCEPT ![1].step = x, ![1].list = l] =
                        [queue EXCEPT ![1] = At(x, op.victim, l, op.left)]
  <1>1. op \in Operations /\ op = queue[1] /\ 1 \in DOMAIN queue
    BY HeadFacts
  <1>2. \A x : Goto(x) => Moves(x, op.victim, op.list, op.left)
    BY <1>1 DEF Goto, At, Operations, Moves
  <1>3. \A x, v : [queue EXCEPT ![1].step = x, ![1].victim = v] =
                  [queue EXCEPT ![1] = At(x, v, op.list, op.left)]
    BY <1>1 DEF At, Operations
  <1>4. \A x, l : [queue EXCEPT ![1].step = x, ![1].list = l] =
                  [queue EXCEPT ![1] = At(x, op.victim, l, op.left)]
    BY <1>1 DEF At, Operations
  <1> QED
    BY <1>2, <1>3, <1>4

Retried(x, l, f) == [queue EXCEPT ![1].step = x, ![1].list = l, ![1].left = f]

LEMMA AtFormOfRetry ==
    ASSUME IInv, queue # <<>>, NEW x, NEW l, NEW f
    PROVE  Retried(x, l, f) = [queue EXCEPT ![1] = At(x, op.victim, l, f)]
  <1>1. op \in Operations /\ op = queue[1] /\ 1 \in DOMAIN queue
    BY HeadFacts
  <1> DEFINE a == At(x, op.victim, l, op.left)
             b == At(x, op.victim, l, f)
             q == [queue EXCEPT ![1] = a]
  <1>2. b = [a EXCEPT !.left = f]
    BY <1>1 DEF At, Operations
  <1>3. q = [queue EXCEPT ![1].step = x, ![1].list = l]
    BY AtForms
  <1>4. Retried(x, l, f) =
        [[queue EXCEPT ![1].step = x, ![1].list = l] EXCEPT ![1].left = f]
    BY DEF Retried
  <1>5. Retried(x, l, f) = [q EXCEPT ![1].left = f]
    BY <1>3, <1>4
  <1> HIDE DEF a, b
  <1>6. [q EXCEPT ![1].left = f] = [queue EXCEPT ![1] = b]
    BY <1>1, <1>2
  <1> QED
    BY <1>5, <1>6 DEF b

LEMMA TypedHead ==
    ASSUME IInv, queue # <<>>
    PROVE  /\ op \in Operations /\ Sane(op) /\ op.victim \in OrNone
           /\ op.list \in Seq(Tokens) /\ op.left \in Seq(Tokens)
           /\ op.step \in Steps /\ op.kind \in Kinds /\ op.token \in OrNone
           /\ keyring.token \in OrNone /\ keyring.parked \in Seq(Tokens)
           /\ store.token \in OrNone
  <1>1. op \in Operations /\ Sane(op)
    BY HeadFacts
  <1> QED
    BY <1>1 DEF Operations, IInv, Rest, Stores

\* A step that changes neither the token nor the tombstone, nor ends.
LEMMA PlainStep ==
    ASSUME IInv, Rest', queue # <<>>, NEW x \in Steps, NEW v \in OrNone,
           NEW l \in Seq(Tokens), NEW f \in Seq(Tokens),
           Moves(x, v, l, f),
           op.kind = "signin" /\ op.step = "start" => op.current,
           x = "retry" => l # <<>>, x \in {"revoke", "parked", "park"} => v # None,
           op.kind = "retry" <=> x \in {"list", "retry", "save"},
           x = "write" => op.kind = "signin",
           store' = store, restore' = restore, signedOut' = signedOut, issued' = issued,
           call' = call, keyring'.token = keyring.token, tombstone' = tombstone
    PROVE  IInv'
  <1>1. op \in Operations
    BY TypedHead
  <1>2. Sane(At(x, v, l, f))
    BY <1>1, AtFacts DEF Sane
  <1> QED
    BY <1>2, StepKeeps

LEMMA StartKeeps == ASSUME IInv, Rest', Start PROVE IInv'
  <1>1. queue # <<>> /\ op.step = "start"
    BY DEF Start, Runs
  <1>2. /\ op \in Operations /\ Sane(op) /\ op.victim \in OrNone
        /\ op.list \in Seq(Tokens) /\ op.left \in Seq(Tokens)
        /\ op.kind \in Kinds /\ op.token \in OrNone
    BY <1>1, TypedHead
  <1>3. /\ keyring' = keyring /\ signedOut' = signedOut /\ issued' = issued
        /\ call' = call
    BY DEF Start, server
  <1>4. CASE op.kind \in {"retry", "cleanup", "remove"}
    <2> DEFINE x == IF op.kind = "retry" THEN "list"
                    ELSE IF op.kind = "cleanup" THEN "read" ELSE "remove"
    <2>1. Goto(x) /\ UNCHANGED <<store, restore, tombstone>>
      BY <1>4 DEF Start
    <2>2. x \in Steps /\ x \in {"list", "read", "remove"} /\ (op.kind = "retry" <=> x = "list")
      BY <1>4 DEF Steps
    <2> HIDE DEF x
    <2>3. Moves(x, op.victim, op.list, op.left)
      BY <1>1, <2>1, AtForms
    <2> QED
      BY <1>1, <1>2, <1>3, <1>4, <2>1, <2>2, <2>3, PlainStep
  <1>5. CASE op.kind = "logout"
    <2> DEFINE x == IF op.token = None THEN "read" ELSE "revoke"
    <2>1. /\ queue' = [queue EXCEPT ![1].step = x, ![1].victim = op.token]
          /\ UNCHANGED <<store, restore, tombstone>>
      BY <1>5 DEF Start
    <2>2. x \in Steps /\ x \in {"read", "revoke"} /\ (x = "revoke" => op.token # None)
      BY DEF Steps
    <2> HIDE DEF x
    <2>3. Moves(x, op.token, op.list, op.left)
      BY <1>1, <2>1, AtForms DEF Moves
    <2>4. /\ op.kind = "signin" /\ op.step = "start" => op.current
          /\ x = "retry" => op.list # <<>>
          /\ x \in {"revoke", "parked", "park"} => op.token # None
          /\ op.kind = "retry" <=> x \in {"list", "retry", "save"}
          /\ x = "write" => op.kind = "signin"
      BY <1>5, <2>2
    <2> QED
      BY <1>1, <1>2, <1>3, <2>1, <2>2, <2>3, <2>4, PlainStep
  <1>6. CASE op.kind = "signin" /\ ~op.current
    <2>1. Abort /\ UNCHANGED tombstone
      BY <1>6 DEF Start
    <2>2. queue' = Tail(queue) /\ restore' = restore /\ store' = store
      BY <1>6, <2>1 DEF Abort
    <2>3. ~Binds(op)
      BY <1>6 DEF Binds
    <2> QED
      BY <1>1, <1>3, <2>1, <2>2, <2>3, StaleEndKeeps
  <1>7. CASE op.kind = "signin" /\ op.current
    <2>1. /\ IF tombstone.legacy THEN Goto("read") /\ UNCHANGED tombstone ELSE StartWrite
          /\ UNCHANGED <<store, restore>>
      BY <1>7 DEF Start
    <2>2. CASE tombstone.legacy
      <3>1. Moves("read", op.victim, op.list, op.left)
        BY <1>1, <2>1, <2>2, AtForms
      <3> QED
        BY <1>1, <1>2, <1>3, <1>7, <2>1, <2>2, <3>1, PlainStep DEF Steps
    <2>3. CASE ~tombstone.legacy
      <3>1. /\ Moves("write", op.victim, op.list, op.left)
            /\ LogoutPending'
        BY <1>1, <2>1, <2>3, AtForms DEF StartWrite, LogoutPending, IInv, Rest
      <3>2. Sane(At("write", op.victim, op.list, op.left))
        <4> DEFINE o == At("write", op.victim, op.list, op.left)
        <4>1. "write" \in Steps
          BY DEF Steps
        <4>2. o.kind = op.kind /\ o.step = "write"
          BY <1>2, <4>1, AtFacts
        <4> HIDE DEF o
        <4>3. Sane(o)
          BY <1>7, <4>2 DEF Sane
        <4> QED
          BY <4>3 DEF o
      <3> QED
        BY <1>1, <1>2, <1>3, <1>7, <2>1, <3>1, <3>2, StepKeeps DEF Steps
    <2> QED
      BY <2>2, <2>3
  <1> QED
    BY <1>2, <1>4, <1>5, <1>6, <1>7 DEF Kinds

\* Reading, revoking, keeping what could not be revoked, and trying again.
LEMMA RevokingKeeps ==
    ASSUME IInv, Rest',
           \/ ReadToken \/ Revoke \/ RevokeFails \/ ReadParked \/ ParkToken
           \/ \E fails \in BOOLEAN : RetryRevoke(fails)
    PROVE  IInv'
  <1>1. queue # <<>> /\ op.step # "start"
    BY DEF ReadToken, Revoke, RevokeFails, ReadParked, ParkToken, RetryRevoke, Runs
  <1>2. /\ op \in Operations /\ Sane(op) /\ op.victim \in OrNone
        /\ op.list \in Seq(Tokens) /\ op.left \in Seq(Tokens)
        /\ op.kind \in Kinds /\ op.token \in OrNone
        /\ keyring.token \in OrNone /\ keyring.parked \in Seq(Tokens)
    BY <1>1, TypedHead
  <1>3. /\ store' = store /\ restore' = restore /\ tombstone' = tombstone
        /\ signedOut' = signedOut /\ issued' = issued /\ call' = call
    BY DEF ReadToken, Revoke, RevokeFails, ReadParked, ParkToken, RetryRevoke, server
  <1>4. keyring'.token = keyring.token
    BY DEF ReadToken, Revoke, RevokeFails, ReadParked, ParkToken, RetryRevoke, IInv, Rest
  <1>5. CASE ReadToken
    <2>1. op.step = "read" /\ op.kind # "retry"
      BY <1>2, <1>5 DEF ReadToken, Runs, Sane
    <2>2. CASE keyring.token = None \/ op.kind = "logout"
      <3>1. Goto("remove")
        BY <1>5, <2>2 DEF ReadToken, Goto
      <3>2. Moves("remove", op.victim, op.list, op.left)
        BY <1>1, <3>1, AtForms
      <3> QED
        BY <1>1, <1>2, <1>3, <1>4, <2>1, <3>2, PlainStep DEF Steps
    <2>3. CASE ~(keyring.token = None \/ op.kind = "logout")
      <3>1. queue' = [queue EXCEPT ![1].step = "revoke", ![1].victim = keyring.token]
        BY <1>5, <2>3 DEF ReadToken
      <3>2. Moves("revoke", keyring.token, op.list, op.left)
        BY <1>1, <3>1, AtForms DEF Moves
      <3> QED
        BY <1>1, <1>2, <1>3, <1>4, <2>1, <2>3, <3>2, PlainStep DEF Steps
    <2> QED
      BY <2>2, <2>3
  <1>6. CASE Revoke \/ RevokeFails \/ ParkToken
    <2>1. op.step \in {"revoke", "park"} /\ op.kind # "retry" /\ op.victim # None
      BY <1>2, <1>6 DEF Revoke, RevokeFails, ParkToken, Runs, Sane
    <2>2. Goto("parked") \/ Goto(AfterRevoke)
      BY <1>6 DEF Revoke, RevokeFails, ParkToken
    <2>3. AfterRevoke \in {"read", "remove"}
      BY DEF AfterRevoke
    <2>4. PICK y \in {"parked", "read", "remove"} : Goto(y)
      BY <2>2, <2>3
    <2>5. Moves(y, op.victim, op.list, op.left)
      BY <1>1, <2>4, AtForms
    <2>6. y \in Steps
      BY DEF Steps
    <2> QED
      BY <1>1, <1>2, <1>3, <1>4, <2>1, <2>5, <2>6, PlainStep
  <1>7. CASE ReadParked
    <2>1. CASE op.step = "list" /\ keyring.parked = <<>>
      <3>1. queue' = Tail(queue)
        BY <1>7, <2>1 DEF ReadParked
      <3>2. ~Binds(op)
        BY <1>2, <2>1 DEF Sane, Binds
      <3> QED
        BY <1>1, <1>3, <1>4, <3>1, <3>2, StaleEndKeeps
    <2>2. CASE ~(op.step = "list" /\ keyring.parked = <<>>)
      <3> DEFINE x == IF op.step = "list" THEN "retry" ELSE "park"
      <3>1. op.step \in {"list", "parked"}
        BY <1>7 DEF ReadParked, Runs
      <3>2. op = queue[1] /\ 1 \in DOMAIN queue
        BY <1>1, HeadFacts
      <3>3. queue' = [queue EXCEPT ![1].step = x, ![1].list = keyring.parked]
        BY <1>7, <2>2, <3>2 DEF ReadParked
      <3>4. /\ x \in Steps /\ x \in {"retry", "park"} /\ (x = "retry" <=> op.step = "list")
        BY DEF Steps
      <3> HIDE DEF x
      <3>5. Moves(x, op.victim, keyring.parked, op.left)
        BY <1>1, <3>3, AtForms DEF Moves
      <3>6. /\ op.kind = "retry" <=> x = "retry"
            /\ x = "park" => op.victim # None
            /\ x = "retry" => keyring.parked # <<>>
        BY <1>2, <2>2, <3>1, <3>4 DEF Sane
      <3> QED
        BY <1>1, <1>2, <1>3, <1>4, <3>4, <3>5, <3>6, PlainStep
    <2> QED
      BY <2>1, <2>2
  <1>8. ASSUME NEW fails \in BOOLEAN, RetryRevoke(fails) PROVE IInv'
    <2> DEFINE t == Head(op.list)
               x == IF Len(op.list) = 1 THEN "save" ELSE "retry"
               f == IF fails THEN Append(op.left, t) ELSE op.left
    <2>1. op.step = "retry" /\ op.list # <<>> /\ op.kind = "retry"
      BY <1>2, <1>8 DEF RetryRevoke, Runs, Sane
    <2>2. op = queue[1] /\ 1 \in DOMAIN queue
      BY <1>1, HeadFacts
    <2>3. /\ t \in Tokens /\ Tail(op.list) \in Seq(Tokens)
          /\ Len(Tail(op.list)) = Len(op.list) - 1 /\ Len(op.list) \in Nat
      BY <1>2, <2>1, HeadTailProperties, LenProperties
    <2>4. f \in Seq(Tokens)
      BY <1>2, <2>3
    <2>5. queue' = Retried(x, Tail(op.list), f)
      BY <1>8, <2>1, <2>2 DEF RetryRevoke, Retried
    <2>6. x \in Steps /\ x \in {"save", "retry"} /\ (x = "retry" => Tail(op.list) # <<>>)
      <3>1. x = "retry" => Len(op.list) # 1
        OBVIOUS
      <3>2. Len(<<>>) = 0
        OBVIOUS
      <3> HIDE DEF t, f
      <3>3. x = "retry" => Len(Tail(op.list)) # 0
        BY <2>3, <3>1
      <3>4. x = "retry" => Tail(op.list) # <<>>
        BY <3>2, <3>3
      <3> QED
        BY <3>4 DEF Steps
    <2> HIDE DEF t, x, f
    <2>7. Moves(x, op.victim, Tail(op.list), f)
      BY <1>1, <2>5, AtFormOfRetry DEF Moves
    <2> QED
      BY <1>1, <1>2, <1>3, <1>4, <2>1, <2>3, <2>4, <2>6, <2>7, PlainStep
  <1> QED
    BY <1>5, <1>6, <1>7, <1>8

\* The steps after which an operation is over.
LEMMA LastStepKeeps ==
    ASSUME IInv, Rest', SaveParked \/ RemoveToken \/ WriteToken \/ KeyringLocked
    PROVE  IInv'
  <1>1. queue # <<>>
    BY DEF SaveParked, RemoveToken, WriteToken, KeyringLocked, Runs
  <1>2. /\ op \in Operations /\ Sane(op) /\ op.victim \in OrNone
        /\ op.list \in Seq(Tokens) /\ op.left \in Seq(Tokens)
        /\ op.kind \in Kinds /\ op.token \in OrNone
    BY <1>1, TypedHead
  <1>3. keyring \in [token : OrNone, parked : Seq(Tokens)] /\ store \in Stores
    BY DEF IInv, Rest
  <1>4. signedOut' = signedOut /\ issued' = issued /\ call' = call
    BY DEF SaveParked, RemoveToken, WriteToken, KeyringLocked, server
  <1>5. ASSUME Abort, ~op.current \/ op.kind = "retry"
        PROVE  store' = store /\ restore' = restore /\ ~Binds(op) /\ queue' = Tail(queue)
    BY <1>5 DEF Abort, Binds
  <1>6. ASSUME Abort, Binds(op)
        PROVE  /\ queue' = Tail(queue)
               /\ restore' = IF op.kind = "cleanup" THEN Idle ELSE restore
               /\ store'.token = None \/ (~SignsIn(op) /\ store'.token = store.token)
    BY <1>2, <1>3, <1>6 DEF Abort, Binds, SignsIn, Kinds, Stores
  <1>7. CASE SaveParked
    <2>1. /\ queue' = Tail(queue) /\ store' = store /\ restore' = restore
          /\ tombstone' = tombstone /\ keyring'.token = keyring.token
      BY <1>3, <1>7 DEF SaveParked, server
    <2>2. ~Binds(op)
      BY <1>2, <1>7 DEF SaveParked, Runs, Sane, Binds
    <2> QED
      BY <1>1, <1>4, <2>1, <2>2, StaleEndKeeps
  <1>8. CASE RemoveToken /\ op.kind = "signin"
    <2>1. /\ Goto("write") /\ tombstone' = [tombstone EXCEPT !.server = TRUE]
          /\ store' = store /\ restore' = restore /\ keyring' = [keyring EXCEPT !.token = None]
      BY <1>8 DEF RemoveToken, StartWrite
    <2>2. /\ Moves("write", op.victim, op.list, op.left)
          /\ LogoutPending' /\ keyring'.token = None
      BY <1>1, <1>3, <2>1, AtForms DEF LogoutPending, IInv, Rest
    <2>3. "write" \in Steps /\ op.step # "start"
      BY <1>8 DEF Steps, RemoveToken, Runs
    <2>4. Sane(At("write", op.victim, op.list, op.left))
      <3> DEFINE o == At("write", op.victim, op.list, op.left)
      <3>1. o.kind = op.kind /\ o.step = "write"
        BY <1>2, <2>3, AtFacts
      <3> HIDE DEF o
      <3>2. Sane(o)
        BY <1>8, <3>1 DEF Sane
      <3> QED
        BY <3>2 DEF o
    <2> QED
      BY <1>1, <1>2, <1>4, <1>8, <2>1, <2>2, <2>3, <2>4, StepKeeps
  <1>9. CASE RemoveToken /\ op.kind # "signin"
    <2>1. Finish /\ op.step = "remove" /\ keyring' = [keyring EXCEPT !.token = None]
      BY <1>9 DEF RemoveToken, Runs
    <2>2. keyring'.token = None /\ queue' = Tail(queue)
      BY <1>3, <2>1 DEF Finish
    <2>3. op.kind \in {"cleanup", "logout", "remove"}
      BY <1>2, <1>9, <2>1 DEF Sane, Kinds
    <2>4. CASE ~op.current
      <3>1. store' = store /\ restore' = restore /\ tombstone' = tombstone
        BY <2>1, <2>4 DEF Finish
      <3>2. ~Binds(op) /\ ~Harmless(op)
        BY <2>3, <2>4 DEF Binds, Harmless
      <3> QED
        BY <1>1, <1>4, <2>2, <3>1, <3>2, StaleEndKeeps
    <2>5. CASE op.current
      <3>1. restore' = IF op.kind = "cleanup" THEN Idle ELSE restore
        BY <2>1, <2>5 DEF Finish
      <3>2. store'.token = None \/ store'.token = store.token
        BY <1>3, <2>1, <2>3, <2>5 DEF Finish, Stores
      <3>3. Binds(op) /\ ~SignsIn(op)
        BY <2>3, <2>5 DEF Binds, SignsIn
      <3> QED
        BY <1>1, <1>4, <2>2, <3>1, <3>2, <3>3, BoundEndKeeps
    <2> QED
      BY <1>2, <2>4, <2>5 DEF Operations
  <1>10. CASE WriteToken
    <2>1. op.kind = "signin" /\ op.step = "write"
      BY <1>2, <1>10 DEF WriteToken, Runs, Sane
    <2>2. keyring'.token = op.token
      BY <1>3, <1>10 DEF WriteToken
    <2>3. CASE op.current
      <3>1. Finish
        BY <1>10, <2>3 DEF WriteToken
      <3>2. /\ queue' = Tail(queue) /\ restore' = restore /\ store'.token = op.token
            /\ ~LogoutPending'
        BY <2>1, <2>3, <3>1 DEF Finish, LogoutPending, Cleared
      <3>3. Binds(op) /\ SignsIn(op)
        BY <2>1, <2>3 DEF Binds, SignsIn
      <3> QED
        BY <1>1, <1>4, <2>2, <3>2, <3>3, SignedInKeeps
    <2>4. CASE ~op.current
      <3>1. Abort /\ tombstone' = tombstone
        BY <1>10, <2>4 DEF WriteToken
      <3>2. ~Harmless(op) /\ SignsIn(op)
        BY <2>1 DEF Harmless, SignsIn
      <3> QED
        BY <1>1, <1>4, <1>5, <2>2, <2>4, <3>1, <3>2, StaleEndKeeps
    <2> QED
      BY <2>3, <2>4
  <1>11. CASE KeyringLocked
    <2>1. Abort /\ keyring' = keyring /\ tombstone' = tombstone
      BY <1>11 DEF KeyringLocked
    <2>2. CASE ~op.current \/ op.kind = "retry"
      BY <1>1, <1>4, <1>5, <2>1, <2>2, StaleEndKeeps
    <2>3. CASE ~(~op.current \/ op.kind = "retry")
      <3>1. Binds(op)
        BY <2>3 DEF Binds
      <3> QED
        BY <1>1, <1>4, <1>6, <2>1, <3>1, BoundEndKeeps
    <2> QED
      BY <2>2, <2>3
  <1> QED
    BY <1>7, <1>8, <1>9, <1>10, <1>11

-----------------------------------------------------------------------------
(* The other steps *)

\* A call says whether it is made with the token of a ready session.
LEMMA RequestKeeps == ASSUME IInv, Rest', NEW t \in Tokens, Request(t) PROVE IInv'
  <1>1. /\ call' = [token |-> t, current |-> TRUE,
                    ready |-> store.state = "ready" /\ t = store.token]
        /\ UNCHANGED <<store, restore, queue, keyring, tombstone, issued, signedOut>>
    BY DEF Request, server
  <1>2. t # None
    BY NoneAssumption
  <1> QED
    BY <1>1, <1>2 DEF IInv, InLine, Held, Known, Marked, SignedOutStaysOut, Backed, Restoring,
                Engaged, Guarded, Calling, Loading, Secure, LogoutPending

\* Its answer ends a session, or does nothing.
LEMMA AnswerKeeps == ASSUME IInv, Rest', Answer PROVE IInv'
  <1>1. /\ call' = NoCall /\ keyring' = keyring /\ issued' = issued /\ signedOut' = signedOut
    BY DEF Answer, server
  <1>2. ~call'.current
    BY <1>1 DEF NoCall
  <1>3. CASE Clears
    <2>1. /\ queue' = Staled(queue) \o <<Operation("remove", None)>> /\ restore' = Idle
          /\ store' = SignedOutStore(FALSE)
          /\ tombstone' = [tombstone EXCEPT !.server = TRUE]
      BY <1>3 DEF Answer, Staled
    <2>2. None \in OrNone
      BY DEF OrNone
    <2> QED
      BY <1>1, <1>2, <2>1, <2>2, EndKeeps
  <1>4. CASE ~Clears
    <2>1. UNCHANGED <<store, restore, queue, tombstone>>
      BY <1>4 DEF Answer
    <2> QED
      BY <1>1, <1>2, <2>1
         DEF IInv, InLine, Held, Known, Marked, SignedOutStaysOut, Backed, Restoring,
             Engaged, Guarded, Calling, Loading, Secure, LogoutPending
  <1> QED
    BY <1>3, <1>4

\* What the app keeps in memory is gone after a stop.
LEMMA CrashKeeps == ASSUME IInv, Rest', Crash PROVE IInv'
  <1>1. /\ store' = [token |-> None, state |-> "idle", loggingOut |-> FALSE]
        /\ restore' = Idle /\ queue' = <<>> /\ call' = NoCall
        /\ UNCHANGED <<keyring, tombstone, issued, signedOut>>
    BY DEF Crash, server
  <1>2. DOMAIN queue' = {} /\ queue' \in Seq(Operations)
    BY <1>1
  <1>3. InLine'
    BY <1>2 DEF InLine, Line, AllSane, Orderly, Fresh
  <1>4. ~Binding(queue') /\ ~Signing(queue') /\ ~Ending(queue') /\ Calm(queue')
    BY <1>2 DEF Binding, Signing, Ending, Calm
  <1>5. None \notin signedOut
    BY NoneAssumption DEF IInv, Rest
  <1>6. Known' /\ Marked' /\ SignedOutStaysOut'
    BY <1>1, <1>5 DEF IInv, Known, Held, Marked, SignedOutStaysOut, LogoutPending
  <1>7. Backed' /\ Restoring' /\ Engaged' /\ Guarded' /\ Calling' /\ Loading'
    BY <1>1, <1>4 DEF Backed, Restoring, Engaged, Guarded, Calling, Loading, Idle, NoCall
  <1> QED
    BY <1>3, <1>6, <1>7 DEF IInv

LEMMA IInvStep == IInv /\ [Next]_vars => IInv'
  <1> SUFFICES ASSUME IInv, [Next]_vars PROVE IInv'
    OBVIOUS
  <1>1. CASE QueueStep
    <2>1. Rest'
      BY <1>1, QueueStepTypes
    <2> QED
      BY <1>1, <2>1, StartKeeps, RevokingKeeps, LastStepKeeps DEF QueueStep
  <1>2. ASSUME NEW t \in Tokens, SignIn(t) \/ SetPassword(t) PROVE IInv'
    <2>1. Rest'
      BY <1>2, OtherStepTypes
    <2>2. t \notin issued /\ issued' = issued \cup {t} /\ SetAuth(t)
      BY <1>2 DEF SignIn, SetPassword, NextIssued
    <2> QED
      BY <2>1, <2>2, SetAuthKeeps
  <1>3. ASSUME NEW t \in Tokens, ServerRevokes(t) PROVE IInv'
    <2>1. Rest'
      BY <1>3, OtherStepTypes
    <2>2. UNCHANGED <<store, restore, queue, call, keyring, tombstone, issued, signedOut>>
      BY <1>3 DEF ServerRevokes
    <2> QED
      BY <2>1, <2>2
         DEF IInv, InLine, Held, Known, Marked, SignedOutStaysOut, Backed, Restoring,
             Engaged, Guarded, Calling, Loading, Secure, LogoutPending
  <1>4. CASE LogOut
    <2>1. Rest'
      BY <1>4, OtherStepTypes
    <2>2. /\ queue' = Staled(queue) \o <<Operation("logout", store.token)>>
          /\ restore' = Idle /\ store' = SignedOutStore(TRUE)
          /\ tombstone' = [tombstone EXCEPT !.server = TRUE]
          /\ keyring' = keyring /\ issued' = issued
          /\ signedOut' = signedOut \cup Ended
          /\ call' = [call EXCEPT !.current = FALSE]
      BY <1>4 DEF LogOut, Invalidate, Staled, server
    <2>3. Ended \subseteq Held \ {None}
      BY DEF Ended, Held
    <2>4. ~call'.current /\ store.token \in OrNone
      BY <2>2 DEF IInv, Rest, Stores, Calls
    <2> QED
      BY <2>1, <2>2, <2>3, <2>4, EndKeeps
  <1>5. CASE RestoreSession \/ RestoreStep
    <2>1. Rest'
      BY <1>5, OtherStepTypes
    <2> QED
      BY <1>5, <2>1, RestoreSessionKeeps, RestoreStepKeeps
  <1>6. CASE Answer \/ Crash \/ \E t \in Tokens : Request(t)
    <2>1. Rest'
      BY <1>6, OtherStepTypes
    <2> QED
      BY <1>6, <2>1, RequestKeeps, AnswerKeeps, CrashKeeps
  <1>7. CASE UNCHANGED vars
    BY <1>7 DEF vars, IInv, Rest, InLine, Held, Known, Marked, SignedOutStaysOut, Backed,
                Restoring, Engaged, Guarded, Calling, Loading, Secure, LogoutPending
  <1> QED
    BY <1>1, <1>2, <1>3, <1>4, <1>5, <1>6, <1>7 DEF Next, Acts

\* No step but a stop leads back to where the app has just started.
LEMMA ScreeningStep == IInv /\ IInv' /\ Screening /\ [Next]_vars => Screening'
  <1> SUFFICES ASSUME IInv, IInv', Screening, [Next]_vars PROVE Screening'
    OBVIOUS
  <1> DEFINE New == store.state = "idle" /\ store.token = None
  <1>1. store.token \in OrNone /\ store'.token \in OrNone /\ store \in Stores
    BY DEF IInv, Rest, Stores
  <1>2. CASE UNCHANGED vars
    BY <1>2 DEF vars, Screening
  <1>3. ASSUME NEW b \in BOOLEAN, ScreensHold(b)
        PROVE  /\ screens' \in Screens
               /\ New' => screens'.held = {}
    BY <1>1, <1>3 DEF ScreensHold, Screening, Screens, NothingHeld, OrNone
  <1>4. Clears \in BOOLEAN
    BY DEF Clears, IInv, Rest, Calls, Screening, Screens
  <1>5. CASE Next
    <2>1. /\ screens' \in Screens
          /\ New' => screens'.held = {}
      BY <1>3, <1>4, <1>5 DEF Next
    <2>2. New' => call'.token = None
      <3>1. CASE Crash \/ Answer
        <4>1. call' = NoCall
          BY <3>1 DEF Crash, Answer
        <4> QED
          BY <4>1 DEF NoCall
      <3>2. ASSUME NEW t \in Tokens, Request(t) PROVE ~New'
        BY <3>2, <1>1, NoneAssumption DEF Request, Screening
      <3>3. ASSUME NEW t \in Tokens, SignIn(t) \/ SetPassword(t) PROVE ~New'
        BY <1>1, <3>3 DEF SignIn, SetPassword, SetAuth, Stores
      <3>4. CASE LogOut
        BY <3>4 DEF LogOut, SignedOutStore
      <3>5. CASE RestoreSession \/ RestoreStep
        <4>1. \/ store' = [store EXCEPT !.state = "loading"]
              \/ store' = [store EXCEPT !.token = None, !.state = "ready"]
              \/ store' = [store EXCEPT !.token = restore.token, !.state = "ready"]
              \/ store' = [store EXCEPT !.state = "error"]
              \/ store' = SignedOutStore(FALSE)
              \/ store' = store /\ call' = call
          BY <3>5 DEF RestoreSession, RestoreStep, RestoreReads, RestoreAnswered,
                      RestoreFails, ClearSession
        <4>2. New' => store' = store /\ call' = call
          <5>1. ASSUME store' = [store EXCEPT !.state = "loading"] PROVE ~New'
            BY <1>1, <5>1 DEF Stores
          <5>2. ASSUME store' = [store EXCEPT !.token = None, !.state = "ready"] PROVE ~New'
            BY <1>1, <5>2 DEF Stores
          <5>3. ASSUME store' = [store EXCEPT !.token = restore.token, !.state = "ready"]
                PROVE  ~New'
            BY <1>1, <5>3 DEF Stores
          <5>4. ASSUME store' = [store EXCEPT !.state = "error"] PROVE ~New'
            BY <1>1, <5>4 DEF Stores
          <5>5. ASSUME store' = SignedOutStore(FALSE) PROVE ~New'
            BY <5>5 DEF SignedOutStore
          <5> QED
            BY <4>1, <5>1, <5>2, <5>3, <5>4, <5>5
        <4> QED
          BY <4>2 DEF Screening
      <3>6. ASSUME NEW t \in Tokens, ServerRevokes(t) PROVE New' => call'.token = None
        BY <3>6 DEF ServerRevokes, Screening
      <3>7. CASE QueueStep
        <4>1. /\ call' = call /\ queue # <<>>
              /\ Finish \/ Abort \/ store' = store
          BY <3>7, QueueEnds
        <4>2. op.kind = "signin" => op.token # None
          BY <4>1, HeadFacts, NoneAssumption DEF IInv, Rest, SignsIn
        <4>3. CASE Finish
          <5>1. \/ store' = store \/ store' = [store EXCEPT !.token = None, !.state = "ready"]
                \/ store' = [store EXCEPT !.loggingOut = FALSE]
                \/ store' = [token |-> op.token, state |-> "idle", loggingOut |-> FALSE]
                   /\ op.kind = "signin"
            BY <4>3 DEF Finish
          <5>2. ASSUME store' = [store EXCEPT !.token = None, !.state = "ready"] PROVE ~New'
            BY <1>1, <5>2 DEF Stores
          <5>3. ASSUME store' = [store EXCEPT !.loggingOut = FALSE], New' PROVE New
            BY <1>1, <5>3 DEF Stores
          <5>4. ASSUME op.kind = "signin",
                       store' = [token |-> op.token, state |-> "idle", loggingOut |-> FALSE]
                PROVE  ~New'
            BY <4>2, <5>4
          <5> QED
            BY <4>1, <5>1, <5>2, <5>3, <5>4 DEF Screening
        <4>4. CASE Abort
          <5>1. \/ store' = store \/ store' = [store EXCEPT !.token = None, !.state = "error"]
                \/ store' = [store EXCEPT !.loggingOut = FALSE, !.state = "error"]
                \/ store' = [store EXCEPT !.state = "error"]
            BY <4>4 DEF Abort
          <5>2. ASSUME \/ store' = [store EXCEPT !.token = None, !.state = "error"]
                       \/ store' = [store EXCEPT !.loggingOut = FALSE, !.state = "error"]
                       \/ store' = [store EXCEPT !.state = "error"]
                PROVE  ~New'
            BY <1>1, <5>2 DEF Stores
          <5> QED
            BY <4>1, <5>1, <5>2 DEF Screening
        <4> QED
          BY <4>1, <4>3, <4>4 DEF Screening
      <3> QED
        BY <1>5, <3>1, <3>2, <3>3, <3>4, <3>5, <3>6, <3>7 DEF Next, Acts
    <2> QED
      BY <2>1, <2>2 DEF Screening
  <1> QED
    BY <1>2, <1>5

LEMMA ScreeningInit == Init => Screening
  BY DEF Init, Screening, Screens, NothingHeld, NoCall

\* The inductive invariant holds of every behaviour.
THEOREM Invariant == Spec => [](IInv /\ Screening)
  BY IInvInit, IInvStep, ScreeningInit, ScreeningStep, PTL DEF Spec

-----------------------------------------------------------------------------
(* What follows *)

\* Every variable keeps its type, whatever waits on the queue.
THEOREM TypeCorrect == Spec => []TypeOK
  BY Invariant, IInvTyped, PTL

\* A session the user logged out of never comes back, for any number of
\* sign-ins, failures of the keyring and the server, and stops of the app.
THEOREM SignedOutAlwaysStaysOut == Spec => []SignedOutStaysOut
  <1>1. IInv => SignedOutStaysOut
    BY DEF IInv
  <1> QED
    BY <1>1, Invariant, PTL

\* A session on the screen is in the keyring and not marked as logged out of,
\* so that a stop of the app loses nothing.
THEOREM SessionAlwaysSurvives == Spec => []SessionSurvives
  <1>1. IInv => SessionSurvives
    BY DEF IInv, Backed, Engaged, Secure, SessionSurvives
  <1> QED
    BY <1>1, Invariant, PTL

\* However late the answer to a call of a ready session comes, it ends only a
\* session whose token the server refuses.
THEOREM LateAnswerIsAlwaysHarmless == Spec => LateAnswerIsHarmless
  <1>1. IInv /\ Answer /\ store'.token # store.token /\ call.ready
            => store.token \notin valid
    <2> SUFFICES ASSUME IInv, Answer, store'.token # store.token, call.ready
                 PROVE  store.token \notin valid
      OBVIOUS
    <2>1. call.token \notin valid /\ call.current
      BY DEF Answer, Clears
    <2> QED
      BY <2>1 DEF IInv, Calling
  <1>2. IInv /\ [Next]_vars =>
            [Answer /\ store'.token # store.token /\ call.ready => store.token \notin valid]_vars
    BY <1>1
  <1> QED
    BY <1>2, Invariant, PTL DEF Spec, LateAnswerIsHarmless

=============================================================================
