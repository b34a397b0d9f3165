-------------------------- MODULE RevocationProofs --------------------------
(***************************************************************************)
(* For any number of tokens, sign-ins, logouts, refused revocations and    *)
(* stops of the app: while the keyring answers and no session check has    *)
(* failed, a token the user logged out of is revoked, or the keyring keeps *)
(* it for revocation.                                                      *)
(***************************************************************************)
EXTENDS DesktopSessionProofs, FiniteSetTheorems

-----------------------------------------------------------------------------
(* Lists of tokens *)

Once(s) == \A i, j \in DOMAIN s : s[i] = s[j] => i = j

LEMMA EmptyList == Elements(<<>>) = {} /\ Once(<<>>)
  <1>1. DOMAIN <<>> = {}
    OBVIOUS
  <1> QED
    BY <1>1 DEF Elements, Once

LEMMA ElementsOf ==
    ASSUME NEW s \in Seq(Tokens)
    PROVE  Elements(s) \subseteq Tokens
  <1>1. \A i \in DOMAIN s : s[i] \in Tokens
    BY ElementOfSeq, LenProperties
  <1> QED
    BY <1>1 DEF Elements

\* The first token and the rest.
LEMMA HeadAndRest ==
    ASSUME NEW s \in Seq(Tokens), s # <<>>, Once(s)
    PROVE  /\ Elements(s) = {Head(s)} \cup Elements(Tail(s))
           /\ Head(s) \notin Elements(Tail(s)) /\ Once(Tail(s))
           /\ Head(s) \in Tokens /\ Tail(s) \in Seq(Tokens)
           /\ Len(s) = 1 => Tail(s) = <<>>
  <1> DEFINE r == Tail(s)
  <1>1. /\ Len(s) \in Nat /\ DOMAIN s = 1..Len(s) /\ 1 \in DOMAIN s /\ s[1] = Head(s)
    BY EmptySeq, LenProperties
  <1>2. /\ r \in Seq(Tokens) /\ Len(r) = Len(s) - 1 /\ DOMAIN r = 1..Len(s) - 1
        /\ \A j \in 1..Len(r) : r[j] = s[j + 1]
    BY <1>1, HeadTailProperties, LenProperties
  <1> HIDE DEF r
  <1>3. \A j \in DOMAIN r : j + 1 \in DOMAIN s /\ r[j] = s[j + 1] /\ j + 1 # 1 /\ j \in Nat
    BY <1>1, <1>2
  <1>4. \A j \in DOMAIN s : j # 1 => j - 1 \in DOMAIN r /\ s[j] = r[j - 1]
    BY <1>1, <1>2
  <1>5. Elements(s) = {Head(s)} \cup Elements(r)
    <2>1. ASSUME NEW j \in DOMAIN s PROVE s[j] \in {Head(s)} \cup Elements(r)
      BY <1>1, <1>4 DEF Elements
    <2>2. ASSUME NEW j \in DOMAIN r PROVE r[j] \in Elements(s)
      BY <1>3 DEF Elements
    <2>3. Head(s) \in Elements(s)
      BY <1>1 DEF Elements
    <2> QED
      BY <2>1, <2>2, <2>3 DEF Elements
  <1>6. Head(s) \notin Elements(r)
    BY <1>1, <1>3 DEF Elements, Once
  <1>7. Once(r)
    <2> SUFFICES ASSUME NEW i \in DOMAIN r, NEW j \in DOMAIN r, r[i] = r[j] PROVE i = j
      BY DEF Once
    <2>1. i + 1 = j + 1 /\ i \in Nat /\ j \in Nat
      BY <1>3 DEF Once
    <2> QED
      BY <2>1
  <1>8. Len(s) = 1 => r = <<>>
    BY <1>1, <1>2, EmptySeq
  <1> QED
    BY <1>1, <1>2, <1>5, <1>6, <1>7, <1>8, ElementOfSeq DEF r

LEMMA Appended ==
    ASSUME NEW s \in Seq(Tokens), NEW t \in Tokens
    PROVE  /\ Append(s, t) \in Seq(Tokens)
           /\ Elements(Append(s, t)) = Elements(s) \cup {t}
           /\ Once(s) /\ t \notin Elements(s) => Once(Append(s, t))
  <1> DEFINE r == Append(s, t)
  <1>1. Len(s) \in Nat /\ DOMAIN s = 1..Len(s)
    BY LenProperties
  <1>2. /\ r \in Seq(Tokens) /\ Len(r) = Len(s) + 1
        /\ \A j \in 1..Len(r) : r[j] = IF j = Len(r) THEN t ELSE s[j]
    OBVIOUS
  <1> HIDE DEF r
  <1>3. DOMAIN r = 1..Len(s) + 1
    BY <1>2, LenProperties
  <1>4. \A j \in DOMAIN r : (j \in DOMAIN s /\ r[j] = s[j]) \/ (j = Len(s) + 1 /\ r[j] = t)
    BY <1>1, <1>2, <1>3
  <1>5. \A j \in DOMAIN s : j \in DOMAIN r /\ r[j] = s[j]
    BY <1>1, <1>2, <1>3
  <1>6. Len(s) + 1 \in DOMAIN r /\ r[Len(s) + 1] = t
    BY <1>1, <1>2, <1>3
  <1>7. Elements(r) = Elements(s) \cup {t}
    BY <1>4, <1>5, <1>6 DEF Elements
  <1>8. Once(s) /\ t \notin Elements(s) => Once(r)
    BY <1>4 DEF Once, Elements
  <1> QED
    BY <1>2, <1>7, <1>8 DEF r

\* A list without duplicates is no longer than the set it is drawn from.
LEMMA OnceIsShort ==
    ASSUME NEW s \in Seq(Tokens), Once(s), NEW F, IsFiniteSet(F), Elements(s) \subseteq F
    PROVE  Len(s) <= Cardinality(F)
  <1>1. Len(s) \in Nat /\ DOMAIN s = 1..Len(s) /\ s \in [1..Len(s) -> Tokens]
    BY LenProperties
  <1>2. s \in [1..Len(s) -> F]
    BY <1>1 DEF Elements
  <1>3. s \in Injection(1..Len(s), F)
    BY <1>1, <1>2 DEF Injection, IsInjective, Once
  <1>4. Cardinality(1..Len(s)) <= Cardinality(F)
    BY <1>3, FS_Injection
  <1>5. Cardinality(1..Len(s)) = Len(s)
    BY <1>1, FS_Interval
  <1> QED
    BY <1>4, <1>5

\* setPendingRevocations drops nothing while there is room for every token.
LEMMA ParkKeepsAll ==
    ASSUME NEW s \in Seq(Tokens), Once(s), NEW t \in Tokens, NEW F, IsFiniteSet(F),
           Elements(s) \subseteq F, t \in F, Cardinality(F) <= MaxPending
    PROVE  /\ Elements(Park(s, t)) = Elements(s) \cup {t}
           /\ Once(Park(s, t))
  <1> DEFINE all == IF t \in Elements(s) THEN s ELSE Append(s, t)
  <1>1. /\ all \in Seq(Tokens) /\ Elements(all) = Elements(s) \cup {t} /\ Once(all)
    BY Appended
  <1> HIDE DEF all
  <1>2. Len(all) <= Cardinality(F)
    BY <1>1, OnceIsShort
  <1>3. Len(all) \in Nat /\ Cardinality(F) \in Nat /\ MaxPending \in Nat
    BY <1>1, LenProperties, FS_CardinalityType, MaxPendingAssumption
  <1>4. ~(Len(all) > MaxPending)
    BY <1>2, <1>3
  <1>5. Park(s, t) = all
    BY <1>4 DEF Park, all
  <1> QED
    BY <1>1, <1>5

-----------------------------------------------------------------------------
(* Where the operations on the queue are with their tokens *)

\* Revoked, or on the list of failed revocations.
Safe(t, live, parked) == t \notin live \/ t \in Elements(parked)

\* An operation that has not started.
Waits(o, known) ==
    /\ o.step = "start" /\ o.victim = None /\ o.left = <<>>
    /\ o.kind = "logout" => o.token \in known \cup {None}

\* A logout revokes its token before it goes on; a cleanup the stored one.
SoundEnd(o, live, token, parked) ==
    /\ o.kind = "logout" /\ o.step # "start" => o.victim = o.token
    /\ o.kind = "logout" /\ o.step \in {"read", "remove"} =>
          o.victim = None \/ Safe(o.victim, live, parked)
    /\ o.kind = "cleanup" /\ o.step \in {"start", "read"} => o.victim = None
    /\ o.kind = "cleanup" /\ o.step \notin {"start", "read"} => o.victim = token
    /\ o.kind = "cleanup" /\ o.step = "remove" =>
          o.victim = None \/ Safe(o.victim, live, parked)

\* A retry has every listed token still before it, revoked, or to be saved.
SoundRetry(o, known, live, parked) ==
    /\ o.step \in {"start", "list"} => o.left = <<>>
    /\ o.step = "save" => o.list = <<>>
    /\ o.step \in {"retry", "save"} =>
          /\ Once(o.list) /\ Once(o.left) /\ Elements(o.list) \cap Elements(o.left) = {}
          /\ Elements(o.list) \cup Elements(o.left) \subseteq known
          /\ Elements(parked) \cap live \subseteq Elements(o.list) \cup Elements(o.left)

Sound(o, known, live, token, parked) ==
    /\ o.victim \in known \cup {None}
    /\ o.kind = "logout" => o.token \in known \cup {None}
    /\ o.step = "park" => o.list = parked
    /\ SoundEnd(o, live, token, parked)
    /\ o.kind = "retry" => SoundRetry(o, known, live, parked)

\* Only the first operation has started.
InOrder(q, known, live, token, parked) ==
    /\ \A i \in DOMAIN q : i # 1 => Waits(q[i], known)
    /\ q # <<>> => Sound(q[1], known, live, token, parked)

\* It will revoke the stored token k before it removes it.
Settles(o, k) == o.kind = "cleanup" \/ (o.kind = "logout" /\ o.token = k)

\* Such an operation is the first that touches the stored token.
Comes(q, k) ==
    \E i \in DOMAIN q : /\ Settles(q[i], k)
                        /\ \A j \in DOMAIN q : j < i => Harmless(q[j])

\* An operation that waits is sound, whatever the keyring holds.
LEMMA WaitingIsSound ==
    ASSUME NEW o, NEW known, Waits(o, known), NEW live, NEW token, NEW parked
    PROVE  Sound(o, known, live, token, parked)
  BY DEF Waits, Sound, SoundEnd, SoundRetry

\* More tokens are issued and some revoked: the operation is as sound.
LEMMA SoundLater ==
    ASSUME NEW o, NEW known, NEW live, NEW token, NEW parked,
           Sound(o, known, live, token, parked), None \notin live,
           NEW known2, NEW live2, known \subseteq known2, live2 \cap known \subseteq live,
           None \notin live2, Elements(parked) \subseteq known
    PROVE  Sound(o, known2, live2, token, parked)
  <1>1. /\ o.victim \in known2 \cup {None}
        /\ o.kind = "logout" => o.token \in known2 \cup {None}
        /\ o.step = "park" => o.list = parked
    BY DEF Sound
  <1>2. \A t \in known \cup {None} : Safe(t, live, parked) => Safe(t, live2, parked)
    BY DEF Safe
  <1>3. SoundEnd(o, live2, token, parked)
    BY <1>2 DEF Sound, SoundEnd
  <1>4. o.kind = "retry" => SoundRetry(o, known2, live2, parked)
    BY DEF Sound, SoundRetry
  <1> QED
    BY <1>1, <1>3, <1>4 DEF Sound

\* r is the queue q with operations behind it, and with some invalidated.
Extends(r, q, known) ==
    /\ q \in Seq(Operations) /\ r \in Seq(Operations) /\ Len(q) <= Len(r)
    /\ \A i \in DOMAIN q : /\ r[i].kind = q[i].kind /\ r[i].token = q[i].token
                           /\ r[i].step = q[i].step /\ r[i].victim = q[i].victim
                           /\ r[i].list = q[i].list /\ r[i].left = q[i].left
                           /\ r[i].current => q[i].current
    /\ \A i \in DOMAIN r : i > Len(q) => Waits(r[i], known)

LEMMA ExtendsItself ==
    ASSUME NEW q \in Seq(Operations), NEW known
    PROVE  Extends(q, q, known)
  <1>1. DOMAIN q = 1..Len(q) /\ Len(q) \in Nat
    BY LenProperties
  <1> QED
    BY <1>1 DEF Extends

LEMMA ExtendedByOne ==
    ASSUME NEW q \in Seq(Operations), NEW known, NEW o \in Operations, Waits(o, known)
    PROVE  /\ Extends(Append(q, o), q, known)
           /\ Append(q, o)[Len(q) + 1] = o
           /\ Len(q) + 1 \in DOMAIN Append(q, o)
  <1> DEFINE r == Append(q, o)
  <1>1. DOMAIN q = 1..Len(q) /\ Len(q) \in Nat
    BY LenProperties
  <1>2. /\ r \in Seq(Operations) /\ Len(r) = Len(q) + 1
        /\ \A j \in 1..Len(r) : r[j] = IF j = Len(r) THEN o ELSE q[j]
    OBVIOUS
  <1> HIDE DEF r
  <1>3. DOMAIN r = 1..Len(q) + 1
    BY <1>2, LenProperties
  <1>4. \A j \in DOMAIN q : r[j] = q[j]
    BY <1>1, <1>2
  <1>5. \A j \in DOMAIN r : j > Len(q) => r[j] = o
    BY <1>1, <1>2, <1>3
  <1>6. Extends(r, q, known)
    BY <1>1, <1>2, <1>4, <1>5 DEF Extends
  <1> QED
    BY <1>1, <1>2, <1>3, <1>6 DEF r

LEMMA ExtendsTwice ==
    ASSUME NEW p, NEW q, NEW r, NEW known, Extends(q, p, known), Extends(r, q, known)
    PROVE  Extends(r, p, known)
  <1>1. /\ p \in Seq(Operations) /\ q \in Seq(Operations) /\ r \in Seq(Operations)
        /\ Len(p) <= Len(q) /\ Len(q) <= Len(r)
    BY DEF Extends
  <1>2. /\ DOMAIN p = 1..Len(p) /\ DOMAIN q = 1..Len(q) /\ DOMAIN r = 1..Len(r)
        /\ Len(p) \in Nat /\ Len(q) \in Nat /\ Len(r) \in Nat
    BY <1>1, LenProperties
  <1>3. \A i \in DOMAIN p : i \in DOMAIN q
    BY <1>1, <1>2
  <1>4. \A i \in DOMAIN r : i > Len(p) => i > Len(q) \/ (i \in DOMAIN q /\ i > Len(p))
    BY <1>1, <1>2
  <1>5. ASSUME NEW i \in DOMAIN r, i > Len(p) PROVE Waits(r[i], known)
    <2>1. CASE i > Len(q)
      BY <1>5, <2>1 DEF Extends
    <2>2. CASE i \in DOMAIN q
      <3>1. Waits(q[i], known)
        BY <1>5, <2>2 DEF Extends
      <3>2. /\ r[i].kind = q[i].kind /\ r[i].token = q[i].token
            /\ r[i].step = q[i].step /\ r[i].victim = q[i].victim /\ r[i].left = q[i].left
        BY <2>2 DEF Extends
      <3> QED
        BY <3>1, <3>2 DEF Waits
    <2> QED
      BY <1>4, <1>5, <2>1, <2>2
  <1>6. ASSUME NEW i \in DOMAIN p
        PROVE  /\ r[i].kind = p[i].kind /\ r[i].token = p[i].token
               /\ r[i].step = p[i].step /\ r[i].victim = p[i].victim
               /\ r[i].list = p[i].list /\ r[i].left = p[i].left
               /\ r[i].current => p[i].current
    <2>1. i \in DOMAIN q
      BY <1>3
    <2> QED
      BY <2>1 DEF Extends
  <1>7. Len(p) <= Len(r)
    BY <1>1, <1>2
  <1> QED
    BY <1>1, <1>5, <1>6, <1>7 DEF Extends

LEMMA StaledExtends ==
    ASSUME NEW q \in Seq(Operations), NEW known
    PROVE  Extends(Staled(q), q, known)
  <1> DEFINE r == Staled(q)
  <1>1. Len(q) \in Nat /\ DOMAIN q = 1..Len(q)
    BY LenProperties
  <1>2. \A i \in DOMAIN q : q[i] \in Operations
    BY <1>1, ElementOfSeq
  <1>3. \A i \in DOMAIN q : [q[i] EXCEPT !.current = FALSE] \in Operations
    BY <1>2 DEF Operations
  <1>4. r \in [1..Len(q) -> Operations]
    BY <1>1, <1>3 DEF Staled
  <1>5. r \in Seq(Operations)
    BY <1>1, <1>4, SeqDef
  <1>6. DOMAIN r = DOMAIN q /\ Len(r) = Len(q)
    BY <1>1, <1>4, <1>5, LenProperties
  <1>7. \A i \in DOMAIN q : /\ r[i].kind = q[i].kind /\ r[i].token = q[i].token
                            /\ ~r[i].current /\ r[i].step = q[i].step
                            /\ r[i].list = q[i].list /\ r[i].victim = q[i].victim
                            /\ r[i].left = q[i].left
    BY <1>2 DEF Staled, Operations
  <1> HIDE DEF r
  <1>8. Extends(r, q, known)
    BY <1>1, <1>5, <1>6, <1>7 DEF Extends
  <1> QED
    BY <1>8 DEF r

\* Operations behind the queue disturb none that is before them.
LEMMA ExtendedKeeps ==
    ASSUME NEW q, NEW r, NEW known, NEW live, NEW token, NEW parked,
           Extends(r, q, known), InOrder(q, known, live, token, parked)
    PROVE  /\ InOrder(r, known, live, token, parked)
           /\ \A k : Comes(q, k) => Comes(r, k)
  <1>1. q \in Seq(Operations) /\ r \in Seq(Operations) /\ Len(q) <= Len(r)
    BY DEF Extends
  <1>2. /\ DOMAIN q = 1..Len(q) /\ DOMAIN r = 1..Len(r)
        /\ Len(q) \in Nat /\ Len(r) \in Nat
    BY <1>1, LenProperties
  <1>3. \A i \in DOMAIN r : i \in DOMAIN q \/ i > Len(q)
    BY <1>2
  <1>4. ASSUME NEW i \in DOMAIN q, Waits(q[i], known) PROVE Waits(r[i], known)
    BY <1>4 DEF Waits, Extends
  <1>5. \A i \in DOMAIN r : i # 1 => Waits(r[i], known)
    BY <1>3, <1>4 DEF Extends, InOrder
  <1>6. r # <<>> => Sound(r[1], known, live, token, parked)
    <2>1. CASE q # <<>>
      <3>1. 1 \in DOMAIN q
        BY <1>1, <1>2, <2>1, EmptySeq
      <3>2. Sound(q[1], known, live, token, parked)
        BY <2>1 DEF InOrder
      <3>3. /\ r[1].kind = q[1].kind /\ r[1].token = q[1].token
            /\ r[1].step = q[1].step /\ r[1].victim = q[1].victim
            /\ r[1].list = q[1].list /\ r[1].left = q[1].left
        BY <3>1 DEF Extends
      <3> QED
        BY <3>2, <3>3 DEF Sound, SoundEnd, SoundRetry
    <2>2. CASE q = <<>> /\ r # <<>>
      <3>1. 1 \in DOMAIN r /\ 1 > Len(q)
        BY <1>1, <1>2, <2>2, EmptySeq
      <3>2. Waits(r[1], known)
        BY <3>1 DEF Extends
      <3> QED
        BY <3>2, WaitingIsSound
    <2> QED
      BY <2>1, <2>2
  <1>7. ASSUME NEW k, Comes(q, k) PROVE Comes(r, k)
    <2>1. PICK i \in DOMAIN q : /\ Settles(q[i], k)
                                /\ \A j \in DOMAIN q : j < i => Harmless(q[j])
      BY <1>7 DEF Comes
    <2>2. i \in DOMAIN r /\ Settles(r[i], k)
      BY <1>1, <1>2, <2>1 DEF Extends, Settles
    <2>3. ASSUME NEW j \in DOMAIN r, j < i PROVE Harmless(r[j])
      <3>1. j \in DOMAIN q /\ Harmless(q[j])
        BY <1>2, <2>1, <2>3
      <3> QED
        BY <3>1 DEF Extends, Harmless
    <2> QED
      BY <2>2, <2>3 DEF Comes
  <1> QED
    BY <1>5, <1>6, <1>7 DEF InOrder

\* The operation at the end of a calm queue comes first.
LEMMA ComesLast ==
    ASSUME NEW q, NEW r, NEW known, Extends(r, q, known), Len(r) = Len(q) + 1, Calm(q),
           NEW k, Settles(r[Len(r)], k)
    PROVE  Comes(r, k)
  <1>1. q \in Seq(Operations) /\ r \in Seq(Operations)
    BY DEF Extends
  <1>2. /\ DOMAIN q = 1..Len(q) /\ DOMAIN r = 1..Len(r)
        /\ Len(q) \in Nat /\ Len(r) \in Nat
    BY <1>1, LenProperties
  <1>3. Len(r) \in DOMAIN r
    BY <1>2
  <1>4. \A j \in DOMAIN r : j < Len(r) => j \in DOMAIN q
    BY <1>2
  <1>5. \A j \in DOMAIN q : Harmless(r[j])
    BY DEF Calm, Harmless, Extends
  <1> QED
    BY <1>3, <1>4, <1>5 DEF Comes

\* The first operation goes on.
LEMMA GoneOn ==
    ASSUME NEW q \in Seq(Operations), q # <<>>, NEW o \in Operations, NEW r,
           Succeeds(r, q, o), o.kind = q[1].kind, o.token = q[1].token,
           Harmless(q[1]) => Harmless(o),
           NEW known, NEW live, NEW token, NEW parked, InOrder(q, known, live, token, parked),
           NEW live2, NEW token2, NEW parked2, Sound(o, known, live2, token2, parked2)
    PROVE  /\ InOrder(r, known, live2, token2, parked2)
           /\ \A k : Comes(q, k) => Comes(r, k)
  <1>1. Len(q) \in Nat /\ DOMAIN q = 1..Len(q) /\ 1 \in 1..Len(q)
    BY EmptySeq, LenProperties
  <1>2. /\ r \in Seq(Operations) /\ Len(r) = Len(q)
        /\ \A j \in 1..Len(q) : r[j] = IF j = 1 THEN o ELSE q[j]
    BY <1>1, ExceptSeq DEF Succeeds
  <1>3. DOMAIN r = DOMAIN q
    BY <1>1, <1>2, LenProperties
  <1>4. InOrder(r, known, live2, token2, parked2)
    BY <1>1, <1>2, <1>3 DEF InOrder
  <1>5. \A j \in DOMAIN q : /\ Harmless(q[j]) => Harmless(r[j])
                            /\ \A k : Settles(q[j], k) => Settles(r[j], k)
    BY <1>1, <1>2 DEF Settles
  <1>6. \A k : Comes(q, k) => Comes(r, k)
    BY <1>3, <1>5 DEF Comes
  <1> QED
    BY <1>4, <1>6

\* The first operation is over.
LEMMA GoneFirst ==
    ASSUME NEW q \in Seq(Operations), q # <<>>, NEW r, r = Tail(q),
           NEW known, NEW live, NEW token, NEW parked, InOrder(q, known, live, token, parked),
           NEW live2, NEW token2, NEW parked2
    PROVE  /\ InOrder(r, known, live2, token2, parked2)
           /\ Harmless(q[1]) => \A k : Comes(q, k) => Comes(r, k)
  <1>1. Len(q) \in Nat /\ DOMAIN q = 1..Len(q) /\ 1 \in 1..Len(q)
    BY EmptySeq, LenProperties
  <1>2. /\ r \in Seq(Operations) /\ Len(r) = Len(q) - 1 /\ DOMAIN r = 1..Len(q) - 1
        /\ \A j \in 1..Len(r) : r[j] = q[j + 1]
    BY <1>1, HeadTailProperties, LenProperties
  <1>3. \A j \in DOMAIN r : j + 1 \in DOMAIN q /\ r[j] = q[j + 1] /\ j + 1 # 1 /\ j \in Nat
    BY <1>1, <1>2
  <1>4. \A j \in DOMAIN r : Waits(r[j], known)
    BY <1>3 DEF InOrder
  <1>5. r # <<>> => 1 \in DOMAIN r
    BY <1>1, <1>2, EmptySeq
  <1>6. InOrder(r, known, live2, token2, parked2)
    BY <1>4, <1>5, WaitingIsSound DEF InOrder
  <1>7. ASSUME Harmless(q[1]), NEW k, Comes(q, k) PROVE Comes(r, k)
    <2>1. PICK i \in DOMAIN q : /\ Settles(q[i], k)
                                /\ \A j \in DOMAIN q : j < i => Harmless(q[j])
      BY <1>7 DEF Comes
    <2>2. i # 1
      BY <1>7, <2>1 DEF Settles, Harmless
    <2>3. i - 1 \in DOMAIN r /\ r[i - 1] = q[i] /\ i \in Nat
      BY <1>1, <1>2, <2>2
    <2>4. ASSUME NEW j \in DOMAIN r, j < i - 1 PROVE Harmless(r[j])
      <3>1. j + 1 \in DOMAIN q /\ r[j] = q[j + 1] /\ j + 1 < i
        BY <1>3, <2>3, <2>4
      <3> QED
        BY <2>1, <3>1
    <2> QED
      BY <2>1, <2>3, <2>4 DEF Comes
  <1> QED
    BY <1>6, <1>7

\* Once something else runs, the operation that settles the token runs.
LEMMA ComesNow ==
    ASSUME NEW q \in Seq(Operations), q # <<>>, ~Harmless(q[1]), NEW k, Comes(q, k)
    PROVE  Settles(q[1], k)
  <1>1. Len(q) \in Nat /\ DOMAIN q = 1..Len(q) /\ 1 \in DOMAIN q
    BY EmptySeq, LenProperties
  <1>2. PICK i \in DOMAIN q : /\ Settles(q[i], k)
                              /\ \A j \in DOMAIN q : j < i => Harmless(q[j])
    BY DEF Comes
  <1>3. i = 1
    BY <1>1, <1>2
  <1> QED
    BY <1>2, <1>3

\* More tokens are issued and some are revoked.
LEMMA LaterInOrder ==
    ASSUME NEW q, NEW known, NEW live, NEW token, NEW parked,
           InOrder(q, known, live, token, parked), None \notin live,
           NEW known2, NEW live2, known \subseteq known2, live2 \cap known \subseteq live,
           None \notin live2, Elements(parked) \subseteq known
    PROVE  InOrder(q, known2, live2, token, parked)
  <1>1. \A i \in DOMAIN q : i # 1 => Waits(q[i], known2)
    BY DEF InOrder, Waits
  <1>2. q # <<>> => Sound(q[1], known2, live2, token, parked)
    BY SoundLater DEF InOrder
  <1> QED
    BY <1>1, <1>2 DEF InOrder

-----------------------------------------------------------------------------
(* The inductive invariant *)

\* The keyring has answered, no session check has failed, and the list of
\* failed revocations has room.
Quiet == spent["locked"] = 0 /\ spent["offline"] = 0 /\ Cardinality(issued) <= MaxPending

\* The app has just started.
Starting == queue = <<>> /\ store.state = "idle" /\ store.token = None

QueueInOrder == InOrder(queue, issued, valid, keyring.token, keyring.parked)

Listed == Once(keyring.parked) /\ Elements(keyring.parked) \subseteq issued

\* A stored token that is still to revoke is reached before it is removed.
Covered ==
    keyring.token \in signedOut =>
        \/ Safe(keyring.token, valid, keyring.parked)
        \/ Starting
        \/ Comes(queue, keyring.token)

AllKept == \A t \in signedOut \cap valid : Kept(t)

Good == QueueInOrder /\ Listed /\ Covered /\ store.state # "error" /\ AllKept

\* Holds in every state, with IInv: what is listed is also finite.
JInv == IsFiniteSet(issued) /\ (Quiet => Good)

LEMMA JInvInit == Init => JInv
  <1> SUFFICES ASSUME Init PROVE JInv
    OBVIOUS
  <1>1. PICK t \in Stored : /\ keyring = [token |-> t, parked |-> <<>>]
                            /\ valid = {t} \ {None} /\ issued = {t} \ {None}
    BY DEF Init
  <1>2. /\ queue = <<>> /\ store.state = "idle" /\ store.token = None
        /\ tombstone \in [server : {FALSE}, legacy : BOOLEAN]
        /\ signedOut = IF tombstone.legacy THEN issued ELSE {}
    BY DEF Init
  <1>3. IsFiniteSet(issued)
    <2>1. issued = {} \/ issued = {t}
      BY <1>1
    <2>2. IsFiniteSet({}) /\ IsFiniteSet({t})
      BY FS_EmptySet, FS_Singleton
    <2> QED
      BY <2>1, <2>2
  <1>4. QueueInOrder
    BY <1>2 DEF QueueInOrder, InOrder
  <1>5. Listed
    BY <1>1, EmptyList DEF Listed
  <1>6. Covered
    BY <1>2 DEF Covered, Starting
  <1>7. AllKept
    BY <1>1, <1>2 DEF AllKept, Kept, LogoutPending
  <1> QED
    BY <1>2, <1>3, <1>4, <1>5, <1>6, <1>7 DEF JInv, Good

\* What the invariant of DesktopSessionProofs says of the tokens.
LEMMA KnownTokens ==
    ASSUME IInv
    PROVE  /\ None \notin valid /\ None \notin issued /\ None \notin signedOut
           /\ signedOut \subseteq issued /\ issued \subseteq Tokens
           /\ keyring.token \in issued \cup {None} /\ store.token \in issued \cup {None}
           /\ keyring.token \in OrNone /\ store.token \in OrNone
           /\ keyring.parked \in Seq(Tokens)
           /\ queue \in Seq(Operations)
  BY NoneAssumption DEF IInv, Rest, Known, Held, InLine, Line, Stores

\* Steps that put operations behind the queue and leave the keyring alone.
LEMMA ExtendKeeps ==
    ASSUME IInv, IInv', Good, Extends(queue', queue, issued'), keyring' = keyring,
           issued \subseteq issued', valid' \cap issued \subseteq valid,
           LogoutPending => LogoutPending', store'.state # "error",
           signedOut \subseteq signedOut',
           \A t \in signedOut' \ signedOut :
              t \in valid' => t = keyring.token /\ Comes(queue', t) /\ LogoutPending',
           Starting /\ keyring.token \in signedOut =>
              Starting' \/ Comes(queue', keyring.token)
    PROVE  Good'
  <1>1. /\ None \notin valid /\ signedOut \subseteq issued
        /\ Elements(keyring.parked) \subseteq issued
    BY KnownTokens DEF Good, Listed
  <1>9. None \notin valid'
    BY NoneAssumption DEF IInv, Rest
  <1>2. InOrder(queue, issued', valid', keyring.token, keyring.parked)
    <2>1. InOrder(queue, issued, valid, keyring.token, keyring.parked)
      BY DEF Good, QueueInOrder
    <2> QED
      BY <1>1, <1>9, <2>1, LaterInOrder
  <1>3. /\ InOrder(queue', issued', valid', keyring.token, keyring.parked)
        /\ \A k : Comes(queue, k) => Comes(queue', k)
    BY <1>2, ExtendedKeeps
  <1>4. QueueInOrder'
    BY <1>3 DEF QueueInOrder
  <1>5. Listed'
    BY DEF Good, Listed
  <1>6. \A t \in issued : Safe(t, valid, keyring.parked) => Safe(t, valid', keyring.parked)
    BY DEF Safe
  <1>7. Covered'
    <2> SUFFICES ASSUME keyring.token \in signedOut'
                 PROVE  \/ Safe(keyring.token, valid', keyring.parked)
                        \/ Starting'
                        \/ Comes(queue', keyring.token)
      BY DEF Covered
    <2>1. CASE keyring.token \notin signedOut
      BY <2>1 DEF Safe
    <2>2. CASE keyring.token \in signedOut
      BY <1>1, <1>3, <1>6, <2>2 DEF Good, Covered
    <2> QED
      BY <2>1, <2>2
  <1>8. AllKept'
    <2> SUFFICES ASSUME NEW t \in signedOut' \cap valid' PROVE Kept(t)'
      BY DEF AllKept
    <2>1. CASE t \notin signedOut
      BY <2>1 DEF Kept
    <2>2. CASE t \in signedOut
      <3>1. t \in valid
        BY <1>1, <2>2
      <3>2. Kept(t)
        BY <2>2, <3>1 DEF Good, AllKept
      <3> QED
        BY <3>2 DEF Kept
    <2> QED
      BY <2>1, <2>2
  <1> QED
    BY <1>4, <1>5, <1>7, <1>8 DEF Good

\* Every step of the queue keeps what is listed, but for revoked tokens, and
\* takes only a token from the keyring that is safe.
KeepsTokens ==
    /\ Once(keyring'.parked) /\ Elements(keyring'.parked) \subseteq issued
    /\ Elements(keyring.parked) \cap valid' \subseteq Elements(keyring'.parked)
    /\ \/ keyring'.token = keyring.token /\ (LogoutPending => LogoutPending')
       \/ /\ keyring'.token \notin signedOut
          /\ keyring.token \in signedOut => Safe(keyring.token, valid, keyring.parked)
    /\ signedOut' = signedOut /\ issued' = issued /\ valid' \subseteq valid

LEMMA KeptOn ==
    ASSUME Good, KeepsTokens
    PROVE  AllKept' /\ Listed'
  <1>1. Listed'
    BY DEF KeepsTokens, Listed
  <1>2. AllKept'
    <2> SUFFICES ASSUME NEW t \in signedOut \cap valid' PROVE Kept(t)'
      BY DEF AllKept, KeepsTokens
    <2>1. t \in valid /\ Kept(t)
      BY DEF Good, AllKept, KeepsTokens
    <2>2. CASE t \in Elements(keyring.parked)
      BY <2>2 DEF Kept, KeepsTokens
    <2>3. CASE keyring.token = t /\ LogoutPending /\ t \notin Elements(keyring.parked)
      <3>1. ~Safe(keyring.token, valid, keyring.parked)
        BY <2>1, <2>3 DEF Safe
      <3> QED
        BY <2>3, <3>1 DEF Kept, KeepsTokens
    <2> QED
      BY <2>1, <2>2, <2>3 DEF Kept
  <1> QED
    BY <1>1, <1>2

\* The operation that runs goes on to another step.
LEMMA OnwardKeeps ==
    ASSUME IInv, Good, queue # <<>>, KeepsTokens, store' = store,
           NEW o \in Operations, Succeeds(queue', queue, o),
           o.kind = op.kind, o.token = op.token, Harmless(op) => Harmless(o),
           Sound(o, issued, valid', keyring'.token, keyring'.parked)
    PROVE  Good'
  <1>1. AllKept' /\ Listed'
    BY KeptOn
  <1>2. op = queue[1] /\ queue \in Seq(Operations)
    BY HeadFacts, KnownTokens
  <1>3. InOrder(queue, issued, valid, keyring.token, keyring.parked)
    BY DEF Good, QueueInOrder
  <1>4. /\ InOrder(queue', issued, valid', keyring'.token, keyring'.parked)
        /\ \A k : Comes(queue, k) => Comes(queue', k)
    <2>1. o.kind = queue[1].kind /\ o.token = queue[1].token
      BY <1>2
    <2>2. Harmless(queue[1]) => Harmless(o)
      BY <1>2
    <2> QED
      BY <1>2, <1>3, <2>1, <2>2, GoneOn
  <1>5. QueueInOrder'
    BY <1>4 DEF QueueInOrder, KeepsTokens
  <1>6. Covered'
    <2> SUFFICES ASSUME keyring'.token \in signedOut
                 PROVE  \/ Safe(keyring'.token, valid', keyring'.parked)
                        \/ Comes(queue', keyring'.token)
      BY DEF Covered, KeepsTokens
    <2>1. keyring'.token = keyring.token
      BY DEF KeepsTokens
    <2>2. \/ Safe(keyring.token, valid, keyring.parked)
          \/ Comes(queue, keyring.token)
      BY <2>1 DEF Good, Covered, Starting
    <2>3. Safe(keyring.token, valid, keyring.parked) =>
              Safe(keyring.token, valid', keyring'.parked)
      BY DEF Safe, KeepsTokens
    <2> QED
      BY <1>4, <2>1, <2>2, <2>3
  <1> QED
    BY <1>1, <1>5, <1>6 DEF Good

\* The operation that runs is over.
LEMMA OverKeeps ==
    ASSUME IInv, Good, queue # <<>>, KeepsTokens, store'.state # "error",
           queue' = Tail(queue), Harmless(op) \/ keyring'.token \notin signedOut
    PROVE  Good'
  <1>1. AllKept' /\ Listed'
    BY KeptOn
  <1>2. op = queue[1] /\ queue \in Seq(Operations)
    BY HeadFacts, KnownTokens
  <1>3. InOrder(queue, issued, valid, keyring.token, keyring.parked)
    BY DEF Good, QueueInOrder
  <1>4. /\ InOrder(queue', issued, valid', keyring'.token, keyring'.parked)
        /\ Harmless(op) => \A k : Comes(queue, k) => Comes(queue', k)
    BY <1>2, <1>3, GoneFirst
  <1>5. QueueInOrder'
    BY <1>4 DEF QueueInOrder, KeepsTokens
  <1>6. Covered'
    <2> SUFFICES ASSUME keyring'.token \in signedOut
                 PROVE  \/ Safe(keyring'.token, valid', keyring'.parked)
                        \/ Comes(queue', keyring'.token)
      BY DEF Covered, KeepsTokens
    <2>1. keyring'.token = keyring.token /\ Harmless(op)
      BY DEF KeepsTokens
    <2>2. \/ Safe(keyring.token, valid, keyring.parked)
          \/ Comes(queue, keyring.token)
      BY <2>1 DEF Good, Covered, Starting
    <2>3. Safe(keyring.token, valid, keyring.parked) =>
              Safe(keyring.token, valid', keyring'.parked)
      BY DEF Safe, KeepsTokens
    <2> QED
      BY <1>4, <2>1, <2>2, <2>3
  <1> QED
    BY <1>1, <1>5, <1>6 DEF Good

\* What takes the token out of the keyring has revoked it or listed it.
LEMMA RemovedIsSafe ==
    ASSUME IInv, Good, queue # <<>>, op.step \in {"remove", "write"}
    PROVE  keyring.token \in signedOut => Safe(keyring.token, valid, keyring.parked)
  <1>1. /\ op = queue[1] /\ queue \in Seq(Operations) /\ Sane(op) /\ None \notin signedOut
    BY HeadFacts, KnownTokens
  <1>2. ~Harmless(queue[1]) /\ (op.step = "write" => op.kind = "signin")
    BY <1>1 DEF Harmless, Sane
  <1>3. Sound(op, issued, valid, keyring.token, keyring.parked)
    BY <1>1 DEF Good, QueueInOrder, InOrder
  <1> SUFFICES ASSUME keyring.token \in signedOut,
                      ~Safe(keyring.token, valid, keyring.parked)
               PROVE  FALSE
    OBVIOUS
  <1>4. Comes(queue, keyring.token)
    BY DEF Good, Covered, Starting
  <1>5. Settles(op, keyring.token)
    BY <1>1, <1>2, <1>4, ComesNow
  <1>6. op.victim = keyring.token /\ op.step = "remove" /\ op.kind \in {"cleanup", "logout"}
    BY <1>2, <1>3, <1>5 DEF Sound, SoundEnd, Settles
  <1> QED
    BY <1>1, <1>3, <1>6 DEF Sound, SoundEnd

-----------------------------------------------------------------------------
(* The steps of the queue *)

\* The operation that runs, and what the invariant says of it.
LEMMA Running ==
    ASSUME IInv, Good, queue # <<>>
    PROVE  /\ op \in Operations /\ Sane(op)
           /\ op.step \in Steps /\ op.kind \in Kinds /\ op.token \in OrNone
           /\ op.victim \in OrNone /\ op.list \in Seq(Tokens) /\ op.left \in Seq(Tokens)
           /\ Sound(op, issued, valid, keyring.token, keyring.parked)
           /\ op = queue[1] /\ 1 \in DOMAIN queue
  <1>1. op = queue[1] /\ 1 \in DOMAIN queue
    BY HeadFacts
  <1> QED
    BY <1>1, TypedHead DEF Good, QueueInOrder, InOrder

\* OnwardKeeps, in the form in which the steps are written.
LEMMA AtKeeps ==
    ASSUME IInv, Good, queue # <<>>, KeepsTokens, store' = store,
           NEW x \in Steps, NEW v \in OrNone, NEW l \in Seq(Tokens), NEW f \in Seq(Tokens),
           Moves(x, v, l, f), op.step = "start" /\ op.kind = "signin" => op.current,
           Sound(At(x, v, l, f), issued, valid', keyring'.token, keyring'.parked)
    PROVE  Good'
  <1>1. op \in Operations
    BY Running
  <1>2. /\ At(x, v, l, f) \in Operations /\ At(x, v, l, f).kind = op.kind
        /\ At(x, v, l, f).token = op.token
    BY <1>1, AtFacts
  <1>3. Harmless(op) => Harmless(At(x, v, l, f))
    BY <1>2 DEF Harmless
  <1>4. Succeeds(queue', queue, At(x, v, l, f))
    BY DEF Moves, Succeeds
  <1> QED
    BY <1>2, <1>3, <1>4, OnwardKeeps

\* What such an operation has to satisfy.
LEMMA SoundAt ==
    ASSUME IInv, Good, queue # <<>>, NEW x \in Steps, NEW v \in OrNone,
           NEW l \in Seq(Tokens), NEW f \in Seq(Tokens), NEW live, NEW token, NEW parked,
           v \in issued \cup {None}, x = "park" => l = parked,
           op.kind = "logout" => /\ x # "start" => v = op.token
                                 /\ x \in {"read", "remove"} => v = None \/ Safe(v, live, parked),
           op.kind = "cleanup" => /\ x \in {"start", "read"} => v = None
                                  /\ x \notin {"start", "read"} => v = token
                                  /\ x = "remove" => v = None \/ Safe(v, live, parked),
           op.kind = "retry" =>
              /\ x \in {"start", "list"} => f = <<>>
              /\ x = "save" => l = <<>>
              /\ x \in {"retry", "save"} =>
                    /\ Once(l) /\ Once(f) /\ Elements(l) \cap Elements(f) = {}
                    /\ Elements(l) \cup Elements(f) \subseteq issued
                    /\ Elements(parked) \cap live \subseteq Elements(l) \cup Elements(f)
    PROVE  Sound(At(x, v, l, f), issued, live, token, parked)
  <1> DEFINE o == At(x, v, l, f)
  <1>1. op \in Operations /\ Sound(op, issued, valid, keyring.token, keyring.parked)
    BY Running
  <1>2. /\ o.kind = op.kind /\ o.token = op.token /\ o.step = x /\ o.victim = v
        /\ o.list = l /\ o.left = f
    BY <1>1 DEF At, Operations
  <1> HIDE DEF o
  <1>3. o.kind = "logout" => o.token \in issued \cup {None}
    BY <1>1, <1>2 DEF Sound
  <1>4. SoundEnd(o, live, token, parked)
    BY <1>2 DEF SoundEnd
  <1>5. o.kind = "retry" => SoundRetry(o, issued, live, parked)
    BY <1>2 DEF SoundRetry
  <1>6. Sound(o, issued, live, token, parked)
    BY <1>2, <1>3, <1>4, <1>5 DEF Sound
  <1> QED
    BY <1>6 DEF o

\* A step that leaves the keyring, the server and the tombstone alone.
LEMMA PlainKeepsTokens ==
    ASSUME Good, keyring' = keyring, LogoutPending => LogoutPending',
           signedOut' = signedOut, issued' = issued, valid' \subseteq valid
    PROVE  KeepsTokens
  BY DEF Good, Listed, KeepsTokens

LEMMA StartGood == ASSUME IInv, Good, Start PROVE Good'
  <1>1. queue # <<>> /\ op.step = "start"
    BY DEF Start, Runs
  <1>2. /\ op.kind \in Kinds /\ op.token \in OrNone
        /\ op.victim \in OrNone /\ op.list \in Seq(Tokens) /\ op.left \in Seq(Tokens)
        /\ Sound(op, issued, valid, keyring.token, keyring.parked)
    BY <1>1, Running
  <1>3. /\ keyring' = keyring /\ signedOut' = signedOut /\ issued' = issued
        /\ valid' = valid
    BY DEF Start, server
  <1>4. CASE op.kind \in {"retry", "cleanup", "remove"}
    <2> DEFINE x == IF op.kind = "retry" THEN "list"
                    ELSE IF op.kind = "cleanup" THEN "read" ELSE "remove"
    <2>1. Goto(x) /\ UNCHANGED <<store, restore, tombstone>>
      BY <1>4 DEF Start
    <2>2. /\ x \in Steps /\ x \in {"list", "read", "remove"}
          /\ op.kind = "retry" <=> x = "list"
          /\ op.kind = "cleanup" <=> x = "read"
      BY <1>4 DEF Steps
    <2> HIDE DEF x
    <2>3. Moves(x, op.victim, op.list, op.left)
      BY <1>1, <2>1, AtForms
    <2>4. KeepsTokens
      BY <1>3, <2>1, PlainKeepsTokens DEF LogoutPending
    <2>5. Sound(At(x, op.victim, op.list, op.left), issued, valid', keyring'.token,
                keyring'.parked)
      <3>1. /\ op.victim \in issued \cup {None}
            /\ op.kind = "cleanup" => op.victim = None
            /\ op.kind = "retry" => op.left = <<>>
        BY <1>1, <1>2 DEF Sound, SoundEnd, SoundRetry
      <3> QED
        BY <1>1, <1>2, <1>4, <2>2, <3>1, SoundAt
    <2> QED
      BY <1>1, <1>2, <1>4, <2>1, <2>2, <2>3, <2>4, <2>5, AtKeeps
  <1>5. CASE op.kind = "logout"
    <2> DEFINE x == IF op.token = None THEN "read" ELSE "revoke"
    <2>1. /\ queue' = [queue EXCEPT ![1].step = x, ![1].victim = op.token]
          /\ UNCHANGED <<store, restore, tombstone>>
      BY <1>5 DEF Start
    <2>2. x \in Steps /\ x \in {"read", "revoke"} /\ (x = "read" => op.token = None)
      BY DEF Steps
    <2> HIDE DEF x
    <2>3. Moves(x, op.token, op.list, op.left)
      BY <1>1, <2>1, AtForms DEF Moves
    <2>4. KeepsTokens
      BY <1>3, <2>1, PlainKeepsTokens DEF LogoutPending
    <2>5. Sound(At(x, op.token, op.list, op.left), issued, valid', keyring'.token,
                keyring'.parked)
      <3>1. op.token \in issued \cup {None}
        BY <1>2, <1>5 DEF Sound
      <3> QED
        BY <1>1, <1>2, <1>5, <2>2, <3>1, SoundAt
    <2> QED
      BY <1>1, <1>2, <1>5, <2>1, <2>2, <2>3, <2>4, <2>5, AtKeeps
  <1>6. CASE op.kind = "signin" /\ ~op.current
    <2>1. Abort /\ UNCHANGED tombstone
      BY <1>6 DEF Start
    <2>2. queue' = Tail(queue) /\ store' = store
      BY <1>6, <2>1 DEF Abort
    <2>3. KeepsTokens
      BY <1>3, <2>1, PlainKeepsTokens DEF LogoutPending
    <2>4. Harmless(op) /\ store'.state # "error"
      BY <1>1, <1>6, <2>2 DEF Harmless, Good
    <2> QED
      BY <1>1, <2>2, <2>3, <2>4, OverKeeps
  <1>7. CASE op.kind = "signin" /\ op.current
    <2> DEFINE x == IF tombstone.legacy THEN "read" ELSE "write"
    <2>1. /\ Goto(x) /\ store' = store
          /\ tombstone' \in {tombstone, [tombstone EXCEPT !.server = TRUE]}
      BY <1>7 DEF Start, StartWrite
    <2>2. x \in Steps /\ x \in {"read", "write"}
      BY DEF Steps
    <2> HIDE DEF x
    <2>3. Moves(x, op.victim, op.list, op.left)
      BY <1>1, <2>1, AtForms
    <2>4. LogoutPending => LogoutPending'
      BY <2>1 DEF LogoutPending, IInv, Rest
    <2>5. KeepsTokens
      BY <1>3, <2>4, PlainKeepsTokens
    <2>6. Sound(At(x, op.victim, op.list, op.left), issued, valid', keyring'.token,
                keyring'.parked)
      <3>1. op.victim \in issued \cup {None}
        BY <1>2 DEF Sound
      <3> QED
        BY <1>1, <1>2, <1>7, <2>2, <3>1, SoundAt
    <2> QED
      BY <1>1, <1>2, <1>7, <2>1, <2>2, <2>3, <2>5, <2>6, AtKeeps
  <1> QED
    BY <1>2, <1>4, <1>5, <1>6, <1>7 DEF Kinds

LEMMA ReadGood == ASSUME IInv, Good, ReadToken PROVE Good'
  <1>1. queue # <<>> /\ op.step = "read"
    BY DEF ReadToken, Runs
  <1>2. /\ op.victim \in OrNone /\ op.list \in Seq(Tokens) /\ op.left \in Seq(Tokens)
        /\ Sound(op, issued, valid, keyring.token, keyring.parked)
        /\ op.kind # "retry"
    BY <1>1, Running DEF Sane
  <1>3. /\ keyring' = keyring /\ signedOut' = signedOut /\ issued' = issued
        /\ valid' = valid /\ store' = store /\ tombstone' = tombstone
    BY DEF ReadToken, server
  <1>4. KeepsTokens
    BY <1>3, PlainKeepsTokens DEF LogoutPending
  <1>5. CASE keyring.token = None \/ op.kind = "logout"
    <2>1. Goto("remove") /\ "remove" \in Steps
      BY <1>5 DEF ReadToken, Goto, Steps
    <2>2. Moves("remove", op.victim, op.list, op.left)
      BY <1>1, <2>1, AtForms
    <2>3. Sound(At("remove", op.victim, op.list, op.left), issued, valid', keyring'.token,
                keyring'.parked)
      <3>1. /\ op.victim \in issued \cup {None}
            /\ op.kind = "logout" => /\ op.victim = op.token
                                     /\ \/ op.victim = None
                                        \/ Safe(op.victim, valid, keyring.parked)
            /\ op.kind = "cleanup" => op.victim = None
        BY <1>1, <1>2 DEF Sound, SoundEnd
      <3> QED
        BY <1>1, <1>2, <1>3, <1>5, <2>1, <3>1, SoundAt
    <2> QED
      BY <1>1, <1>2, <1>3, <1>4, <2>1, <2>2, <2>3, AtKeeps
  <1>6. CASE ~(keyring.token = None \/ op.kind = "logout")
    <2>1. queue' = [queue EXCEPT ![1].step = "revoke", ![1].victim = keyring.token]
      BY <1>6 DEF ReadToken
    <2>2. Moves("revoke", keyring.token, op.list, op.left) /\ "revoke" \in Steps
      BY <1>1, <2>1, AtForms DEF Moves, Steps
    <2>3. keyring.token \in issued \cup {None} /\ keyring.token \in OrNone
      BY KnownTokens
    <2>4. Sound(At("revoke", keyring.token, op.list, op.left), issued, valid',
                keyring'.token, keyring'.parked)
      BY <1>1, <1>2, <1>3, <1>6, <2>2, <2>3, SoundAt
    <2> QED
      BY <1>1, <1>2, <1>3, <1>4, <2>2, <2>3, <2>4, AtKeeps
  <1> QED
    BY <1>5, <1>6

\* The server has revoked the token, or it is on the list.
LEMMA AfterRevokeGood ==
    ASSUME IInv, Good, queue # <<>>, op.step \in {"revoke", "park"}, Goto(AfterRevoke),
           KeepsTokens, store' = store, keyring'.token = keyring.token,
           Safe(op.victim, valid', keyring'.parked)
    PROVE  Good'
  <1>1. /\ op.victim \in OrNone /\ op.list \in Seq(Tokens) /\ op.left \in Seq(Tokens)
        /\ Sound(op, issued, valid, keyring.token, keyring.parked)
        /\ op.kind # "retry"
    BY Running DEF Sane
  <1> DEFINE x == AfterRevoke
  <1>2. x \in Steps /\ x = IF op.kind = "logout" THEN "read" ELSE "remove"
    BY DEF AfterRevoke, Steps
  <1>3. Moves(x, op.victim, op.list, op.left)
    BY AtForms
  <1> HIDE DEF x
  <1>4. /\ op.victim \in issued \cup {None}
        /\ op.kind = "logout" => op.victim = op.token
        /\ op.kind = "cleanup" => op.victim = keyring.token
    BY <1>1 DEF Sound, SoundEnd
  <1>5. Sound(At(x, op.victim, op.list, op.left), issued, valid', keyring'.token,
              keyring'.parked)
    BY <1>1, <1>2, <1>4, SoundAt
  <1> QED
    BY <1>1, <1>2, <1>3, <1>5, AtKeeps

LEMMA RevokeGood == ASSUME IInv, Good, Revoke PROVE Good'
  <1>1. /\ queue # <<>> /\ op.step = "revoke" /\ Goto(AfterRevoke)
        /\ keyring' = keyring /\ signedOut' = signedOut /\ issued' = issued
        /\ valid' = valid \ {op.victim} /\ store' = store /\ tombstone' = tombstone
    BY DEF Revoke, Runs
  <1>2. KeepsTokens
    BY <1>1, PlainKeepsTokens DEF LogoutPending
  <1>3. Safe(op.victim, valid', keyring'.parked)
    BY <1>1 DEF Safe
  <1> QED
    BY <1>1, <1>2, <1>3, AfterRevokeGood

LEMMA RevokeFailsGood == ASSUME IInv, Good, RevokeFails PROVE Good'
  <1>1. /\ queue # <<>> /\ op.step = "revoke" /\ Goto("parked") /\ "parked" \in Steps
        /\ keyring' = keyring /\ signedOut' = signedOut /\ issued' = issued
        /\ valid' \subseteq valid /\ store' = store /\ tombstone' = tombstone
    BY DEF RevokeFails, Runs, Steps
  <1>2. /\ op.victim \in OrNone /\ op.list \in Seq(Tokens) /\ op.left \in Seq(Tokens)
        /\ Sound(op, issued, valid, keyring.token, keyring.parked)
        /\ op.kind # "retry"
    BY <1>1, Running DEF Sane
  <1>3. KeepsTokens
    BY <1>1, PlainKeepsTokens DEF LogoutPending
  <1>4. Moves("parked", op.victim, op.list, op.left)
    BY <1>1, AtForms
  <1>5. /\ op.victim \in issued \cup {None}
        /\ op.kind = "logout" => op.victim = op.token
        /\ op.kind = "cleanup" => op.victim = keyring.token
    BY <1>1, <1>2 DEF Sound, SoundEnd
  <1>6. Sound(At("parked", op.victim, op.list, op.left), issued, valid', keyring'.token,
              keyring'.parked)
    BY <1>1, <1>2, <1>5, SoundAt
  <1> QED
    BY <1>1, <1>2, <1>3, <1>4, <1>6, AtKeeps

LEMMA ReadParkedGood == ASSUME IInv, Good, ReadParked PROVE Good'
  <1>1. /\ queue # <<>> /\ op.step \in {"list", "parked"}
        /\ keyring' = keyring /\ signedOut' = signedOut /\ issued' = issued
        /\ valid' = valid /\ store' = store /\ tombstone' = tombstone
    BY DEF ReadParked, Runs, server
  <1>2. /\ op.victim \in OrNone /\ op.list \in Seq(Tokens) /\ op.left \in Seq(Tokens)
        /\ Sound(op, issued, valid, keyring.token, keyring.parked)
        /\ op.kind = "retry" <=> op.step = "list"
        /\ op = queue[1] /\ 1 \in DOMAIN queue
    BY <1>1, Running DEF Sane
  <1>3. KeepsTokens
    BY <1>1, PlainKeepsTokens DEF LogoutPending
  <1>4. CASE op.step = "list" /\ keyring.parked = <<>>
    <2>1. queue' = Tail(queue)
      BY <1>4 DEF ReadParked
    <2>2. Harmless(op) /\ store'.state # "error"
      BY <1>1, <1>2, <1>4 DEF Harmless, Good
    <2> QED
      BY <1>1, <1>3, <2>1, <2>2, OverKeeps
  <1>5. CASE ~(op.step = "list" /\ keyring.parked = <<>>)
    <2> DEFINE x == IF op.step = "list" THEN "retry" ELSE "park"
    <2>1. queue' = [queue EXCEPT ![1].step = x, ![1].list = keyring.parked]
      BY <1>2, <1>5 DEF ReadParked
    <2>2. x \in Steps /\ x \in {"retry", "park"} /\ (x = "retry" <=> op.kind = "retry")
      BY <1>2 DEF Steps
    <2> HIDE DEF x
    <2>3. Moves(x, op.victim, keyring.parked, op.left) /\ keyring.parked \in Seq(Tokens)
      BY <1>1, <2>1, AtForms, KnownTokens DEF Moves
    <2>4. Sound(At(x, op.victim, keyring.parked, op.left), issued, valid', keyring'.token,
                keyring'.parked)
      <3>1. /\ op.victim \in issued \cup {None}
            /\ op.kind = "logout" => op.victim = op.token
            /\ op.kind = "cleanup" => op.victim = keyring.token
            /\ op.kind = "retry" => op.left = <<>>
        BY <1>1, <1>2 DEF Sound, SoundEnd, SoundRetry
      <3>2. Once(keyring.parked) /\ Elements(keyring.parked) \subseteq issued
        BY DEF Good, Listed
      <3>3. op.kind = "retry" => Once(op.left) /\ Elements(op.left) = {}
        BY <3>1, EmptyList
      <3>4. op.kind = "retry" =>
              /\ x = "retry"
              /\ Once(keyring.parked) /\ Once(op.left)
              /\ Elements(keyring.parked) \cap Elements(op.left) = {}
              /\ Elements(keyring.parked) \cup Elements(op.left) \subseteq issued
              /\ Elements(keyring.parked) \cap valid'
                    \subseteq Elements(keyring.parked) \cup Elements(op.left)
        BY <2>2, <3>2, <3>3
      <3>5. x \in {"retry", "park"} /\ keyring' = keyring
        BY <1>1, <2>2
      <3> QED
        BY <1>1, <1>2, <2>2, <2>3, <3>1, <3>4, <3>5, SoundAt
    <2> QED
      BY <1>1, <1>2, <1>3, <2>2, <2>3, <2>4, AtKeeps
  <1> QED
    BY <1>4, <1>5

LEMMA ParkGood ==
    ASSUME IInv, Good, ParkToken, IsFiniteSet(issued), Cardinality(issued) <= MaxPending
    PROVE  Good'
  <1>1. /\ queue # <<>> /\ op.step = "park" /\ Goto(AfterRevoke)
        /\ signedOut' = signedOut /\ issued' = issued
        /\ valid' = valid /\ store' = store /\ tombstone' = tombstone
        /\ keyring' = [keyring EXCEPT !.parked = Park(op.list, op.victim)]
    BY DEF ParkToken, Runs, server
  <1>2. keyring'.token = keyring.token /\ keyring'.parked = Park(op.list, op.victim)
    BY <1>1 DEF IInv, Rest
  <1>3. /\ op.victim \in OrNone /\ op.victim # None
        /\ Sound(op, issued, valid, keyring.token, keyring.parked)
    BY <1>1, Running DEF Sane
  <1>4. op.victim \in Tokens /\ op.victim \in issued /\ op.list = keyring.parked
    BY <1>1, <1>3 DEF Sound, OrNone
  <1>5. /\ keyring.parked \in Seq(Tokens) /\ Once(keyring.parked)
        /\ Elements(keyring.parked) \subseteq issued
    BY KnownTokens DEF Good, Listed
  <1>6. /\ Elements(keyring'.parked) = Elements(keyring.parked) \cup {op.victim}
        /\ Once(keyring'.parked)
    BY <1>2, <1>4, <1>5, ParkKeepsAll
  <1>7. KeepsTokens
    BY <1>1, <1>2, <1>4, <1>5, <1>6 DEF KeepsTokens, LogoutPending
  <1>8. Safe(op.victim, valid', keyring'.parked)
    BY <1>6 DEF Safe
  <1> QED
    BY <1>1, <1>2, <1>7, <1>8, AfterRevokeGood

LEMMA RetryGood ==
    ASSUME IInv, Good, NEW fails \in BOOLEAN, RetryRevoke(fails)
    PROVE  Good'
  <1> DEFINE t == Head(op.list)
             x == IF Len(op.list) = 1 THEN "save" ELSE "retry"
             f == IF fails THEN Append(op.left, t) ELSE op.left
  <1>1. /\ queue # <<>> /\ op.step = "retry"
        /\ valid' \subseteq valid /\ (~fails => t \notin valid')
        /\ queue' = [queue EXCEPT ![1].step = IF Len(op.list) = 1 THEN "save" ELSE @,
                                  ![1].list = Tail(@),
                                  ![1].left = IF fails THEN Append(@, t) ELSE @]
        /\ keyring' = keyring /\ signedOut' = signedOut /\ issued' = issued
        /\ store' = store /\ tombstone' = tombstone
    BY DEF RetryRevoke, Runs
  <1>2. /\ op.victim \in OrNone /\ op.list \in Seq(Tokens) /\ op.left \in Seq(Tokens)
        /\ Sound(op, issued, valid, keyring.token, keyring.parked)
        /\ op.kind = "retry" /\ op.list # <<>> /\ op = queue[1] /\ 1 \in DOMAIN queue
    BY <1>1, Running DEF Sane
  <1>3. /\ Once(op.list) /\ Once(op.left) /\ Elements(op.list) \cap Elements(op.left) = {}
        /\ Elements(op.list) \cup Elements(op.left) \subseteq issued
        /\ Elements(keyring.parked) \cap valid \subseteq Elements(op.list) \cup Elements(op.left)
        /\ op.victim \in issued \cup {None}
    BY <1>1, <1>2 DEF Sound, SoundRetry
  <1>4. /\ Elements(op.list) = {t} \cup Elements(Tail(op.list))
        /\ t \notin Elements(Tail(op.list)) /\ Once(Tail(op.list))
        /\ t \in Tokens /\ Tail(op.list) \in Seq(Tokens)
        /\ Len(op.list) = 1 => Tail(op.list) = <<>>
    BY <1>2, <1>3, HeadAndRest
  <1>5. queue' = Retried(x, Tail(op.list), f)
    BY <1>1, <1>2 DEF Retried
  <1>6. /\ x \in Steps /\ x \in {"save", "retry"}
        /\ x = "save" => Tail(op.list) = <<>>
    BY <1>4 DEF Steps
  <1> HIDE DEF t, x
  <1>7. /\ f \in Seq(Tokens) /\ Once(f)
        /\ Elements(f) = IF fails THEN Elements(op.left) \cup {t} ELSE Elements(op.left)
    <2>1. CASE fails
      <3>1. t \notin Elements(op.left)
        BY <1>3, <1>4
      <3> QED
        BY <1>2, <1>3, <1>4, <2>1, <3>1, Appended
    <2>2. CASE ~fails
      BY <1>2, <1>3, <2>2
    <2> QED
      BY <2>1, <2>2
  <1> HIDE DEF f
  <1>8. Moves(x, op.victim, Tail(op.list), f)
    <2>1. queue # <<>>
      BY <1>1
    <2>2. Retried(x, Tail(op.list), f) = [queue EXCEPT ![1] = At(x, op.victim, Tail(op.list), f)]
      BY <2>1, AtFormOfRetry
    <2> QED
      BY <1>5, <2>2 DEF Moves
  <1>9. KeepsTokens
    BY <1>1, PlainKeepsTokens DEF LogoutPending
  <1>10. /\ Once(Tail(op.list)) /\ Once(f) /\ Elements(Tail(op.list)) \cap Elements(f) = {}
         /\ Elements(Tail(op.list)) \cup Elements(f) \subseteq issued
         /\ Elements(keyring.parked) \cap valid' \subseteq Elements(Tail(op.list)) \cup Elements(f)
    BY <1>1, <1>3, <1>4, <1>7
  <1>11. Sound(At(x, op.victim, Tail(op.list), f), issued, valid', keyring'.token,
               keyring'.parked)
    BY <1>1, <1>2, <1>3, <1>4, <1>6, <1>7, <1>10, SoundAt
  <1> QED
    BY <1>1, <1>2, <1>4, <1>6, <1>7, <1>8, <1>9, <1>11, AtKeeps

LEMMA SaveGood == ASSUME IInv, Good, SaveParked PROVE Good'
  <1>1. /\ queue # <<>> /\ op.step = "save" /\ queue' = Tail(queue)
        /\ keyring' = [keyring EXCEPT !.parked = op.left]
        /\ signedOut' = signedOut /\ issued' = issued
        /\ valid' = valid /\ store' = store /\ tombstone' = tombstone
    BY DEF SaveParked, Runs, server
  <1>2. keyring'.token = keyring.token /\ keyring'.parked = op.left
    BY <1>1 DEF IInv, Rest
  <1>3. /\ Sound(op, issued, valid, keyring.token, keyring.parked) /\ op.kind = "retry"
    BY <1>1, Running DEF Sane
  <1>4. /\ Once(op.left) /\ Elements(op.left) \subseteq issued /\ op.list = <<>>
        /\ Elements(keyring.parked) \cap valid \subseteq Elements(op.list) \cup Elements(op.left)
    BY <1>1, <1>3 DEF Sound, SoundRetry
  <1>5. Elements(keyring.parked) \cap valid \subseteq Elements(op.left)
    BY <1>4, EmptyList
  <1>6. KeepsTokens
    BY <1>1, <1>2, <1>4, <1>5 DEF KeepsTokens, LogoutPending
  <1>7. Harmless(op) /\ store'.state # "error"
    BY <1>1, <1>3 DEF Harmless, Good
  <1> QED
    BY <1>1, <1>6, <1>7, OverKeeps

\* A step that puts another token, or none, into the keyring.
LEMMA ReplacedTokens ==
    ASSUME IInv, Good, queue # <<>>, op.step \in {"remove", "write"}, NEW t,
           keyring' = [keyring EXCEPT !.token = t], t \notin signedOut,
           signedOut' = signedOut, issued' = issued, valid' = valid
    PROVE  KeepsTokens /\ keyring'.token = t
  <1>1. keyring'.token = t /\ keyring'.parked = keyring.parked
    BY DEF IInv, Rest
  <1>2. keyring.token \in signedOut => Safe(keyring.token, valid, keyring.parked)
    BY RemovedIsSafe
  <1> QED
    BY <1>1, <1>2 DEF KeepsTokens, Good, Listed

LEMMA RemoveGood == ASSUME IInv, Good, RemoveToken PROVE Good'
  <1>1. /\ queue # <<>> /\ op.step = "remove"
        /\ keyring' = [keyring EXCEPT !.token = None]
        /\ signedOut' = signedOut /\ issued' = issued /\ valid' = valid
    BY DEF RemoveToken, Runs, server
  <1>2. /\ op.victim \in OrNone /\ op.list \in Seq(Tokens) /\ op.left \in Seq(Tokens)
        /\ Sound(op, issued, valid, keyring.token, keyring.parked) /\ op.kind \in Kinds
        /\ op.kind # "retry"
    BY <1>1, Running DEF Sane
  <1>3. None \notin signedOut
    BY KnownTokens
  <1>4. KeepsTokens /\ keyring'.token = None
    BY <1>1, <1>3, ReplacedTokens
  <1>5. CASE op.kind = "signin"
    <2>1. Goto("write") /\ store' = store /\ "write" \in Steps
      BY <1>5 DEF RemoveToken, StartWrite, Steps
    <2>2. Moves("write", op.victim, op.list, op.left)
      BY <1>1, <2>1, AtForms
    <2>3. Sound(At("write", op.victim, op.list, op.left), issued, valid', keyring'.token,
                keyring'.parked)
      <3>1. op.victim \in issued \cup {None}
        BY <1>2 DEF Sound
      <3> QED
        BY <1>1, <1>2, <1>5, <2>1, <3>1, SoundAt
    <2> QED
      BY <1>1, <1>2, <1>4, <2>1, <2>2, <2>3, AtKeeps
  <1>6. CASE op.kind # "signin"
    <2>1. Finish
      BY <1>6 DEF RemoveToken
    <2>2. store'.state # "error"
      BY <1>2, <1>6, <2>1 DEF Finish, Kinds, Good, IInv, Rest, Stores
    <2>3. queue' = Tail(queue)
      BY <2>1 DEF Finish
    <2> QED
      BY <1>1, <1>3, <1>4, <2>2, <2>3, OverKeeps
  <1> QED
    BY <1>5, <1>6

LEMMA WriteGood == ASSUME IInv, Good, WriteToken PROVE Good'
  <1>1. /\ queue # <<>> /\ op.step = "write"
        /\ keyring' = [keyring EXCEPT !.token = op.token]
        /\ signedOut' = signedOut /\ issued' = issued /\ valid' = valid
    BY DEF WriteToken, Runs, server
  <1>2. op.kind = "signin"
    BY <1>1, Running DEF Sane
  <1>3. op.token \notin signedOut
    BY <1>1, <1>2, HeadFacts DEF SignsIn
  <1>4. KeepsTokens /\ keyring'.token = op.token
    BY <1>1, <1>3, ReplacedTokens
  <1>5. queue' = Tail(queue) /\ store'.state # "error"
    <2>1. CASE op.current
      BY <1>2, <2>1 DEF WriteToken, Finish
    <2>2. CASE ~op.current
      BY <2>2 DEF WriteToken, Abort, Good
    <2> QED
      BY <2>1, <2>2
  <1> QED
    BY <1>1, <1>3, <1>4, <1>5, OverKeeps

-----------------------------------------------------------------------------
(* The other steps *)

\* The queue after an invalidation that puts an operation behind it.
LEMMA InvalidatedExtends ==
    ASSUME NEW q \in Seq(Operations), NEW known, NEW o \in Operations, Waits(o, known),
           NEW r, r = Staled(q) \o <<o>>
    PROVE  Extends(r, q, known) /\ Len(r) = Len(q) + 1 /\ r[Len(r)] = o
  <1>1. Extends(Staled(q), q, known)
    BY StaledExtends
  <1>2. Staled(q) \in Seq(Operations)
    BY <1>1 DEF Extends
  <1>3. r = Append(Staled(q), o)
    BY <1>2, ConcatOne
  <1>4. Extends(r, Staled(q), known)
    BY <1>2, <1>3, ExtendedByOne
  <1>5. Extends(r, q, known)
    BY <1>1, <1>4, ExtendsTwice
  <1>6. Len(Staled(q)) = Len(q)
    <2>1. DOMAIN Staled(q) = DOMAIN q
      BY DEF Staled
    <2>2. /\ DOMAIN q = 1..Len(q) /\ DOMAIN Staled(q) = 1..Len(Staled(q))
          /\ Len(q) \in Nat /\ Len(Staled(q)) \in Nat
      BY <1>2, LenProperties
    <2> QED
      BY <2>1, <2>2
  <1>7. Len(r) = Len(q) + 1 /\ r[Len(r)] = o
    BY <1>2, <1>3, <1>6
  <1> QED
    BY <1>5, <1>7

LEMMA OperationWaits ==
    ASSUME NEW k \in Kinds, NEW t \in OrNone, NEW known,
           k = "logout" => t \in known \cup {None}
    PROVE  Waits(Operation(k, t), known)
  BY DEF Waits, Operation

LEMMA SetAuthGood ==
    ASSUME IInv, IInv', Good, NEW t \in Tokens, t \notin issued, issued' = issued \cup {t},
           valid' \subseteq valid \cup {t}, SetAuth(t),
           store.state # "idle" \/ store.token # None
    PROVE  Good'
  <1> DEFINE o == Operation("signin", t)
  <1>1. /\ queue' = Staled(queue) \o <<o>> /\ store' = [store EXCEPT !.state = "loading"]
        /\ keyring' = keyring /\ tombstone' = tombstone /\ signedOut' = signedOut
    BY DEF SetAuth, Invalidate, Staled
  <1>2. o \in Operations /\ Waits(o, issued')
    BY OperationType, OperationWaits DEF Kinds, OrNone
  <1> HIDE DEF o
  <1>3. Extends(queue', queue, issued')
    BY <1>1, <1>2, InvalidatedExtends, KnownTokens
  <1>4. store'.state # "error" /\ ~Starting
    BY <1>1 DEF IInv, Rest, Stores, Starting
  <1>5. LogoutPending => LogoutPending'
    BY <1>1 DEF LogoutPending
  <1>6. issued \subseteq issued' /\ valid' \cap issued \subseteq valid
    OBVIOUS
  <1> QED
    BY <1>1, <1>3, <1>4, <1>5, <1>6, ExtendKeeps

LEMMA LogOutGood == ASSUME IInv, IInv', Good, LogOut PROVE Good'
  <1> DEFINE o == Operation("logout", store.token)
  <1>1. /\ queue' = Staled(queue) \o <<o>> /\ store' = SignedOutStore(TRUE)
        /\ keyring' = keyring /\ tombstone' = [tombstone EXCEPT !.server = TRUE]
        /\ signedOut' = signedOut \cup Ended /\ issued' = issued /\ valid' = valid
    BY DEF LogOut, Invalidate, Staled, server
  <1>2. /\ store.token # None
        /\ store.state = "ready" \/ store.token \notin valid
    BY DEF LogOut, CanLogOut, Good
  <1>3. o \in Operations /\ Waits(o, issued') /\ o.kind = "logout" /\ o.token = store.token
    BY <1>1, OperationType, OperationWaits, KnownTokens DEF Kinds
  <1> HIDE DEF o
  <1>4. /\ Extends(queue', queue, issued') /\ Len(queue') = Len(queue) + 1
        /\ queue'[Len(queue')] = o
    <2>1. queue \in Seq(Operations)
      BY KnownTokens
    <2>2. o \in Operations /\ Waits(o, issued')
      BY <1>3
    <2>3. queue' = Staled(queue) \o <<o>>
      BY <1>1
    <2> QED
      BY ONLY <2>1, <2>2, <2>3, InvalidatedExtends
  <1>5. LogoutPending'
    BY <1>1 DEF LogoutPending, IInv, Rest
  <1>6. store'.state # "error" /\ ~Starting
    BY <1>1, <1>2 DEF SignedOutStore, Starting
  <1>7. signedOut' = signedOut \cup {store.token}
    BY <1>1, <1>2 DEF Ended
  <1>8. CASE Signing(queue)
    \* A sign-in is under way: the token on the screen has been revoked.
    <2>1. store.token \notin valid
      BY <1>2, <1>8 DEF IInv, Engaged
    <2> QED
      BY <1>1, <1>4, <1>5, <1>6, <1>7, <2>1, ExtendKeeps
  <1>9. CASE ~Signing(queue)
    <2>1. keyring.token = store.token /\ ~LogoutPending
      BY <1>2, <1>9 DEF IInv, Backed, Secure
    <2>2. Calm(queue)
      BY <1>9, <2>1 DEF IInv, Guarded
    <2>3. Settles(queue'[Len(queue')], keyring.token)
      BY <1>3, <1>4, <2>1 DEF Settles
    <2>4. Comes(queue', keyring.token)
      BY <1>4, <2>2, <2>3, ComesLast
    <2> QED
      BY <1>1, <1>4, <1>5, <1>6, <1>7, <2>1, <2>4, ExtendKeeps
  <1> QED
    BY <1>8, <1>9

\* The server no longer accepts the token: it is removed without a revocation.
LEMMA ClearedGood ==
    ASSUME IInv, IInv', Good, NEW b \in BOOLEAN,
           queue' = Staled(queue) \o <<Operation("remove", None)>>,
           store' = SignedOutStore(b), store.state # "idle" \/ store.token # None,
           tombstone' = [tombstone EXCEPT !.server = TRUE], keyring' = keyring,
           issued' = issued, valid' = valid, signedOut' = signedOut
    PROVE  Good'
  <1> DEFINE o == Operation("remove", None)
  <1>1. o \in Operations /\ Waits(o, issued')
    BY OperationType, OperationWaits DEF Kinds, OrNone
  <1>2. queue' = Staled(queue) \o <<o>>
    OBVIOUS
  <1> HIDE DEF o
  <1>3. Extends(queue', queue, issued')
    BY <1>1, <1>2, InvalidatedExtends, KnownTokens
  <1>4. LogoutPending'
    BY DEF LogoutPending, IInv, Rest
  <1>5. store'.state # "error" /\ ~Starting
    BY DEF SignedOutStore, Starting
  <1> QED
    BY <1>3, <1>4, <1>5, ExtendKeeps

\* restoreSession queues the cleanup of a token under the tombstone.
LEMMA RestoreSessionGood == ASSUME IInv, IInv', Good, RestoreSession PROVE Good'
  <1> DEFINE o == Operation("retry", None)
             c == Operation("cleanup", None)
             q == Append(queue, o)
  <1>1. /\ o \in Operations /\ Waits(o, issued') /\ Harmless(o)
        /\ c \in Operations /\ Waits(c, issued') /\ c.kind = "cleanup"
    BY OperationType, OperationWaits DEF Kinds, OrNone, Harmless
  <1>2. /\ queue' = q \o IF LogoutPending THEN <<c>> ELSE <<>>
        /\ store' = [store EXCEPT !.state = "loading"]
        /\ keyring' = keyring /\ tombstone' = tombstone /\ issued' = issued
        /\ valid' = valid /\ signedOut' = signedOut
    BY DEF RestoreSession, server
  <1>3. queue \in Seq(Operations)
    BY KnownTokens
  <1> HIDE DEF o, c
  <1>4. Extends(q, queue, issued') /\ q \in Seq(Operations)
    BY <1>1, <1>3, ExtendedByOne
  <1>5. queue = <<>> => Calm(q) /\ Len(q) = 1
    <2> SUFFICES ASSUME queue = <<>> PROVE Calm(q) /\ Len(q) = 1
      OBVIOUS
    <2>1. /\ Len(q) = 1 /\ q[1] = o
      BY <1>1, <1>3
    <2>2. DOMAIN q = {1}
      BY <1>4, <2>1, LenProperties
    <2> QED
      BY <1>1, <2>1, <2>2 DEF Calm
  <1> HIDE DEF q
  <1>6. CASE LogoutPending
    <2>1. queue' = Append(q, c)
      BY <1>1, <1>2, <1>4, <1>6, ConcatOne
    <2>2. /\ Extends(queue', q, issued') /\ Len(queue') = Len(q) + 1
          /\ queue'[Len(queue')] = c
      BY <1>1, <1>4, <2>1, ExtendedByOne
    <2>3. Extends(queue', queue, issued')
      BY <1>4, <2>2, ExtendsTwice
    <2>4. queue = <<>> => Comes(queue', keyring.token)
      BY <1>1, <1>5, <2>2, ComesLast DEF Settles
    <2>5. store'.state # "error"
      BY <1>2 DEF IInv, Rest, Stores
    <2>6. LogoutPending'
      BY <1>2, <1>6 DEF LogoutPending
    <2> QED
      BY <1>2, <2>3, <2>4, <2>5, <2>6, ExtendKeeps DEF Starting
  <1>7. CASE ~LogoutPending
    <2>1. queue' = q
      BY <1>2, <1>4, <1>7, ConcatEmptySeq
    <2>2. store'.state # "error"
      BY <1>2 DEF IInv, Rest, Stores
    <2>3. keyring.token \notin signedOut
      BY <1>7 DEF IInv, Marked
    <2> QED
      BY <1>2, <1>4, <1>7, <2>1, <2>2, <2>3, ExtendKeeps
  <1> QED
    BY <1>6, <1>7

\* Steps that leave the queue and the keyring alone.
LEMMA QuietGood ==
    ASSUME IInv, IInv', Good, queue' = queue, keyring' = keyring, tombstone' = tombstone,
           issued' = issued, signedOut' = signedOut, valid' \subseteq valid,
           store'.state # "error", Starting => Starting'
    PROVE  Good'
  <1>1. Extends(queue', queue, issued')
    BY ExtendsItself, KnownTokens
  <1>2. LogoutPending => LogoutPending'
    BY DEF LogoutPending
  <1> QED
    BY <1>1, <1>2, ExtendKeeps

LEMMA RestoreStepGood ==
    ASSUME IInv, IInv', Good, Quiet, Quiet', RestoreStep
    PROVE  Good'
  <1>1. ~Starting
    <2>1. restore.step \in {"reading", "asking"}
      BY DEF RestoreStep, RestoreReads, RestoreAnswered, RestoreFails
    <2> QED
      BY <2>1 DEF IInv, Loading, Starting
  <1>2. ~RestoreFails
    <2> SUFFICES ASSUME RestoreFails PROVE FALSE
      OBVIOUS
    <2>1. \/ spent' = [spent EXCEPT !["locked"] = @ + 1]
          \/ spent' = [spent EXCEPT !["offline"] = @ + 1]
      BY DEF RestoreFails, Spend
    <2>2. spent \in [Spendable -> Nat] /\ "locked" \in Spendable /\ "offline" \in Spendable
      BY DEF IInv, Rest, Spending, Spendable
    <2> QED
      BY <2>1, <2>2 DEF Quiet
  <1>3. CASE RestoreAnswered /\ restore.token \notin valid
    <2>1. /\ queue' = Staled(queue) \o <<Operation("remove", None)>>
          /\ store' = SignedOutStore(FALSE)
          /\ tombstone' = [tombstone EXCEPT !.server = TRUE] /\ keyring' = keyring
          /\ issued' = issued /\ valid' = valid /\ signedOut' = signedOut
      BY <1>3 DEF RestoreAnswered, ClearSession, Invalidate, Staled, server
    <2>2. store.state # "idle"
      BY <1>3 DEF RestoreAnswered, IInv, Loading
    <2> QED
      BY <2>1, <2>2, ClearedGood
  <1>4. CASE RestoreReads \/ (RestoreAnswered /\ restore.token \in valid)
    <2>1. /\ queue' = queue /\ keyring' = keyring /\ tombstone' = tombstone
          /\ issued' = issued /\ signedOut' = signedOut /\ valid' = valid
          /\ \/ store' = store \/ \E t : store' = [store EXCEPT !.token = t, !.state = "ready"]
      BY <1>4 DEF RestoreReads, RestoreAnswered, server
    <2>2. store'.state # "error"
      BY <2>1 DEF Good, IInv, Rest, Stores
    <2> QED
      BY <1>1, <2>1, <2>2, QuietGood
  <1> QED
    BY <1>2, <1>3, <1>4 DEF RestoreStep

LEMMA AnswerGood == ASSUME IInv, IInv', Screening, Good, Answer PROVE Good'
  <1>1. /\ keyring' = keyring /\ issued' = issued /\ valid' = valid
        /\ signedOut' = signedOut
    BY DEF Answer, server
  <1>2. CASE Clears
    <2>1. /\ queue' = Staled(queue) \o <<Operation("remove", None)>>
          /\ store' = SignedOutStore(FALSE)
          /\ tombstone' = [tombstone EXCEPT !.server = TRUE]
      BY <1>2 DEF Answer, Staled
    <2>2. store.state # "idle" \/ store.token # None
      BY DEF Answer, Screening
    <2> QED
      BY <1>1, <2>1, <2>2, ClearedGood
  <1>3. CASE ~Clears
    <2>1. UNCHANGED <<store, restore, queue, tombstone>>
      BY <1>3 DEF Answer
    <2>2. store'.state # "error" /\ (Starting => Starting')
      BY <2>1 DEF Good, Starting
    <2> QED
      BY <1>1, <2>1, <2>2, QuietGood
  <1> QED
    BY <1>2, <1>3

\* What survives a stop is all that the invariant counts on.
LEMMA CrashGood == ASSUME IInv, IInv', Good, Crash PROVE Good'
  <1>1. /\ store' = [token |-> None, state |-> "idle", loggingOut |-> FALSE]
        /\ queue' = <<>>
        /\ UNCHANGED <<keyring, tombstone, valid, issued, signedOut>>
    BY DEF Crash, server
  <1>2. DOMAIN queue' = {}
    BY <1>1
  <1>3. QueueInOrder' /\ Covered'
    BY <1>1, <1>2 DEF QueueInOrder, InOrder, Covered, Starting
  <1>4. Listed' /\ AllKept'
    BY <1>1 DEF Good, Listed, AllKept, Kept, LogoutPending
  <1> QED
    BY <1>1, <1>3, <1>4 DEF Good

-----------------------------------------------------------------------------
(* Every step *)

\* Nothing that was spent or issued comes back.
LEMMA QuietBefore ==
    ASSUME IInv, IInv', IsFiniteSet(issued), [Next]_vars
    PROVE  /\ IsFiniteSet(issued')
           /\ Quiet' => Quiet
           /\ Quiet' => ~KeyringLocked
  <1>1. /\ spent \in [Spendable -> Nat] /\ spent' \in [Spendable -> Nat]
        /\ "locked" \in Spendable /\ "offline" \in Spendable
    BY DEF IInv, Rest, Spending, Spendable
  <1>2. ASSUME NEW w, Spend(w)
        PROVE  spent'["locked"] >= spent["locked"] /\ spent'["offline"] >= spent["offline"]
    <2>1. \A x \in Spendable : spent'[x] = spent[x] \/ spent'[x] = spent[x] + 1
      BY <1>1, <1>2 DEF Spend
    <2>2. \A x \in Spendable : spent[x] \in Nat
      BY <1>1
    <2> QED
      BY <1>1, <2>1, <2>2
  <1>3. spent' = spent \/ \E w : Spend(w)
    <2>1. CASE QueueStep
      BY <2>1 DEF QueueStep, Start, ReadToken, Revoke, RevokeFails, ReadParked, ParkToken,
                  SaveParked, RemoveToken, WriteToken, KeyringLocked, RetryRevoke
    <2>2. CASE \E t \in Tokens : SignIn(t) \/ SetPassword(t) \/ ServerRevokes(t)
      BY <2>2 DEF SignIn, SetPassword, NextIssued, ServerRevokes
    <2>3. CASE \/ LogOut \/ RestoreSession \/ RestoreStep \/ Answer \/ Crash
               \/ \E t \in Tokens : Request(t)
      BY <2>3 DEF LogOut, RestoreSession, RestoreStep, RestoreReads, RestoreAnswered,
                  RestoreFails, Request, Answer, Crash
    <2>4. CASE UNCHANGED vars
      BY <2>4 DEF vars
    <2> QED
      BY <2>1, <2>2, <2>3, <2>4 DEF Next, Acts
  <1>4. issued' = issued \/ \E t \in Tokens : issued' = issued \cup {t}
    <2>1. CASE QueueStep
      BY <2>1 DEF QueueStep, Start, ReadToken, Revoke, RevokeFails, ReadParked, ParkToken,
                  SaveParked, RemoveToken, WriteToken, KeyringLocked, RetryRevoke, server
    <2>2. CASE \E t \in Tokens : SignIn(t) \/ SetPassword(t) \/ ServerRevokes(t)
      BY <2>2 DEF SignIn, SetPassword, NextIssued, ServerRevokes
    <2>3. CASE \/ LogOut \/ RestoreSession \/ RestoreStep \/ Answer \/ Crash
               \/ \E t \in Tokens : Request(t)
      BY <2>3 DEF LogOut, RestoreSession, RestoreStep, RestoreReads, RestoreAnswered,
                  RestoreFails, Request, Answer, Crash, server
    <2>4. CASE UNCHANGED vars
      BY <2>4 DEF vars
    <2> QED
      BY <2>1, <2>2, <2>3, <2>4 DEF Next, Acts
  <1>5. IsFiniteSet(issued') /\ issued \in SUBSET issued'
    BY <1>4, FS_AddElement
  <1>6. Cardinality(issued) <= Cardinality(issued')
    BY <1>5, FS_Subset
  <1>7. /\ Cardinality(issued) \in Nat /\ Cardinality(issued') \in Nat /\ MaxPending \in Nat
        /\ spent["locked"] \in Nat /\ spent["offline"] \in Nat
        /\ spent'["locked"] \in Nat /\ spent'["offline"] \in Nat
    BY <1>1, <1>5, FS_CardinalityType, MaxPendingAssumption
  <1>8. spent'["locked"] >= spent["locked"] /\ spent'["offline"] >= spent["offline"]
    BY <1>2, <1>3, <1>7
  <1>9. Quiet' => Quiet
    BY <1>6, <1>7, <1>8 DEF Quiet
  <1>10. Quiet' => ~KeyringLocked
    <2> SUFFICES ASSUME Quiet', KeyringLocked PROVE FALSE
      OBVIOUS
    <2>1. spent' = [spent EXCEPT !["locked"] = @ + 1]
      BY DEF KeyringLocked, Spend
    <2> QED
      BY <1>1, <1>7, <2>1 DEF Quiet
  <1> QED
    BY <1>5, <1>9, <1>10

LEMMA JInvStep == IInv /\ IInv' /\ Screening /\ JInv /\ [Next]_vars => JInv'
  <1> SUFFICES ASSUME IInv, IInv', Screening, JInv, [Next]_vars PROVE JInv'
    OBVIOUS
  <1>1. IsFiniteSet(issued') /\ (Quiet' => Quiet) /\ (Quiet' => ~KeyringLocked)
    BY QuietBefore DEF JInv
  <1> SUFFICES ASSUME Quiet' PROVE Good'
    BY <1>1 DEF JInv
  <1>2. Good /\ Quiet /\ IsFiniteSet(issued) /\ Cardinality(issued) <= MaxPending
    BY <1>1 DEF JInv, Quiet
  <1>3. CASE QueueStep
    <2>1. CASE Start \/ ReadToken \/ Revoke \/ RevokeFails \/ ReadParked
      BY <1>2, <2>1, StartGood, ReadGood, RevokeGood, RevokeFailsGood, ReadParkedGood
    <2>2. CASE ParkToken \/ SaveParked \/ RemoveToken \/ WriteToken
      BY <1>2, <2>2, ParkGood, SaveGood, RemoveGood, WriteGood
    <2>3. CASE \E fails \in BOOLEAN : RetryRevoke(fails)
      BY <1>2, <2>3, RetryGood
    <2> QED
      BY <1>1, <1>3, <2>1, <2>2, <2>3 DEF QueueStep
  <1>4. ASSUME NEW t \in Tokens, SignIn(t) \/ SetPassword(t) PROVE Good'
    <2>1. /\ t \notin issued /\ issued' = issued \cup {t} /\ SetAuth(t)
          /\ valid' \subseteq valid \cup {t}
          /\ store.state # "idle" \/ store.token # None
      BY <1>4 DEF SignIn, SetPassword, NextIssued
    <2> QED
      BY <1>2, <2>1, SetAuthGood
  <1>5. ASSUME NEW t \in Tokens, ServerRevokes(t) PROVE Good'
    <2>1. /\ UNCHANGED <<store, restore, queue, call, keyring, tombstone, issued, signedOut>>
          /\ valid' \subseteq valid
      BY <1>5 DEF ServerRevokes
    <2>2. store'.state # "error" /\ (Starting => Starting')
      BY <1>2, <2>1 DEF Good, Starting
    <2> QED
      BY <1>2, <2>1, <2>2, QuietGood
  <1>6. CASE LogOut \/ RestoreSession \/ RestoreStep
    BY <1>2, <1>6, LogOutGood, RestoreSessionGood, RestoreStepGood
  <1>7. CASE Answer \/ Crash
    BY <1>2, <1>7, AnswerGood, CrashGood
  <1>8. CASE UNCHANGED vars \/ \E t \in Tokens : Request(t)
    <2>1. UNCHANGED <<store, restore, queue, keyring, tombstone, valid, issued, signedOut>>
      BY <1>8 DEF Request, vars, server
    <2>2. store'.state # "error" /\ (Starting => Starting') /\ valid' \subseteq valid
      BY <1>2, <2>1 DEF Good, Starting
    <2> QED
      BY <1>2, <2>1, <2>2, QuietGood
  <1> QED
    BY <1>3, <1>4, <1>5, <1>6, <1>7, <1>8 DEF Next, Acts

-----------------------------------------------------------------------------
(* What follows *)

\* A logout does not lose the token, for any number of sessions up to the size
\* of the list, refused revocations, sign-ins in the middle of a logout and
\* stops of the app: while the keyring answers and no session check has
\* failed, the token is revoked, or the keyring keeps it for revocation.
THEOREM LoggedOutIsRevokedOrKept == Spec => []RevokedUnlessCutOff
  <1>1. JInv => RevokedUnlessCutOff
    BY DEF JInv, Quiet, Good, AllKept, RevokedUnlessCutOff, RevokedOrKept
  <1>2. Spec => []JInv
    BY JInvInit, JInvStep, Invariant, PTL DEF Spec
  <1> QED
    BY <1>1, <1>2, PTL
=============================================================================
