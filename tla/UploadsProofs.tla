--------------------------- MODULE UploadsProofs ---------------------------
(***************************************************************************)
(* For any number of tasks, users, files and messages, any quota and any   *)
(* bounds: the types of Uploads are right, the quota is exact, no unused   *)
(* upload is forgotten, the uploads of every message stay, and the file of *)
(* every row that goes is queued.                                          *)
(***************************************************************************)
EXTENDS Uploads, FiniteSetTheorems, TLAPS

-----------------------------------------------------------------------------
(* The inductive invariant *)

\* What the record r of a task says of the tables.
Sound(r) ==
    /\ r.op # "upload" => r.added = {} /\ ~r.reserved
    /\ r.op \notin {"upload", "release"} => r.locked = {} /\ r.accounts = {}
    /\ r.op # "send" => r.shared = {}
    /\ r.op \in {"upload", "account"} => r.user \in Users
    /\ r.op = "upload" => r.locked \subseteq Stored \cup r.added
    /\ r.added \subseteq issued \ Stored
    /\ \A k \in r.added : Owner[k] = r.user
    /\ r.op = "send" => /\ r.message \in Messages /\ message[r.message] = None
                        /\ \A k \in r.todo \cup r.shared : Owner[k] = Author[r.message]
    /\ r.shared \subseteq Stored
    /\ r.op = "account" => \A k \in r.todo : k \in issued /\ Owner[k] = r.user
    /\ r.op = "account" => r.gone = {}
    /\ r.op \in {"clean", "retry"} => r.todo \cup r.gone \subseteq issued \ Stored

\* A release has locked its candidates, and has looked right at those it is
\* done with: nothing can come to use them, or stop to, before it commits.
Judged(r) ==
    r.op = "release" =>
        /\ r.todo \cup r.kept \cup r.gone \subseteq r.locked
        /\ r.locked \subseteq Stored
        /\ r.gone \cap r.kept = {}
        /\ \A k \in r.gone : ~InUse(k)
        /\ \A k \in r.kept : InUse(k)

\* Files for which quota is taken but whose rows are not committed yet.
Pending(r) == Cardinality(r.added) + (IF r.reserved THEN 1 ELSE 0)

\* An upload with pending files holds the user's row, and they fit.
Fits(r) ==
    r.op = "upload" /\ (r.added # {} \/ r.reserved) =>
        /\ r.user \in r.accounts
        /\ used[r.user] + Pending(r) <= Quota

\* Files that the task is about to remove, or has removed.
Doomed(r) == IF r.op \in {"clean", "retry", "account"} THEN r.todo \cup r.gone ELSE {}

\* Two tasks exclude each other from rows, accounts, files and messages.
Apart(r, s) ==
    /\ r.locked \cap (s.locked \cup s.shared) = {}
    /\ r.shared \cap s.locked = {}
    /\ r.accounts \cap s.accounts = {}
    /\ r.added \cap (s.added \cup Doomed(s)) = {}
    /\ Doomed(r) \cap s.added = {}
    /\ r.message = s.message => r.message = None

AllSound == \A t \in Tasks : Sound(task[t])
AllJudged == \A t \in Tasks : Judged(task[t])
AllFit == \A t \in Tasks : Fits(task[t])
AllApart == \A t \in Tasks : \A s \in Tasks \ {t} : Apart(task[t], task[s])

\* Uploads of messages have rows; queued files have none and get none.
Referenced ==
    \A m \in Messages : message[m] # None =>
        \A k \in message[m] : k \in Stored /\ Owner[k] = Author[m]

Queued ==
    /\ Stored \subseteq issued
    /\ queue \subseteq issued \ Stored
    /\ \A t \in Tasks : queue \cap task[t].added = {}

IInv == /\ TablesOK
        /\ AllSound /\ AllJudged /\ AllFit /\ AllApart
        /\ Referenced /\ Queued
        /\ QuotaIsExact /\ UnusedIsChecked

\* As long as no commit's reply is lost, rows have files.
OnDisk ==
    /\ Stored \subseteq disk
    /\ \A t \in Tasks : task[t].added \subseteq disk

-----------------------------------------------------------------------------
(* Types and finite sets *)

LEMMA SpendType ==
    ASSUME TablesOK, NEW b \in Budgets, Spend(b)
    PROVE  spent' \in [Budgets -> Nat]
  BY DEF TablesOK, Spend

LEMMA IdleType == Idle \in TaskStates
  BY DEF Idle, TaskStates

LEMMA TaskType ==
    ASSUME TablesOK, NEW t \in Tasks
    PROVE  task[t] \in TaskStates
  BY DEF TablesOK

\* Sets of uploads are finite.
LEMMA UploadsFinite ==
    ASSUME NEW ks \in SUBSET Uploads
    PROVE  IsFiniteSet(ks) /\ Cardinality(ks) \in Nat
  BY UploadsAssumption, FS_Subset, FS_CardinalityType

LEMMA RequestsType ==
    ASSUME NEW files \in Requests
    PROVE  files \in Seq(Files)
  <1>1. ASSUME NEW f \in Files, files = <<f>>
        PROVE  files \in Seq(Files)
    BY <1>1
  <1>2. ASSUME NEW pair \in Files \X Files, files = pair
        PROVE  files \in Seq(Files)
    <2>1. pair = <<pair[1], pair[2]>> /\ pair[1] \in Files /\ pair[2] \in Files
      OBVIOUS
    <2>2. <<pair[1], pair[2]>> \in Seq(Files)
      BY <2>1
    <2> QED
      BY <1>2, <2>1, <2>2, Zenon
  <1> QED
    BY <1>1, <1>2 DEF Requests

LEMMA TailType ==
    ASSUME NEW files \in Seq(Files), files # <<>>
    PROVE  Tail(files) \in Seq(Files)
  OBVIOUS

LEMMA StoredType == Stored \subseteq Uploads
  BY DEF Stored

-----------------------------------------------------------------------------
(* Steps of one task that leave the tables alone *)

\* An idle task holds nothing.
LEMMA IdleIsSound ==
    ASSUME NEW r \in TaskStates
    PROVE  Sound(Idle) /\ Judged(Idle) /\ Fits(Idle) /\ Apart(Idle, r) /\ Apart(r, Idle)
  BY DEF Sound, Judged, Fits, Apart, Doomed, Idle

LEMMA ApartIsMutual ==
    ASSUME NEW r, NEW s, Apart(r, s)
    PROVE  Apart(s, r)
  BY DEF Apart

\* When t's record becomes r, the tasks are apart if r is apart from the others.
LEMMA ApartStep ==
    ASSUME TablesOK, AllApart, NEW t \in Tasks, NEW r,
           task' = [task EXCEPT ![t] = r],
           \A s \in Tasks \ {t} : Apart(r, task[s])
    PROVE  AllApart'
  <1> SUFFICES ASSUME NEW s \in Tasks, NEW w \in Tasks \ {s}
               PROVE  Apart(task'[s], task'[w])
    BY DEF AllApart, Apart, Doomed
  <1>1. CASE s = t
    BY <1>1 DEF TablesOK
  <1>2. CASE w = t
    <2>1. Apart(r, task[s])
      BY <1>2
    <2> QED
      BY <1>2, <2>1, ApartIsMutual DEF TablesOK
  <1>3. CASE s # t /\ w # t
    BY <1>3 DEF TablesOK, AllApart
  <1> QED
    BY <1>1, <1>2, <1>3

\* When t's record becomes r, and queue entries may go, the invariant stays if r
\* fits the tables and the other tasks.
LEMMA ReplaceAndDrop ==
    ASSUME IInv, NEW t \in Tasks, NEW r \in TaskStates,
           task' = [task EXCEPT ![t] = r],
           UNCHANGED <<live, used, row, message, issued>>, queue' \subseteq queue,
           disk' \subseteq Uploads, spent' \in [Budgets -> Nat],
           Sound(r), Judged(r), Fits(r), r.added \cap queue = {},
           \A s \in Tasks \ {t} : Apart(r, task[s])
    PROVE  IInv'
  <1>1. TablesOK'
    BY DEF IInv, TablesOK
  <1>2. AllApart'
    BY ApartStep DEF IInv
  <1>3. \A s \in Tasks : task'[s] = IF s = t THEN r ELSE task[s]
    BY DEF IInv, TablesOK
  <1>4. AllSound'
    BY <1>3 DEF IInv, AllSound, Sound, Stored
  <1>5. AllJudged'
    BY <1>3 DEF IInv, AllJudged, Judged, Stored, InUse
  <1>6. AllFit'
    BY <1>3 DEF IInv, AllFit, Fits, Pending
  <1>7. Referenced' /\ QuotaIsExact' /\ UnusedIsChecked'
    BY DEF IInv, Referenced, QuotaIsExact, UnusedIsChecked, OwnedBy, Stored, InUse
  <1>8. Queued'
    BY <1>3 DEF IInv, Queued, Stored
  <1> QED
    BY <1>1, <1>2, <1>4, <1>5, <1>6, <1>7, <1>8 DEF IInv

LEMMA Replace ==
    ASSUME IInv, NEW t \in Tasks, NEW r \in TaskStates,
           task' = [task EXCEPT ![t] = r],
           UNCHANGED <<tables, issued>>,
           disk' \subseteq Uploads, spent' \in [Budgets -> Nat],
           Sound(r), Judged(r), Fits(r), r.added \cap queue = {},
           \A s \in Tasks \ {t} : Apart(r, task[s])
    PROVE  IInv'
  BY ReplaceAndDrop DEF tables

\* A task that gives up its transaction gives up all it held.
LEMMA BecomesIdle ==
    ASSUME IInv, NEW t \in Tasks, task' = [task EXCEPT ![t] = Idle],
           UNCHANGED <<tables, issued>>,
           disk' \subseteq Uploads, spent' \in [Budgets -> Nat]
    PROVE  IInv'
  <1>1. \A s \in Tasks : task[s] \in TaskStates
    BY DEF IInv, TablesOK
  <1>2. Idle.added = {}
    BY DEF Idle
  <1> QED
    BY <1>1, <1>2, Replace, IdleType, IdleIsSound

LEMMA UploadBeginKeeps ==
    ASSUME IInv, NEW t \in Tasks, NEW u \in Users, NEW files \in Requests,
           UploadBegin(t, u, files)
    PROVE  IInv'
  <1> DEFINE r == [Idle EXCEPT !.op = "upload", !.user = u, !.files = files]
  <1>1. files \in Seq(Files)
    BY RequestsType
  <1>2. r \in TaskStates
    BY <1>1 DEF Idle, TaskStates
  <1>3. spent' \in [Budgets -> Nat]
    BY SpendType DEF IInv, UploadBegin, Budgets
  <1>4. Sound(r) /\ Judged(r) /\ Fits(r) /\ r.added \cap queue = {}
    BY DEF Idle, Sound, Judged, Fits
  <1>5. \A s \in Tasks \ {t} : Apart(r, task[s])
    BY TaskType DEF IInv, Idle, Apart, Doomed
  <1>6. disk' \subseteq Uploads /\ UNCHANGED <<tables, issued>>
    BY DEF UploadBegin, IInv, TablesOK
  <1>7. task' = [task EXCEPT ![t] = r]
    BY DEF UploadBegin
  <1> HIDE DEF r
  <1> QED
    BY <1>2, <1>3, <1>4, <1>5, <1>6, <1>7, Replace

LEMMA LockFileKeeps ==
    ASSUME IInv, NEW t \in Tasks, LockFile(t)
    PROVE  IInv'
  <1> DEFINE r == [task[t] EXCEPT !.held = @ \cup {Head(task[t].files)}]
  <1>1. task[t] \in TaskStates /\ task[t].files # <<>>
    BY TaskType DEF IInv, LockFile, Uploading
  <1>2. r \in TaskStates
    BY <1>1 DEF TaskStates
  <1>3. Sound(r) /\ Judged(r) /\ Fits(r) /\ r.added \cap queue = {}
    BY <1>1 DEF IInv, AllSound, AllJudged, AllFit, Queued, Sound, Judged, Fits, Pending,
                TaskStates
  <1>4. \A s \in Tasks \ {t} : Apart(r, task[s])
    BY <1>1 DEF IInv, AllApart, Apart, Doomed, TaskStates
  <1>5. /\ disk' \subseteq Uploads /\ UNCHANGED <<tables, issued>>
        /\ spent' \in [Budgets -> Nat]
    BY DEF LockFile, IInv, TablesOK
  <1>6. task' = [task EXCEPT ![t] = r]
    BY DEF LockFile
  <1> HIDE DEF r
  <1> QED
    BY <1>2, <1>3, <1>4, <1>5, <1>6, Replace

LEMMA ReuseKeeps ==
    ASSUME IInv, NEW t \in Tasks, NEW k \in Uploads, Reuse(t, k)
    PROVE  IInv'
  <1> DEFINE r == [task[t] EXCEPT !.locked = @ \cup {k}, !.files = Tail(@)]
  <1>1. task[t] \in TaskStates /\ task[t].files # <<>> /\ task[t].op = "upload"
    BY TaskType DEF IInv, Reuse, Uploading
  <1>2. r \in TaskStates
    <2>1. Tail(task[t].files) \in Seq(Files)
      BY <1>1, TailType DEF TaskStates
    <2> QED
      BY <1>1, <2>1 DEF TaskStates
  <1>3. k \in Stored \cup task[t].added
    BY DEF Reuse, Existing
  <1>4. Sound(r) /\ Judged(r) /\ Fits(r) /\ r.added \cap queue = {}
    BY <1>1, <1>3 DEF IInv, AllSound, AllJudged, AllFit, Queued, Sound, Judged, Fits, Pending,
                TaskStates
  <1>5. \A s \in Tasks \ {t} : k \notin task[s].locked \cup task[s].shared
    BY DEF Reuse, LockedAtAll
  <1>6. \A s \in Tasks \ {t} : Apart(r, task[s])
    BY <1>1, <1>5 DEF IInv, AllApart, Apart, Doomed, TaskStates
  <1>7. /\ disk' \subseteq Uploads /\ UNCHANGED <<tables, issued>>
        /\ spent' \in [Budgets -> Nat]
    BY DEF Reuse, IInv, TablesOK
  <1>8. task' = [task EXCEPT ![t] = r]
    BY DEF Reuse
  <1> HIDE DEF r
  <1> QED
    BY <1>2, <1>4, <1>6, <1>7, <1>8, Replace

LEMMA ReserveKeeps ==
    ASSUME IInv, NEW t \in Tasks, Reserve(t)
    PROVE  IInv'
  <1> DEFINE u == task[t].user
             r == [task[t] EXCEPT !.reserved = TRUE, !.accounts = {u}]
  <1>1. task[t] \in TaskStates /\ task[t].op = "upload"
    BY TaskType DEF IInv, Reserve, Uploading
  <1>2. Sound(task[t]) /\ u \in Users /\ Cardinality(task[t].added) \in Nat
    BY <1>1, UploadsFinite DEF IInv, AllSound, Sound, TaskStates
  <1>3. r \in TaskStates
    BY <1>1, <1>2 DEF TaskStates
  <1>4. Sound(r) /\ Judged(r) /\ r.added \cap queue = {}
    BY <1>1, <1>2 DEF IInv, Queued, Sound, Judged, TaskStates
  <1>5. used[u] \in Nat /\ used[u] + Cardinality(task[t].added) + 1 <= Quota
    BY <1>2 DEF IInv, TablesOK, Reserve
  <1>6. r.user = u /\ u \in r.accounts /\ r.reserved /\ r.added = task[t].added
    BY <1>1 DEF TaskStates
  <1>7. Pending(r) = Cardinality(task[t].added) + 1
    BY <1>6 DEF Pending
  <1>8. Fits(r)
    BY <1>2, <1>5, <1>6, <1>7, BoundAssumption DEF Fits
  <1>9. \A s \in Tasks \ {t} : u \notin task[s].accounts
    BY DEF Reserve, AccountLocked
  <1>10. \A s \in Tasks \ {t} : Apart(r, task[s])
    BY <1>1, <1>9 DEF IInv, AllApart, Apart, Doomed, TaskStates
  <1>11. /\ disk' \subseteq Uploads /\ UNCHANGED <<tables, issued>>
         /\ spent' \in [Budgets -> Nat]
         /\ task' = [task EXCEPT ![t] = r]
    BY DEF Reserve, IInv, TablesOK
  <1> HIDE DEF r
  <1> QED
    BY <1>3, <1>4, <1>8, <1>10, <1>11, Replace

LEMMA UploadFailKeeps ==
    ASSUME IInv, NEW t \in Tasks, UploadFail(t)
    PROVE  IInv'
  <1>1. disk' \subseteq Uploads /\ spent' \in [Budgets -> Nat]
    BY DEF UploadFail, IInv, TablesOK
  <1> QED
    BY <1>1, BecomesIdle DEF UploadFail

LEMMA SendBeginKeeps ==
    ASSUME IInv, NEW t \in Tasks, NEW m \in Messages, NEW uploads \in SUBSET Uploads,
           SendBegin(t, m, uploads)
    PROVE  IInv'
  <1> DEFINE r == [Idle EXCEPT !.op = "send", !.message = m, !.todo = uploads]
  <1>1. /\ \A k \in uploads : Owner[k] = Author[m]
        /\ message[m] = None /\ \A s \in Tasks : task[s].message # m
    BY DEF SendBegin, OwnedBy
  <1>2. r \in TaskStates
    BY IdleType DEF TaskStates
  <1>3. Sound(r) /\ Judged(r) /\ Fits(r) /\ r.added \cap queue = {}
    BY <1>1 DEF Idle, Sound, Judged, Fits
  <1>4. \A s \in Tasks \ {t} : Apart(r, task[s])
    BY <1>1, TaskType DEF IInv, Idle, Apart, Doomed
  <1>5. spent' \in [Budgets -> Nat]
    BY SpendType DEF IInv, SendBegin, Budgets
  <1>6. /\ disk' \subseteq Uploads /\ UNCHANGED <<tables, issued>>
        /\ task' = [task EXCEPT ![t] = r]
    BY DEF SendBegin, IInv, TablesOK
  <1> HIDE DEF r
  <1> QED
    BY <1>2, <1>3, <1>4, <1>5, <1>6, Replace

LEMMA SendLockKeeps ==
    ASSUME IInv, NEW t \in Tasks, SendLock(t)
    PROVE  IInv'
  <1> DEFINE r == [task[t] EXCEPT !.shared = task[t].todo]
  <1>1. task[t] \in TaskStates /\ task[t].op = "send"
    BY TaskType DEF IInv, SendLock
  <1>2. /\ disk' \subseteq Uploads /\ UNCHANGED <<tables, issued>>
        /\ spent' \in [Budgets -> Nat]
    BY DEF SendLock, IInv, TablesOK
  <1>3. CASE Available(t)
    <2>1. r \in TaskStates
      BY <1>1 DEF TaskStates
    <2>2. Sound(task[t]) /\ Judged(task[t]) /\ Fits(task[t]) /\ task[t].added \cap queue = {}
      BY DEF IInv, AllSound, AllJudged, AllFit, Queued
    <2>3. Sound(r) /\ Judged(r) /\ Fits(r) /\ r.added \cap queue = {}
      BY <1>1, <1>3, <2>2 DEF Sound, Judged, Fits, Available, TaskStates
    <2>4. \A s \in Tasks \ {t} : task[t].todo \cap task[s].locked = {}
      BY <1>1 DEF SendLock, LockedByOther, TaskStates
    <2>5. \A s \in Tasks \ {t} : Apart(r, task[s])
      BY <1>1, <2>2, <2>4 DEF IInv, AllApart, Apart, Doomed, TaskStates, Sound
    <2>6. task' = [task EXCEPT ![t] = r]
      BY <1>3 DEF SendLock
    <2> HIDE DEF r
    <2> QED
      BY <1>2, <2>1, <2>3, <2>5, <2>6, Replace
  <1>4. CASE ~Available(t)
    BY <1>2, <1>4, BecomesIdle DEF SendLock
  <1> QED
    BY <1>3, <1>4

LEMMA ReleaseBeginKeeps ==
    ASSUME IInv, NEW t \in Tasks, ReleaseBegin(t)
    PROVE  IInv'
  <1>1. /\ disk' \subseteq Uploads /\ UNCHANGED <<tables, issued>>
        /\ spent' \in [Budgets -> Nat]
    BY DEF ReleaseBegin, IInv, TablesOK
  <1>2. CASE task' = [task EXCEPT ![t] = Idle]
    BY <1>1, <1>2, BecomesIdle
  <1>3. ASSUME NEW candidates \in SUBSET Stored, NEW todo \in SUBSET candidates,
               \A k \in candidates : ~LockedAtAll(t, k),
               task' = [task EXCEPT ![t] =
                          [Idle EXCEPT !.op = "release", !.locked = candidates, !.todo = todo]]
        PROVE  IInv'
    <2> DEFINE r == [Idle EXCEPT !.op = "release", !.locked = candidates, !.todo = todo]
    <2>1. r \in TaskStates
      BY StoredType, IdleType DEF TaskStates
    <2>2. Sound(r) /\ Judged(r) /\ Fits(r) /\ r.added \cap queue = {}
      BY DEF Idle, Sound, Judged, Fits
    <2>3. \A s \in Tasks \ {t} : Apart(r, task[s])
      BY <1>3, TaskType DEF IInv, Idle, Apart, Doomed, LockedAtAll, TaskStates
    <2>4. task' = [task EXCEPT ![t] = r]
      BY <1>3
    <2> HIDE DEF r
    <2> QED
      BY <1>1, <2>1, <2>2, <2>3, <2>4, Replace
  <1> DEFINE only == IF task[t].op = "deleted" THEN task[t].todo ELSE Uploads
             candidates == {k \in only \cap Stored : row[k].due = "now" /\ ~LockedAtAll(t, k)}
             todo == {k \in candidates : ~row[k].fresh}
  <1>4. /\ candidates \in SUBSET Stored /\ todo \in SUBSET candidates
        /\ \A k \in candidates : ~LockedAtAll(t, k)
    OBVIOUS
  <1>5. task' = [task EXCEPT ![t] =
                   IF candidates = {} THEN Idle
                   ELSE [Idle EXCEPT !.op = "release", !.locked = candidates, !.todo = todo]]
    BY DEF ReleaseBegin
  <1> HIDE DEF candidates, todo
  <1> QED
    BY <1>2, <1>3, <1>4, <1>5

LEMMA JudgedKeeps ==
    ASSUME IInv, NEW t \in Tasks, NEW k \in task[t].todo, NEW r \in TaskStates,
           task[t].op = "release",
           \/ InUse(k) /\ r = [task[t] EXCEPT !.todo = @ \ {k}, !.kept = @ \cup {k}]
           \/ /\ ~InUse(k)
              /\ \E us \in SUBSET Users :
                    /\ \A s \in Tasks \ {t} : us \cap task[s].accounts = {}
                    /\ r = [task[t] EXCEPT !.todo = @ \ {k}, !.gone = @ \cup {k},
                                           !.accounts = @ \cup us]
    PROVE  /\ Sound(r) /\ Judged(r) /\ Fits(r) /\ r.added \cap queue = {}
           /\ \A s \in Tasks \ {t} : Apart(r, task[s])
  <1>1. task[t] \in TaskStates
    BY TaskType DEF IInv
  <1>2. Sound(task[t]) /\ Judged(task[t])
    BY DEF IInv, AllSound, AllJudged
  <1>3. CASE InUse(k) /\ r = [task[t] EXCEPT !.todo = @ \ {k}, !.kept = @ \cup {k}]
    <2>1. Sound(r) /\ Judged(r) /\ Fits(r) /\ r.added \cap queue = {}
      BY <1>1, <1>2, <1>3 DEF Sound, Judged, Fits, TaskStates
    <2>2. \A s \in Tasks \ {t} : Apart(r, task[s])
      BY <1>1, <1>2, <1>3 DEF IInv, AllApart, Apart, Doomed, TaskStates
    <2> QED
      BY <2>1, <2>2
  <1>4. ASSUME ~InUse(k), NEW us \in SUBSET Users,
               \A s \in Tasks \ {t} : us \cap task[s].accounts = {},
               r = [task[t] EXCEPT !.todo = @ \ {k}, !.gone = @ \cup {k},
                                   !.accounts = @ \cup us]
        PROVE  /\ Sound(r) /\ Judged(r) /\ Fits(r) /\ r.added \cap queue = {}
               /\ \A s \in Tasks \ {t} : Apart(r, task[s])
    <2>1. Sound(r) /\ Fits(r) /\ r.added \cap queue = {}
      BY ZenonT(60), <1>1, <1>2, <1>4 DEF Sound, Fits, TaskStates
    <2>2. Judged(r)
      <3>1. /\ r.op = "release" /\ r.locked = task[t].locked /\ r.kept = task[t].kept
            /\ r.todo = task[t].todo \ {k} /\ r.gone = task[t].gone \cup {k}
        BY <1>1, <1>4 DEF TaskStates
      <3>2. k \notin task[t].kept
        BY <1>2, <1>4 DEF Judged
      <3> QED
        BY <1>2, <1>4, <3>1, <3>2, ZenonT(60) DEF Judged
    <2>3. \A s \in Tasks \ {t} : Apart(r, task[s])
      BY ZenonT(60), <1>1, <1>2, <1>4 DEF IInv, AllApart, Apart, Doomed, TaskStates
    <2> QED
      BY <2>1, <2>2, <2>3
  <1> QED
    BY <1>3, <1>4

LEMMA ReleaseUsedKeeps ==
    ASSUME IInv, NEW t \in Tasks, NEW k \in Uploads, ReleaseUsed(t, k)
    PROVE  IInv'
  <1> DEFINE r == [task[t] EXCEPT !.todo = @ \ {k}, !.kept = @ \cup {k}]
  <1>1. r \in TaskStates
    BY ZenonT(60), TaskType DEF IInv, TaskStates
  <1>2. /\ disk' \subseteq Uploads /\ UNCHANGED <<tables, issued>>
        /\ spent' \in [Budgets -> Nat]
        /\ task' = [task EXCEPT ![t] = r]
    BY DEF ReleaseUsed, IInv, TablesOK
  <1>3. k \in task[t].todo /\ task[t].op = "release" /\ InUse(k)
    BY DEF ReleaseUsed
  <1>4. /\ Sound(r) /\ Judged(r) /\ Fits(r) /\ r.added \cap queue = {}
        /\ \A s \in Tasks \ {t} : Apart(r, task[s])
    BY <1>1, <1>3, JudgedKeeps
  <1> HIDE DEF r
  <1> QED
    BY <1>1, <1>2, <1>4, Replace

LEMMA ReleaseUnusedKeeps ==
    ASSUME IInv, NEW t \in Tasks, NEW k \in Uploads, ReleaseUnused(t, k)
    PROVE  IInv'
  <1> DEFINE us == {Owner[k]} \cap live
             r == [task[t] EXCEPT !.todo = @ \ {k}, !.gone = @ \cup {k},
                                  !.accounts = @ \cup us]
  <1>1. us \in SUBSET Users /\ \A s \in Tasks \ {t} : us \cap task[s].accounts = {}
    BY DEF ReleaseUnused, AccountLocked, IInv, TablesOK
  <1>2. r \in TaskStates
    BY ZenonT(60), <1>1, TaskType DEF IInv, TaskStates
  <1>3. /\ disk' \subseteq Uploads /\ UNCHANGED <<tables, issued>>
        /\ spent' \in [Budgets -> Nat]
        /\ task' = [task EXCEPT ![t] = r]
    BY DEF ReleaseUnused, IInv, TablesOK
  <1>4. k \in task[t].todo /\ task[t].op = "release" /\ ~InUse(k)
    BY DEF ReleaseUnused
  <1> HIDE DEF us
  <1>5. /\ Sound(r) /\ Judged(r) /\ Fits(r) /\ r.added \cap queue = {}
        /\ \A s \in Tasks \ {t} : Apart(r, task[s])
    BY <1>1, <1>2, <1>4, JudgedKeeps
  <1> HIDE DEF r
  <1> QED
    BY <1>2, <1>3, <1>5, Replace

\* A task that cleans, and takes a file out of those it has to do with.
LEMMA CleaningKeeps ==
    ASSUME IInv, NEW t \in Tasks, task[t].op \in {"clean", "retry"},
           NEW todo \in SUBSET Uploads, NEW gone \in SUBSET Uploads,
           todo \cup gone \subseteq task[t].todo \cup task[t].gone,
           task' = [task EXCEPT ![t] = Cleaned([@ EXCEPT !.todo = todo, !.gone = gone])],
           UNCHANGED <<live, used, row, message, issued>>, queue' \subseteq queue,
           disk' \subseteq Uploads, spent' \in [Budgets -> Nat]
    PROVE  IInv'
  <1> DEFINE r == [task[t] EXCEPT !.todo = todo, !.gone = gone]
  <1>1. task[t] \in TaskStates /\ task \in [Tasks -> TaskStates]
    BY TaskType DEF IInv, TablesOK
  <1>2. Sound(task[t])
    BY DEF IInv, AllSound
  <1>3. r \in TaskStates
    BY <1>1 DEF TaskStates
  <1>4. Sound(r) /\ Judged(r) /\ Fits(r) /\ r.added \cap queue = {}
    BY <1>1, <1>2 DEF Sound, Judged, Fits, TaskStates
  <1>5. \A s \in Tasks \ {t} : Apart(r, task[s])
    BY ZenonT(60), <1>1, <1>2 DEF IInv, AllApart, Apart, Doomed, TaskStates
  <1>6. task' = [task EXCEPT ![t] = Cleaned(r)]
    BY <1>1
  <1>7. Cleaned(r) \in {r, Idle}
    BY DEF Cleaned
  <1> HIDE DEF r
  <1>8. /\ Cleaned(r) \in TaskStates /\ Sound(Cleaned(r)) /\ Judged(Cleaned(r))
        /\ Fits(Cleaned(r)) /\ Cleaned(r).added \cap queue = {}
        /\ \A s \in Tasks \ {t} : Apart(Cleaned(r), task[s])
    <2>1. CASE Cleaned(r) = r
      BY <1>3, <1>4, <1>5, <2>1
    <2>2. CASE Cleaned(r) = Idle
      <3>1. Idle.added = {}
        BY DEF Idle
      <3> QED
        BY <2>2, <3>1, IdleType, IdleIsSound, TaskType DEF IInv
    <2> QED
      BY <1>7, <2>1, <2>2
  <1> QED
    BY <1>6, <1>8, ReplaceAndDrop

LEMMA RemoveFileKeeps ==
    ASSUME IInv, NEW t \in Tasks, NEW k \in Uploads, RemoveFile(t, k)
    PROVE  IInv'
  <1> DEFINE r == [task[t] EXCEPT !.todo = @ \ {k}, !.gone = @ \cup {k}]
  <1>1. task[t] \in TaskStates /\ task[t].op \in {"clean", "retry"} /\ k \in task[t].todo
    BY TaskType DEF IInv, RemoveFile
  <1>2. Sound(task[t])
    BY DEF IInv, AllSound
  <1>3. r \in TaskStates
    BY <1>1 DEF TaskStates
  <1>4. Sound(r) /\ Judged(r) /\ Fits(r) /\ r.added \cap queue = {}
    BY <1>1, <1>2 DEF Sound, Judged, Fits, TaskStates
  <1>5. \A s \in Tasks \ {t} : Apart(r, task[s])
    BY <1>1, <1>2 DEF IInv, AllApart, Apart, Doomed, TaskStates
  <1>6. /\ disk' \subseteq Uploads /\ UNCHANGED <<tables, issued>>
        /\ spent' \in [Budgets -> Nat]
        /\ task' = [task EXCEPT ![t] = r]
    BY DEF RemoveFile, IInv, TablesOK
  <1> HIDE DEF r
  <1> QED
    BY <1>3, <1>4, <1>5, <1>6, Replace

LEMMA RemoveFailsKeeps ==
    ASSUME IInv, NEW t \in Tasks, NEW k \in Uploads, RemoveFails(t, k)
    PROVE  IInv'
  <1> DEFINE todo == task[t].todo \ {k}
             gone == task[t].gone
  <1>1. task[t] \in TaskStates /\ task \in [Tasks -> TaskStates]
    BY TaskType DEF IInv, TablesOK
  <1>2. [task[t] EXCEPT !.todo = @ \ {k}] = [task[t] EXCEPT !.todo = todo, !.gone = gone]
    BY <1>1 DEF TaskStates
  <1>3. spent' \in [Budgets -> Nat]
    BY SpendType DEF IInv, RemoveFails, Budgets
  <1>4. /\ UNCHANGED <<live, used, row, message, issued>> /\ queue' \subseteq queue
        /\ disk' \subseteq Uploads /\ task[t].op \in {"clean", "retry"}
    BY DEF RemoveFails, IInv, TablesOK, tables
  <1>5. todo \in SUBSET Uploads /\ gone \in SUBSET Uploads
        /\ todo \cup gone \subseteq task[t].todo \cup task[t].gone
    BY <1>1 DEF TaskStates
  <1>6. task' = [task EXCEPT ![t] = Cleaned([task[t] EXCEPT !.todo = @ \ {k}])]
    BY DEF RemoveFails
  <1>7. task' = [task EXCEPT ![t] = Cleaned([task[t] EXCEPT !.todo = todo, !.gone = gone])]
    BY <1>2, <1>6, Zenon
  <1> HIDE DEF todo, gone
  <1> QED
    BY <1>3, <1>4, <1>5, <1>7, CleaningKeeps

LEMMA DropEntryKeeps ==
    ASSUME IInv, NEW t \in Tasks, NEW k \in Uploads, DropEntry(t, k)
    PROVE  IInv'
  <1> DEFINE todo == task[t].todo
             gone == task[t].gone \ {k}
  <1>1. task[t] \in TaskStates /\ task \in [Tasks -> TaskStates]
    BY TaskType DEF IInv, TablesOK
  <1>2. [task[t] EXCEPT !.gone = @ \ {k}] = [task[t] EXCEPT !.todo = todo, !.gone = gone]
    BY <1>1 DEF TaskStates
  <1>3. /\ UNCHANGED <<live, used, row, message, issued>> /\ queue' \subseteq queue
        /\ disk' \subseteq Uploads /\ task[t].op \in {"clean", "retry"}
        /\ spent' \in [Budgets -> Nat]
    BY DEF DropEntry, IInv, TablesOK
  <1>4. todo \in SUBSET Uploads /\ gone \in SUBSET Uploads
        /\ todo \cup gone \subseteq task[t].todo \cup task[t].gone
    BY <1>1 DEF TaskStates
  <1>5. task' = [task EXCEPT ![t] = Cleaned([task[t] EXCEPT !.gone = @ \ {k}])]
    BY DEF DropEntry
  <1>6. task' = [task EXCEPT ![t] = Cleaned([task[t] EXCEPT !.todo = todo, !.gone = gone])]
    BY <1>2, <1>5, Zenon
  <1> HIDE DEF todo, gone
  <1> QED
    BY <1>3, <1>4, <1>6, CleaningKeeps

LEMMA RetryBeginKeeps ==
    ASSUME IInv, NEW t \in Tasks, NEW k \in Uploads, RetryBegin(t, k)
    PROVE  IInv'
  <1> DEFINE r == [Idle EXCEPT !.op = "retry", !.todo = {k}]
  <1>1. /\ k \in queue /\ queue \subseteq issued \ Stored
        /\ \A s \in Tasks : k \notin task[s].added
    BY DEF RetryBegin, IInv, Queued
  <1>2. r \in TaskStates
    BY IdleType DEF TaskStates
  <1>3. Sound(r) /\ Judged(r) /\ Fits(r) /\ r.added \cap queue = {}
    BY <1>1 DEF Idle, Sound, Judged, Fits
  <1>4. \A s \in Tasks \ {t} : Apart(r, task[s])
    BY <1>1, TaskType DEF IInv, Idle, Apart, Doomed
  <1>5. /\ disk' \subseteq Uploads /\ UNCHANGED <<tables, issued>>
        /\ task' = [task EXCEPT ![t] = r] /\ spent' \in [Budgets -> Nat]
    BY DEF RetryBegin, IInv, TablesOK
  <1> HIDE DEF r
  <1> QED
    BY <1>2, <1>3, <1>4, <1>5, Replace

LEMMA AccountBeginKeeps ==
    ASSUME IInv, NEW t \in Tasks, NEW u \in Users, AccountBegin(t, u)
    PROVE  IInv'
  <1> DEFINE r == [Idle EXCEPT !.op = "account", !.user = u, !.todo = OwnedBy(u)]
  <1>1. /\ OwnedBy(u) \subseteq Stored /\ Stored \subseteq issued /\ Stored \subseteq Uploads
        /\ \A k \in OwnedBy(u) : Owner[k] = u
        /\ \A s \in Tasks : Stored \cap task[s].added = {}
    BY StoredType DEF IInv, Queued, OwnedBy, AllSound, Sound
  <1>2. r \in TaskStates
    BY <1>1, IdleType DEF TaskStates
  <1>3. Sound(r) /\ Judged(r) /\ Fits(r) /\ r.added \cap queue = {}
    BY <1>1 DEF Idle, Sound, Judged, Fits
  <1>4. \A s \in Tasks \ {t} : Apart(r, task[s])
    BY <1>1, TaskType DEF IInv, Idle, Apart, Doomed
  <1>5. spent' \in [Budgets -> Nat]
    BY SpendType DEF IInv, AccountBegin, Budgets
  <1>6. /\ disk' \subseteq Uploads /\ UNCHANGED <<tables, issued>>
        /\ task' = [task EXCEPT ![t] = r]
    BY DEF AccountBegin, IInv, TablesOK
  <1> HIDE DEF r
  <1> QED
    BY <1>2, <1>3, <1>4, <1>5, <1>6, Replace

LEMMA FailKeeps ==
    ASSUME IInv, NEW t \in Tasks, Fail(t) \/ Stop(t)
    PROVE  IInv'
  <1>1. spent' \in [Budgets -> Nat]
    BY SpendType DEF IInv, TablesOK, Fail, Stop, Budgets
  <1>2. /\ disk' \subseteq Uploads /\ UNCHANGED <<tables, issued>>
        /\ task' = [task EXCEPT ![t] = Idle]
    BY DEF Fail, Stop, IInv, TablesOK
  <1> QED
    BY <1>1, <1>2, BecomesIdle

-----------------------------------------------------------------------------
(* Steps that change the tables *)

\* Only the checks of rows change, and none is given up.
LEMMA ChecksKeep ==
    ASSUME IInv, row' \in [Uploads -> Rows \cup {None}], Stored' = Stored,
           \A k \in Stored : row'[k].due = "never" => row[k].due = "never",
           UNCHANGED <<live, used, message, queue, disk, issued, task, spent>>
    PROVE  IInv'
  <1>1. TablesOK'
    BY DEF IInv, TablesOK
  <1>2. AllSound' /\ AllApart'
    BY DEF IInv, AllSound, Sound, AllApart, Apart, Doomed
  <1>3. AllJudged' /\ AllFit'
    BY DEF IInv, AllJudged, Judged, InUse, AllFit, Fits, Pending
  <1>4. Referenced' /\ Queued'
    BY DEF IInv, Referenced, Queued
  <1>5. QuotaIsExact'
    BY DEF IInv, QuotaIsExact, OwnedBy
  <1>6. UnusedIsChecked'
    BY DEF IInv, UnusedIsChecked, InUse
  <1> QED
    BY <1>1, <1>2, <1>3, <1>4, <1>5, <1>6 DEF IInv

LEMMA TimeKeeps ==
    ASSUME IInv, NEW k \in Uploads, GraceEnds(k) \/ DueArrives(k)
    PROVE  IInv'
  <1>1. row \in [Uploads -> Rows \cup {None}] /\ row[k] \in Rows /\ row[k] # None
    BY DEF IInv, TablesOK, GraceEnds, DueArrives, Stored
  <1>2. CASE GraceEnds(k)
    <2>1. row' = [row EXCEPT ![k].fresh = FALSE]
      BY <1>2 DEF GraceEnds
    <2>2. row' \in [Uploads -> Rows \cup {None}] /\ row'[k] \in Rows
      BY <1>1, <2>1 DEF Rows
    <2>3. Stored' = Stored
      BY <1>1, <2>1, <2>2, NoneAssumption DEF Stored
    <2>4. \A l \in Stored : row'[l].due = "never" => row[l].due = "never"
      BY <1>1, <2>1 DEF Stored, Rows
    <2> QED
      BY <1>2, <2>2, <2>3, <2>4, ChecksKeep DEF GraceEnds
  <1>3. CASE DueArrives(k)
    <2>1. row' = [row EXCEPT ![k].due = "now"]
      BY <1>3 DEF DueArrives
    <2>2. row' \in [Uploads -> Rows \cup {None}] /\ row'[k] \in Rows
      BY <1>1, <2>1 DEF Rows
    <2>3. Stored' = Stored
      BY <1>1, <2>1, <2>2, NoneAssumption DEF Stored
    <2>4. \A l \in Stored : row'[l].due = "never" => row[l].due = "never"
      BY <1>1, <2>1 DEF Stored, Rows
    <2> QED
      BY <1>3, <2>2, <2>3, <2>4, ChecksKeep DEF DueArrives
  <1> QED
    BY <1>2, <1>3

LEMMA StoreKeeps ==
    ASSUME IInv, NEW t \in Tasks, NEW k \in Uploads, Store(t, k)
    PROVE  IInv'
  <1> DEFINE r == [task[t] EXCEPT !.added = @ \cup {k}, !.reserved = FALSE, !.files = Tail(@)]
  <1>1. /\ task[t] \in TaskStates /\ task[t].op = "upload" /\ task[t].reserved
        /\ task[t].files # <<>> /\ Owner[k] = task[t].user /\ k \notin issued
    BY TaskType DEF IInv, Store, Uploading
  <1>2. Sound(task[t]) /\ Fits(task[t]) /\ Judged(task[t])
    BY DEF IInv, AllSound, AllFit, AllJudged
  <1>3. /\ r \in TaskStates /\ r.added = task[t].added \cup {k} /\ r.reserved = FALSE
        /\ r.op = "upload" /\ r.user = task[t].user /\ r.accounts = task[t].accounts
        /\ r.locked = task[t].locked /\ r.shared = task[t].shared
        /\ r.message = task[t].message
    <2>1. Tail(task[t].files) \in Seq(Files)
      BY <1>1, TailType DEF TaskStates
    <2> QED
      BY <1>1, <2>1 DEF TaskStates
  <1>4. task' = [task EXCEPT ![t] = r]
    BY DEF Store
  <1>5. /\ UNCHANGED <<live, used, row, message, queue, spent>> /\ issued' = issued \cup {k}
        /\ disk' = disk \cup {k}
    BY DEF Store, tables
  <1> HIDE DEF r
  <1>6. \A s \in Tasks : task'[s] = IF s = t THEN r ELSE task[s]
    BY <1>4 DEF IInv, TablesOK
  <1>7. Stored' = Stored
    BY <1>5 DEF Stored
  <1>8. TablesOK'
    BY <1>3, <1>4, <1>5 DEF IInv, TablesOK
  <1>9. \A s \in Tasks \ {t} : k \notin task[s].added \cup Doomed(task[s])
    BY <1>1 DEF IInv, AllSound, Sound, Doomed
  <1>10. AllApart'
    <2>1. Doomed(r) = {} /\ Doomed(task[t]) = {}
      BY <1>1, <1>3 DEF Doomed
    <2>2. \A s \in Tasks \ {t} : Apart(r, task[s])
      BY <1>3, <1>9, <2>1 DEF IInv, AllApart, Apart
    <2> QED
      BY <1>4, <2>2, ApartStep DEF IInv
  <1>11. AllSound'
    <2>1. Sound(task[t])'
      <3>1. task'[t] = r /\ k \notin Stored
        BY <1>1, <1>6 DEF IInv, Queued
      <3> QED
        BY <1>1, <1>2, <1>3, <1>5, <1>7, <3>1 DEF Sound
    <2>2. ASSUME NEW s \in Tasks \ {t} PROVE Sound(task[s])'
      <3>1. task'[s] = task[s] /\ Sound(task[s])
        BY <1>6 DEF IInv, AllSound
      <3> QED
        BY <1>5, <1>7, <3>1 DEF Sound
    <2> QED
      BY <2>1, <2>2 DEF AllSound
  <1>12. AllJudged'
    BY <1>3, <1>5, <1>6, <1>7 DEF IInv, AllJudged, Judged, InUse
  <1>13. AllFit'
    <2>1. k \notin task[t].added /\ IsFiniteSet(task[t].added)
          /\ Cardinality(task[t].added) \in Nat
      BY <1>1, <1>2, UploadsFinite DEF Sound, TaskStates
    <2>2. Cardinality(r.added) = Cardinality(task[t].added) + 1
      BY <1>3, <2>1, FS_AddElement, ZenonT(60)
    <2>3. Pending(r) = Pending(task[t])
      BY <1>1, <1>3, <2>1, <2>2 DEF Pending
    <2>4. Fits(r)
      BY <1>1, <1>2, <1>3, <2>3 DEF Fits
    <2> QED
      BY <1>5, <1>6, <2>4 DEF IInv, AllFit, Fits, Pending
  <1>14. Referenced' /\ QuotaIsExact' /\ UnusedIsChecked'
    BY <1>5, <1>7 DEF IInv, Referenced, QuotaIsExact, OwnedBy, UnusedIsChecked, InUse
  <1>15. Queued'
    BY <1>1, <1>3, <1>5, <1>6, <1>7 DEF IInv, Queued
  <1> QED
    BY <1>8, <1>10, <1>11, <1>12, <1>13, <1>14, <1>15 DEF IInv

LEMMA SendCommitKeeps ==
    ASSUME IInv, NEW t \in Tasks, SendCommit(t)
    PROVE  IInv'
  <1> DEFINE m == task[t].message
             ks == task[t].shared
  <1>1. task[t] \in TaskStates /\ Sound(task[t]) /\ task[t].op = "send"
    BY TaskType DEF IInv, AllSound, SendCommit
  <1>2. /\ m \in Messages /\ ks \in SUBSET Uploads /\ ks \subseteq Stored
        /\ \A k \in ks : Owner[k] = Author[m]
    BY <1>1 DEF Sound, TaskStates
  <1>3. /\ message' = [message EXCEPT ![m] = ks] /\ task' = [task EXCEPT ![t] = Idle]
        /\ UNCHANGED <<live, used, row, queue, disk, issued, spent>>
    BY DEF SendCommit
  <1>4. \A s \in Tasks \ {t} : ks \cap task[s].locked = {}
    BY DEF IInv, AllApart, Apart
  <1> HIDE DEF m, ks
  <1>5. Stored' = Stored
    BY <1>3 DEF Stored
  <1>6. \A s \in Tasks : task'[s] = IF s = t THEN Idle ELSE task[s]
    BY <1>3 DEF IInv, TablesOK
  <1>7. TablesOK'
    BY <1>2, <1>3, IdleType DEF IInv, TablesOK
  <1>8. AllApart'
    BY <1>3, TaskType, ApartStep, IdleIsSound DEF IInv
  <1>9. AllSound' /\ AllFit'
    <2>1. ASSUME NEW s \in Tasks \ {t} PROVE Sound(task[s])'
      <3>1. task'[s] = task[s] /\ Sound(task[s])
        BY <1>6 DEF IInv, AllSound
      <3>2. task[s].op = "send" => task[s].message # m
        BY <1>2, NoneAssumption DEF IInv, AllApart, Apart, m
      <3>3. task[s].op = "send" => message'[task[s].message] = None
        BY <1>3, <3>1, <3>2 DEF IInv, TablesOK, Sound
      <3> QED
        BY <1>3, <1>5, <3>1, <3>3 DEF Sound
    <2>2. Sound(task[t])'
      BY <1>6 DEF Sound, Idle
    <2>3. AllFit'
      BY <1>3, <1>6 DEF IInv, AllFit, Fits, Pending, Idle
    <2> QED
      BY <2>1, <2>2, <2>3 DEF AllSound
  <1>10. /\ message[m] = None
         /\ \A n \in Messages \ {m} : message'[n] = message[n]
         /\ message'[m] = ks
    BY <1>1, <1>3 DEF IInv, TablesOK, Sound, m
  <1>11. AllJudged'
    <2>1. \A k \in Uploads : InUse(k) => InUse(k)'
      BY <1>2, <1>10 DEF InUse
    <2>2. \A k \in Uploads \ ks : InUse(k)' => InUse(k)
      BY <1>2, <1>10 DEF InUse
    <2>3. ASSUME NEW s \in Tasks \ {t}
          PROVE  Judged(task[s])'
      <3>1. task'[s] = task[s] /\ task[s] \in TaskStates /\ Judged(task[s])
        BY <1>6, TaskType DEF IInv, AllJudged
      <3> QED
        BY <1>4, <1>5, <2>1, <2>2, <3>1 DEF Judged, TaskStates
    <2> QED
      BY <1>6, <2>3 DEF AllJudged, Judged, Idle
  <1>12. Referenced' /\ UnusedIsChecked'
    BY <1>2, <1>3, <1>5, <1>10 DEF IInv, Referenced, UnusedIsChecked, InUse
  <1>13. QuotaIsExact' /\ Queued'
    BY <1>3, <1>5, <1>6 DEF IInv, QuotaIsExact, OwnedBy, Queued, Idle
  <1> QED
    BY <1>7, <1>8, <1>9, <1>11, <1>12, <1>13 DEF IInv

\* Deleting messages leaves every row in place, due if one of them used it, and
\* what a release has found in use stays in use.
LEMMA DeleteEffect ==
    ASSUME IInv, NEW t \in Tasks, NEW ms \in SUBSET Messages, Delete(t, ms), task[t] = Idle
    PROVE  /\ row' \in [Uploads -> Rows \cup {None}]
           /\ Stored' = Stored
           /\ message' \in [Messages -> {None} \cup SUBSET Uploads]
           /\ \A m \in Messages : message'[m] # None => message'[m] = message[m]
           /\ \A m \in Messages : message[m] = None => message'[m] = None
           /\ \A s \in Tasks : \A k \in task[s].locked : InUse(k) => InUse(k)'
           /\ \A k \in Uploads : InUse(k)' => InUse(k)
           /\ \A k \in Stored : row'[k].due = "never" => row[k].due = "never" /\ k \notin UsedBy(ms)
           /\ \A k \in Uploads : InUse(k) /\ k \notin UsedBy(ms) => InUse(k)'
  <1>1. /\ row \in [Uploads -> Rows \cup {None}]
        /\ message \in [Messages -> {None} \cup SUBSET Uploads]
    BY DEF IInv, TablesOK
  <1>2. \A m \in Messages : message'[m] = IF m \in ms THEN None ELSE message[m]
    BY DEF Delete
  <1>3. message' \in [Messages -> {None} \cup SUBSET Uploads]
    BY <1>1 DEF Delete
  <1>4. \A k \in Uploads : row'[k] = IF k \in UsedBy(ms) \cap Stored
                                     THEN [row[k] EXCEPT !.due = "now"] ELSE row[k]
    BY DEF Delete, QueueChecks
  <1>5. \A k \in Stored : row[k] \in Rows /\ row[k] # None
    BY <1>1 DEF Stored
  <1>6. row' \in [Uploads -> Rows \cup {None}] /\ \A k \in Stored : row'[k] \in Rows
    <2>1. \A k \in Stored : [row[k] EXCEPT !.due = "now"] \in Rows
      BY <1>5 DEF Rows
    <2>2. \A k \in Uploads : row'[k] \in Rows \cup {None}
      BY <1>1, <1>4, <2>1
    <2>3. row' = [k \in Uploads |-> row'[k]]
      BY DEF Delete, QueueChecks
    <2> QED
      BY <1>4, <1>5, <2>1, <2>2, <2>3, StoredType
  <1>7. Stored' = Stored
    BY <1>4, <1>6, NoneAssumption DEF Stored
  <1>8. ASSUME NEW k \in Uploads, InUse(k), k \notin UsedBy(ms)
        PROVE  InUse(k)'
    <2>1. PICK m \in Messages : message[m] # None /\ k \in message[m]
      BY <1>8 DEF InUse
    <2>2. m \notin ms
      BY <1>8, <2>1 DEF UsedBy
    <2> QED
      BY <1>2, <2>1, <2>2 DEF InUse
  <1>9. \A s \in Tasks : \A k \in task[s].locked : InUse(k) => InUse(k)'
    <2> SUFFICES ASSUME NEW s \in Tasks, NEW k \in task[s].locked, InUse(k)
                 PROVE  InUse(k)'
      OBVIOUS
    <2>1. s # t /\ k \in Uploads
      BY TaskType DEF IInv, Idle, TaskStates
    <2>2. k \notin UsedBy(ms)
      BY <2>1 DEF Delete, LockedAtAll
    <2> QED
      BY <1>8, <2>1, <2>2
  <1>10. \A k \in Uploads : InUse(k)' => InUse(k)
    BY <1>2 DEF InUse
  <1>11. ASSUME NEW k \in Stored, row'[k].due = "never"
         PROVE  row[k].due = "never" /\ k \notin UsedBy(ms)
    <2>1. k \in Uploads /\ [row[k] EXCEPT !.due = "now"].due = "now"
      BY <1>5, StoredType DEF Rows
    <2> QED
      BY <1>4, <1>11, <2>1
  <1> QED
    BY <1>2, <1>3, <1>6, <1>7, <1>8, <1>9, <1>10, <1>11

LEMMA DeleteKeeps ==
    ASSUME IInv, NEW t \in Tasks, NEW ms \in SUBSET Messages, Delete(t, ms), task[t] = Idle,
           NEW r \in TaskStates, task' = [task EXCEPT ![t] = r],
           \/ r = Idle
           \/ \E todo \in SUBSET Uploads : r = [Idle EXCEPT !.op = "deleted", !.todo = todo],
           UNCHANGED <<live, used, queue, disk, issued, spent>>
    PROVE  IInv'
  <1>1. /\ row' \in [Uploads -> Rows \cup {None}]
        /\ Stored' = Stored
        /\ message' \in [Messages -> {None} \cup SUBSET Uploads]
        /\ \A m \in Messages : message'[m] # None => message'[m] = message[m]
        /\ \A m \in Messages : message[m] = None => message'[m] = None
        /\ \A s \in Tasks : \A k \in task[s].locked : InUse(k) => InUse(k)'
        /\ \A k \in Uploads : InUse(k)' => InUse(k)
        /\ \A k \in Stored : row'[k].due = "never" => row[k].due = "never" /\ k \notin UsedBy(ms)
        /\ \A k \in Uploads : InUse(k) /\ k \notin UsedBy(ms) => InUse(k)'
    BY DeleteEffect
  <1>2. \A s \in Tasks : task'[s] = IF s = t THEN r ELSE task[s]
    BY DEF IInv, TablesOK
  <1>3. /\ r.op \in {"idle", "deleted"} /\ r.added = {} /\ ~r.reserved /\ r.locked = {}
        /\ r.shared = {} /\ r.accounts = {} /\ r.message = None
    <2>1. CASE r = Idle
      BY <2>1 DEF Idle
    <2>2. ASSUME NEW todo, r = [Idle EXCEPT !.op = "deleted", !.todo = todo]
          PROVE  /\ r.op \in {"idle", "deleted"} /\ r.added = {} /\ ~r.reserved
                 /\ r.locked = {} /\ r.shared = {} /\ r.accounts = {} /\ r.message = None
      BY <2>2 DEF Idle
    <2> QED
      BY <2>1, <2>2
  <1>4. TablesOK'
    BY <1>1 DEF IInv, TablesOK
  <1>5. AllApart'
    <2>1. \A s \in Tasks \ {t} : Apart(r, task[s])
      BY <1>3 DEF Apart, Doomed
    <2> QED
      BY <2>1, ApartStep DEF IInv
  <1>6. AllSound'
    <2> SUFFICES ASSUME NEW s \in Tasks PROVE Sound(task[s])'
      BY DEF AllSound
    <2>1. CASE s = t
      BY <1>2, <1>3, <2>1 DEF Sound
    <2>2. CASE s # t
      <3>1. task'[s] = task[s] /\ Sound(task[s])
        BY <1>2, <2>2 DEF IInv, AllSound
      <3>2. /\ Stored' = Stored /\ issued' = issued
            /\ \A m \in Messages : message[m] = None => message'[m] = None
        BY <1>1
      <3> QED
        BY <3>1, <3>2 DEF Sound
    <2> QED
      BY <2>1, <2>2
  <1>7. AllJudged'
    <2> SUFFICES ASSUME NEW s \in Tasks, task'[s].op = "release" PROVE Judged(task[s])'
      BY DEF AllJudged, Judged
    <2>1. s # t /\ task'[s] = task[s] /\ Judged(task[s]) /\ task[s] \in TaskStates
      BY <1>2, <1>3, TaskType DEF IInv, AllJudged
    <2>2. \A k \in task[s].locked : k \in Uploads /\ (InUse(k) <=> InUse(k)')
      BY <1>1, <2>1 DEF TaskStates
    <2>3. Stored' = Stored
      BY <1>1
    <2> QED
      BY <2>1, <2>2, <2>3 DEF Judged
  <1>8. AllFit'
    BY <1>2, <1>3 DEF IInv, AllFit, Fits, Pending
  <1>9. Referenced'
    BY <1>1 DEF IInv, Referenced
  <1>10. Queued'
    BY <1>1, <1>2, <1>3 DEF IInv, Queued
  <1>11. QuotaIsExact'
    BY <1>1 DEF IInv, QuotaIsExact, OwnedBy
  <1>12. UnusedIsChecked'
    <2> SUFFICES ASSUME NEW k \in Stored, row'[k].due = "never"
                 PROVE  InUse(k)'
      BY <1>1, Zenon DEF UnusedIsChecked
    <2>1. row[k].due = "never" /\ k \notin UsedBy(ms)
      BY <1>1
    <2>2. k \in Uploads /\ InUse(k)
      BY <2>1, StoredType DEF IInv, UnusedIsChecked
    <2> QED
      BY <1>1, <2>1, <2>2
  <1> QED
    BY <1>4, <1>5, <1>6, <1>7, <1>8, <1>9, <1>10, <1>11, <1>12 DEF IInv

LEMMA DeleteMessageKeeps ==
    ASSUME IInv, NEW t \in Tasks, NEW m \in Messages, DeleteMessage(t, m)
    PROVE  IInv'
  <1>1. message[m] \in SUBSET Uploads
    BY DEF DeleteMessage, IInv, TablesOK
  <1> DEFINE todo == message[m]
             r == [Idle EXCEPT !.op = "deleted", !.todo = todo]
  <1>2. r \in TaskStates
    BY <1>1, IdleType DEF TaskStates
  <1>3. /\ Delete(t, {m}) /\ task[t] = Idle /\ task' = [task EXCEPT ![t] = r]
        /\ UNCHANGED <<live, used, queue, disk, issued, spent>>
    BY DEF DeleteMessage
  <1> HIDE DEF todo
  <1>4. \E ks \in SUBSET Uploads : r = [Idle EXCEPT !.op = "deleted", !.todo = ks]
    BY <1>1 DEF todo
  <1> HIDE DEF r
  <1> QED
    BY <1>2, <1>3, <1>4, DeleteKeeps

LEMMA DeleteChannelKeeps ==
    ASSUME IInv, NEW t \in Tasks, NEW ms \in SUBSET Messages, DeleteChannel(t, ms)
    PROVE  IInv'
  <1>1. task' = [task EXCEPT ![t] = Idle]
    BY DEF DeleteChannel, IInv, TablesOK
  <1> QED
    BY <1>1, IdleType, DeleteKeeps DEF DeleteChannel

LEMMA CommitUploadKeeps ==
    ASSUME IInv, NEW t \in Tasks, UploadDone(t), CommitUpload(t),
           task' = [task EXCEPT ![t] = Idle],
           UNCHANGED <<live, message, queue, issued>>,
           disk' \subseteq Uploads, spent' \in [Budgets -> Nat]
    PROVE  IInv'
  <1> DEFINE u == task[t].user
             A == task[t].added
             L == task[t].locked
  <1>1. /\ task[t] \in TaskStates /\ task[t].op = "upload"
        /\ Sound(task[t]) /\ Fits(task[t])
    BY TaskType DEF IInv, AllSound, AllFit, UploadDone
  <1>2. /\ u \in Users /\ A \in SUBSET Uploads /\ L \in SUBSET Uploads
        /\ A \subseteq issued \ Stored /\ L \subseteq Stored \cup A
        /\ \A k \in A : Owner[k] = u
    BY <1>1 DEF Sound, TaskStates
  <1>3. A # {} => u \in task[t].accounts /\ used[u] + Pending(task[t]) <= Quota
    BY <1>1 DEF Fits
  <1>4. IsFiniteSet(A) /\ Cardinality(A) \in Nat /\ Pending(task[t]) >= Cardinality(A)
    BY <1>2, UploadsFinite DEF Pending
  <1>5. /\ row' = [k \in Uploads |->
                     CASE k \in A -> [due |-> "now", fresh |-> TRUE]
                       [] k \in L \ A -> [row[k] EXCEPT !.fresh = TRUE]
                       [] OTHER -> row[k]]
        /\ used' = [used EXCEPT ![u] = @ + Cardinality(A)]
    BY DEF CommitUpload
  <1>6. \A s \in Tasks \ {t} :
            /\ task[s].added \cap A = {} /\ Doomed(task[s]) \cap A = {}
            /\ u \in task[t].accounts => u \notin task[s].accounts
    BY DEF IInv, AllApart, Apart
  <1>7. A \cap queue = {}
    BY DEF IInv, Queued
  <1> HIDE DEF u, A, L
  <1>8. /\ row \in [Uploads -> Rows \cup {None}] /\ used \in [Users -> Nat]
        /\ \A k \in Stored : row[k] \in Rows /\ row[k] # None /\ k \in Uploads
    BY DEF IInv, TablesOK, Stored
  <1>9. /\ \A k \in A : row'[k] = [due |-> "now", fresh |-> TRUE]
        /\ \A k \in L \ A : row'[k] = [row[k] EXCEPT !.fresh = TRUE]
        /\ \A k \in Uploads \ (L \cup A) : row'[k] = row[k]
    BY <1>2, <1>5
  <1>10. /\ \A k \in A : row'[k] \in Rows /\ row'[k].due = "now"
         /\ \A k \in L \ A : row'[k] \in Rows /\ row'[k].due = row[k].due
    <2>1. [due |-> "now", fresh |-> TRUE] \in Rows
      BY DEF Rows
    <2>2. \A x \in Rows : [x EXCEPT !.fresh = TRUE] \in Rows /\ [x EXCEPT !.fresh = TRUE].due = x.due
      BY DEF Rows
    <2>3. \A k \in L \ A : row[k] \in Rows
      BY <1>2, <1>8
    <2> QED
      BY <1>9, <2>1, <2>2, <2>3
  <1>11. row' \in [Uploads -> Rows \cup {None}]
    <2>1. \A k \in Uploads : row'[k] \in Rows \cup {None}
      BY <1>8, <1>9, <1>10
    <2>2. row' = [k \in Uploads |-> row'[k]]
      BY <1>5
    <2> QED
      BY <2>1, <2>2
  <1>12. Stored' = Stored \cup A
    BY <1>2, <1>8, <1>9, <1>10, NoneAssumption DEF Stored
  <1>13. \A s \in Tasks : task'[s] = IF s = t THEN Idle ELSE task[s]
    BY DEF IInv, TablesOK
  <1>14. used' \in [Users -> Nat]
    BY <1>2, <1>4, <1>5, <1>8
  <1>15. TablesOK'
    BY <1>11, <1>14, IdleType DEF IInv, TablesOK
  <1>16. AllApart'
    BY TaskType, ApartStep, IdleIsSound DEF IInv
  <1>17. AllSound'
    <2>1. Sound(task[t])'
      BY <1>13 DEF Sound, Idle
    <2>2. ASSUME NEW s \in Tasks \ {t} PROVE Sound(task[s])'
      <3>1. task'[s] = task[s] /\ Sound(task[s])
        BY <1>13 DEF IInv, AllSound
      <3>2. /\ task[s].added \cap A = {}
            /\ task[s].op \in {"clean", "retry"} => (task[s].todo \cup task[s].gone) \cap A = {}
        BY <1>6 DEF Doomed
      <3> QED
        BY <1>12, <3>1, <3>2 DEF Sound
    <2> QED
      BY <2>1, <2>2 DEF AllSound
  <1>18. AllJudged'
    <2>1. Judged(task[t])'
      BY <1>13 DEF Judged, Idle
    <2>2. ASSUME NEW s \in Tasks \ {t} PROVE Judged(task[s])'
      <3>1. task'[s] = task[s] /\ Judged(task[s])
        BY <1>13 DEF IInv, AllJudged
      <3>2. \A k : InUse(k)' <=> InUse(k)
        BY DEF InUse
      <3> QED
        BY <1>12, <3>1, <3>2 DEF Judged
    <2> QED
      BY <2>1, <2>2 DEF AllJudged
  <1>19. AllFit'
    <2>1. Fits(task[t])'
      BY <1>13 DEF Fits, Idle
    <2>2. ASSUME NEW s \in Tasks \ {t} PROVE Fits(task[s])'
      <3>1. task'[s] = task[s] /\ Fits(task[s]) /\ Sound(task[s])
        BY <1>13 DEF IInv, AllFit, AllSound
      <3>2. CASE A = {}
        <4>1. used' = used
          BY <1>2, <1>5, <1>8, <3>2, FS_EmptySet
        <4> QED
          BY <3>1, <4>1 DEF Fits, Pending
      <3>3. CASE A # {} /\ task'[s].op = "upload" /\ (task'[s].added # {} \/ task'[s].reserved)
        <4>1. task[s].user \in task[s].accounts /\ task[s].user \in Users
          BY <3>1, <3>3 DEF Fits, Sound
        <4>2. task[s].user # u
          BY <1>3, <1>6, <3>3, <4>1
        <4>3. used'[task[s].user] = used[task[s].user]
          BY <1>5, <1>8, <4>1, <4>2
        <4> QED
          BY <3>1, <3>3, <4>3 DEF Fits, Pending
      <3> QED
        BY <3>2, <3>3 DEF Fits
    <2> QED
      BY <2>1, <2>2 DEF AllFit
  <1>20. QuotaIsExact'
    <2> SUFFICES ASSUME NEW v \in Users
                 PROVE  used'[v] = Cardinality(OwnedBy(v)') /\ used'[v] <= Quota
      BY DEF QuotaIsExact
    <2>1. /\ used[v] = Cardinality(OwnedBy(v)) /\ used[v] <= Quota
          /\ used[v] \in Nat /\ IsFiniteSet(OwnedBy(v))
      BY <1>8, StoredType, UploadsFinite DEF IInv, QuotaIsExact, OwnedBy
    <2>2. CASE v # u
      <3>1. OwnedBy(v)' = OwnedBy(v)
        BY <1>2, <1>12, <2>2 DEF OwnedBy
      <3>2. used'[v] = used[v]
        BY <1>5, <1>8, <2>2
      <3> QED
        BY <2>1, <3>1, <3>2
    <2>3. CASE v = u
      <3>1. OwnedBy(v)' = OwnedBy(v) \cup A /\ OwnedBy(v) \cap A = {}
        BY <1>2, <1>12, <2>3 DEF OwnedBy
      <3>2. Cardinality(OwnedBy(v) \cup A) = Cardinality(OwnedBy(v)) + Cardinality(A)
        BY <1>4, <2>1, <3>1, FS_Union, FS_EmptySet
      <3>3. used'[v] = used[v] + Cardinality(A)
        BY <1>2, <1>5, <1>8, <2>3
      <3>4. used'[v] <= Quota
        <4>1. CASE A = {}
          BY <2>1, <3>3, <4>1, FS_EmptySet
        <4>2. CASE A # {}
          <5>1. used[v] + Pending(task[t]) <= Quota /\ Pending(task[t]) \in Nat
            BY <1>3, <1>4, <2>3, <4>2 DEF Pending, A
          <5> QED
            BY <1>4, <2>1, <3>3, <5>1, BoundAssumption
        <4> QED
          BY <4>1, <4>2
      <3> QED
        BY <2>1, <3>1, <3>2, <3>3, <3>4
    <2> QED
      BY <2>2, <2>3
  <1>21. Referenced'
    BY <1>12 DEF IInv, Referenced
  <1>22. Queued'
    BY <1>2, <1>7, <1>12, <1>13 DEF IInv, Queued, Idle
  <1>23. UnusedIsChecked'
    <2> SUFFICES ASSUME NEW k \in Stored \cup A, row'[k].due = "never"
                 PROVE  InUse(k)'
      BY <1>12, Zenon DEF UnusedIsChecked
    <2>1. k \notin A
      BY <1>10
    <2>2. row[k].due = "never" /\ k \in Stored
      BY <1>8, <1>9, <1>10, <2>1
    <2>3. InUse(k)
      BY <2>2 DEF IInv, UnusedIsChecked
    <2> QED
      BY <2>3 DEF InUse
  <1> QED
    BY <1>15, <1>16, <1>17, <1>18, <1>19, <1>20, <1>21, <1>22, <1>23 DEF IInv

LEMMA CleaningType ==
    ASSUME NEW ks \in SUBSET Uploads
    PROVE  /\ Cleaning(ks) \in TaskStates
           /\ Cleaning(ks).op \in {"idle", "clean"}
           /\ Cleaning(ks).added = {} /\ Cleaning(ks).reserved = FALSE
           /\ Cleaning(ks).locked = {} /\ Cleaning(ks).shared = {}
           /\ Cleaning(ks).accounts = {} /\ Cleaning(ks).message = None
           /\ Cleaning(ks).todo \cup Cleaning(ks).gone \subseteq ks
           /\ Doomed(Cleaning(ks)) \subseteq ks
  <1> DEFINE r == [Idle EXCEPT !.op = "clean", !.todo = ks]
  <1>1. r \in TaskStates
    BY IdleType DEF TaskStates
  <1>2. /\ r.op = "clean" /\ r.added = {} /\ r.reserved = FALSE /\ r.locked = {}
        /\ r.shared = {} /\ r.accounts = {} /\ r.message = None /\ r.todo = ks /\ r.gone = {}
    BY DEF Idle
  <1>3. /\ Idle.op = "idle" /\ Idle.added = {} /\ Idle.reserved = FALSE /\ Idle.locked = {}
        /\ Idle.shared = {} /\ Idle.accounts = {} /\ Idle.message = None
        /\ Idle.todo = {} /\ Idle.gone = {}
    BY DEF Idle
  <1>4. Cleaning(ks) = Cleaned(r)
    BY DEF Cleaning
  <1> HIDE DEF r
  <1>5. CASE Cleaning(ks) = r
    BY <1>1, <1>2, <1>5 DEF Doomed
  <1>6. CASE Cleaning(ks) = Idle
    BY <1>3, <1>6, IdleType DEF Doomed
  <1> QED
    BY <1>4, <1>5, <1>6 DEF Cleaned

LEMMA ReleaseCommitKeeps ==
    ASSUME IInv, NEW t \in Tasks, ReleaseCommit(t)
    PROVE  IInv'
  <1> DEFINE G == task[t].gone
             K == task[t].kept
             L == task[t].locked
             R(v) == {k \in G : Owner[k] = v}
  <1>1. /\ task[t] \in TaskStates /\ task[t].op = "release" /\ task[t].todo = {}
        /\ Judged(task[t])
    BY TaskType DEF IInv, AllJudged, ReleaseCommit
  <1>2. /\ G \in SUBSET Uploads /\ K \in SUBSET Uploads /\ L \in SUBSET Uploads
        /\ G \cup K \subseteq L /\ L \subseteq Stored /\ G \cap K = {}
        /\ (\A k \in G : ~InUse(k)) /\ (\A k \in K : InUse(k))
    BY <1>1 DEF Judged, TaskStates
  <1>3. /\ row' = [k \in Uploads |->
                     CASE k \in G -> None
                       [] k \in K -> [row[k] EXCEPT !.due = "never"]
                       [] k \in L \ (G \cup K) -> PutOff(row[k])
                       [] OTHER -> row[k]]
        /\ used' = [v \in Users |-> IF Cardinality(R(v)) <= used[v]
                                    THEN used[v] - Cardinality(R(v)) ELSE 0]
        /\ queue' = queue \cup G
        /\ task' = [task EXCEPT ![t] = Cleaning(G)]
        /\ UNCHANGED <<live, message, disk, issued, spent>>
    BY DEF ReleaseCommit, Returned, QueuedFiles
  <1>4. /\ Stored \subseteq Uploads /\ Stored \subseteq issued
        /\ \A s \in Tasks : task[s].added \cap Stored = {}
    BY StoredType DEF IInv, Queued, AllSound, Sound
  <1>5. \A s \in Tasks \ {t} : task[s].locked \cap L = {} /\ task[s].shared \cap L = {}
    BY DEF IInv, AllApart, Apart
  <1>6. \A k \in Stored : row[k] \in Rows /\ row[k] # None
    BY DEF IInv, TablesOK, Stored
  <1> HIDE DEF G, K, L
  <1>7. /\ \A k \in G : row'[k] = None
        /\ \A k \in K : row'[k] = [row[k] EXCEPT !.due = "never"]
        /\ \A k \in L \ (G \cup K) : row'[k] = [row[k] EXCEPT !.due = "later"]
        /\ \A k \in Uploads \ L : row'[k] = row[k]
    BY <1>2, <1>3 DEF PutOff
  <1>8. /\ \A k \in L \ G : row'[k] \in Rows
        /\ \A k \in L \ (G \cup K) : row'[k].due = "later"
    <2>1. \A k \in L : row[k] \in Rows
      BY <1>2, <1>6
    <2>2. ASSUME NEW k \in K PROVE row'[k] \in Rows
      <3>1. row[k] \in Rows /\ row'[k] = [row[k] EXCEPT !.due = "never"]
        BY <1>2, <1>7, <2>1
      <3> QED
        BY <3>1 DEF Rows
    <2>3. ASSUME NEW k \in L \ (G \cup K) PROVE row'[k] \in Rows /\ row'[k].due = "later"
      <3>1. row[k] \in Rows /\ row'[k] = [row[k] EXCEPT !.due = "later"]
        BY <1>7, <2>1
      <3> QED
        BY <3>1 DEF Rows
    <2> QED
      BY <1>2, <2>2, <2>3
  <1>9. row' \in [Uploads -> Rows \cup {None}]
    <2>1. \A k \in Uploads : row'[k] \in Rows \cup {None}
      BY <1>2, <1>7, <1>8 DEF IInv, TablesOK
    <2>2. row' = [k \in Uploads |-> row'[k]]
      BY <1>3
    <2> QED
      BY <2>1, <2>2
  <1>10. Stored' = Stored \ G
    BY <1>2, <1>4, <1>7, <1>8, NoneAssumption DEF Stored
  <1>11. \A s \in Tasks : task'[s] = IF s = t THEN Cleaning(G) ELSE task[s]
    BY <1>3 DEF IInv, TablesOK
  <1>12. \A v \in Users : IsFiniteSet(R(v)) /\ Cardinality(R(v)) \in Nat
    BY <1>2, UploadsFinite
  <1>13. \A v \in Users : /\ used[v] \in Nat
                          /\ used'[v] = IF Cardinality(R(v)) <= used[v]
                                        THEN used[v] - Cardinality(R(v)) ELSE 0
    BY <1>3 DEF IInv, TablesOK
  <1>14. \A v \in Users : used'[v] \in Nat /\ used'[v] <= used[v]
    <2> SUFFICES ASSUME NEW v \in Users
                 PROVE  used'[v] \in Nat /\ used'[v] <= used[v]
      OBVIOUS
    <2>1. /\ Cardinality(R(v)) \in Nat /\ used[v] \in Nat
          /\ used'[v] = IF Cardinality(R(v)) <= used[v] THEN used[v] - Cardinality(R(v)) ELSE 0
      BY <1>12, <1>13
    <2> HIDE DEF R
    <2> QED
      BY <2>1
  <1>15. used' \in [Users -> Nat]
    BY <1>3, <1>14
  <1>16. TablesOK'
    BY <1>2, <1>3, <1>9, <1>15, CleaningType DEF IInv, TablesOK
  <1>17. \A s \in Tasks : task[s].added \cap G = {}
    BY <1>2, <1>4
  <1>18. AllApart'
    <2>1. \A s \in Tasks \ {t} : Apart(Cleaning(G), task[s])
      BY <1>2, <1>17, CleaningType DEF Apart
    <2> QED
      BY <1>3, <2>1, ApartStep DEF IInv
  <1>19. AllSound'
    <2>1. Sound(task[t])'
      <3>1. G \subseteq issued' \ Stored'
        BY <1>2, <1>3, <1>4, <1>10
      <3> QED
        BY <1>2, <1>11, <3>1, CleaningType DEF Sound
    <2>2. ASSUME NEW s \in Tasks \ {t} PROVE Sound(task[s])'
      <3>1. task'[s] = task[s] /\ Sound(task[s])
        BY <1>11 DEF IInv, AllSound
      <3>2. task[s].locked \cap G = {} /\ task[s].shared \cap G = {}
        BY <1>2, <1>5
      <3> QED
        BY <1>3, <1>10, <3>1, <3>2 DEF Sound
    <2> QED
      BY <2>1, <2>2 DEF AllSound
  <1>20. AllJudged'
    <2>1. Judged(task[t])'
      BY <1>2, <1>11, CleaningType DEF Judged
    <2>2. ASSUME NEW s \in Tasks \ {t} PROVE Judged(task[s])'
      <3>1. task'[s] = task[s] /\ Judged(task[s])
        BY <1>11 DEF IInv, AllJudged
      <3>2. task[s].locked \cap G = {} /\ \A k : InUse(k)' <=> InUse(k)
        BY <1>2, <1>3, <1>5 DEF InUse
      <3> QED
        BY <1>10, <3>1, <3>2 DEF Judged
    <2> QED
      BY <2>1, <2>2 DEF AllJudged
  <1>21. AllFit'
    <2>1. Fits(task[t])'
      BY <1>2, <1>11, CleaningType DEF Fits
    <2>2. ASSUME NEW s \in Tasks \ {t} PROVE Fits(task[s])'
      <3>1. task'[s] = task[s] /\ Fits(task[s]) /\ Sound(task[s]) /\ task[s] \in TaskStates
        BY <1>11, TaskType DEF IInv, AllFit, AllSound
      <3>2. Pending(task[s]) \in Nat
        BY <3>1, UploadsFinite DEF Pending, TaskStates
      <3>3. CASE task[s].op = "upload" /\ (task[s].added # {} \/ task[s].reserved)
        <4>1. /\ task[s].user \in Users /\ task[s].user \in task[s].accounts
              /\ used[task[s].user] + Pending(task[s]) <= Quota
          BY <3>1, <3>3 DEF Fits, Sound
        <4>2. used'[task[s].user] + Pending(task[s]) <= Quota
          <5>1. /\ used'[task[s].user] \in Nat /\ used[task[s].user] \in Nat
                /\ used'[task[s].user] <= used[task[s].user]
            BY <1>13, <1>14, <4>1
          <5> QED
            BY <3>2, <4>1, <5>1, BoundAssumption
        <4> QED
          BY <3>1, <4>1, <4>2 DEF Fits, Pending
      <3> QED
        BY <3>1, <3>3 DEF Fits
    <2> QED
      BY <2>1, <2>2 DEF AllFit
  <1>22. Referenced'
    BY <1>2, <1>3, <1>4, <1>10 DEF IInv, TablesOK, Referenced, InUse
  <1>23. Queued'
    <2>1. Cleaning(G).added = {}
      BY <1>2, CleaningType
    <2> QED
      BY <1>2, <1>3, <1>4, <1>10, <1>11, <1>17, <2>1 DEF IInv, Queued
  <1>24. QuotaIsExact'
    <2> SUFFICES ASSUME NEW v \in Users
                 PROVE  used'[v] = Cardinality(OwnedBy(v)') /\ used'[v] <= Quota
      BY DEF QuotaIsExact
    <2>1. /\ used[v] = Cardinality(OwnedBy(v)) /\ used[v] <= Quota
          /\ IsFiniteSet(OwnedBy(v)) /\ used[v] \in Nat
      BY <1>13, StoredType, UploadsFinite DEF IInv, QuotaIsExact, OwnedBy
    <2>2. OwnedBy(v)' = OwnedBy(v) \ R(v) /\ R(v) \subseteq OwnedBy(v)
      BY <1>2, <1>10 DEF OwnedBy
    <2>3. Cardinality(R(v)) <= Cardinality(OwnedBy(v))
      BY <2>1, <2>2, FS_Subset
    <2>4. Cardinality(OwnedBy(v) \ R(v)) = Cardinality(OwnedBy(v)) - Cardinality(R(v))
      <3>1. OwnedBy(v) \cap R(v) = R(v)
        BY <2>2
      <3>2. Cardinality(OwnedBy(v) \ R(v))
              = Cardinality(OwnedBy(v)) - Cardinality(OwnedBy(v) \cap R(v))
        BY <2>1, FS_Difference, Zenon
      <3> QED
        BY <3>1, <3>2
    <2>5. used'[v] = used[v] - Cardinality(R(v))
      BY <1>13, <2>1, <2>3
    <2> HIDE DEF R
    <2> QED
      BY <1>14, <2>1, <2>2, <2>4, <2>5, BoundAssumption
  <1>25. UnusedIsChecked'
    <2> SUFFICES ASSUME NEW k \in Stored \ G, row'[k].due = "never"
                 PROVE  InUse(k)'
      BY <1>10, Zenon DEF UnusedIsChecked
    <2>1. k \in Uploads
      BY <1>4
    <2>2. CASE k \in K
      BY <1>2, <1>3, <2>2 DEF InUse
    <2>3. CASE k \notin K
      <3>1. k \notin L
        BY <1>8, <2>3
      <3>2. row[k].due = "never"
        BY <1>7, <2>1, <3>1
      <3>3. InUse(k)
        BY <3>2 DEF IInv, UnusedIsChecked
      <3> QED
        BY <1>3, <3>3 DEF InUse
    <2> QED
      BY <2>2, <2>3
  <1> QED
    BY <1>16, <1>18, <1>19, <1>20, <1>21, <1>22, <1>23, <1>24, <1>25 DEF IInv

LEMMA AccountCommitKeeps ==
    ASSUME IInv, NEW t \in Tasks, AccountCommit(t)
    PROVE  IInv'
  <1> DEFINE u == task[t].user
             D == task[t].todo
             ms == {m \in Messages : Author[m] = u}
  <1>1. task[t] \in TaskStates /\ task[t].op = "account" /\ Sound(task[t])
    BY TaskType DEF IInv, AllSound, AccountCommit
  <1>2. /\ u \in Users /\ D \in SUBSET Uploads
        /\ \A k \in D : k \in issued /\ Owner[k] = u
    BY <1>1 DEF Sound, TaskStates
  <1>3. /\ live' = live \ {u}
        /\ message' = [m \in Messages |-> IF m \in ms THEN None ELSE message[m]]
        /\ row' = [k \in Uploads |-> IF Owner[k] = u THEN None ELSE row[k]]
        /\ used' = [used EXCEPT ![u] = 0]
        /\ queue' = queue \cup D
        /\ task' = [task EXCEPT ![t] = Cleaning(D)]
        /\ UNCHANGED <<disk, issued, spent>>
    BY DEF AccountCommit, QueuedFiles
  <1>4. \A s \in Tasks \ {t} : \A k \in task[s].locked \cup task[s].shared : k \notin OwnedBy(u)
    BY DEF AccountCommit, LockedAtAll
  <1>5. \A s \in Tasks : task[s].added \cap D = {}
    <2>1. ASSUME NEW s \in Tasks \ {t} PROVE task[s].added \cap D = {}
      BY <1>1, <2>1 DEF IInv, AllApart, Apart, Doomed
    <2>2. task[t].added = {}
      BY <1>1 DEF Sound
    <2> QED
      BY <2>1, <2>2
  <1> HIDE DEF D
  <1>6. Stored' = {k \in Stored : Owner[k] # u}
    BY <1>3 DEF Stored
  <1>7. \A s \in Tasks : task'[s] = IF s = t THEN Cleaning(D) ELSE task[s]
    BY <1>3 DEF IInv, TablesOK
  <1>8. TablesOK'
    <2>1. row' \in [Uploads -> Rows \cup {None}]
      BY <1>3 DEF IInv, TablesOK
    <2>2. message' \in [Messages -> {None} \cup SUBSET Uploads]
      BY <1>3 DEF IInv, TablesOK
    <2>3. used' \in [Users -> Nat] /\ live' \subseteq Users /\ queue' \subseteq Uploads
      BY <1>2, <1>3 DEF IInv, TablesOK
    <2>4. task' \in [Tasks -> TaskStates]
      BY <1>2, <1>3, CleaningType DEF IInv, TablesOK
    <2> QED
      BY <1>3, <2>1, <2>2, <2>3, <2>4 DEF IInv, TablesOK
  <1>9. /\ \A m \in Messages : message'[m] = IF Author[m] = u THEN None ELSE message[m]
        /\ \A k : InUse(k)' => InUse(k)
    BY <1>3 DEF InUse
  <1>10. \A k \in Stored' : InUse(k) => InUse(k)'
    <2> SUFFICES ASSUME NEW k \in Stored', InUse(k) PROVE InUse(k)'
      OBVIOUS
    <2>1. PICK m \in Messages : message[m] # None /\ k \in message[m]
      BY DEF InUse
    <2>2. Author[m] # u
      BY <1>6, <2>1 DEF IInv, Referenced
    <2> QED
      BY <1>9, <2>1, <2>2 DEF InUse
  <1>11. \A v \in Users : used'[v] = IF v = u THEN 0 ELSE used[v]
    BY <1>3 DEF IInv, TablesOK
  <1>12. AllApart'
    <2>1. \A s \in Tasks \ {t} : Apart(Cleaning(D), task[s])
      BY <1>2, <1>5, CleaningType DEF Apart
    <2> QED
      BY <1>3, <2>1, ApartStep DEF IInv
  <1>13. AllSound'
    <2>1. Sound(task[t])'
      <3>1. D \subseteq issued' \ Stored'
        BY <1>2, <1>3, <1>6
      <3> QED
        BY <1>2, <1>7, <3>1, CleaningType DEF Sound
    <2>2. ASSUME NEW s \in Tasks \ {t} PROVE Sound(task[s])'
      <3>1. task'[s] = task[s] /\ Sound(task[s])
        BY <1>7 DEF IInv, AllSound
      <3>2. \A k \in task[s].locked \cup task[s].shared : k \in Stored => k \in Stored'
        BY <1>4, <1>6 DEF OwnedBy
      <3>3. \A m \in Messages : message[m] = None => message'[m] = None
        BY <1>9
      <3>4. Stored' \subseteq Stored
        BY <1>6
      <3> QED
        BY <1>3, <3>1, <3>2, <3>3, <3>4 DEF Sound
    <2> QED
      BY <2>1, <2>2 DEF AllSound
  <1>14. AllJudged'
    <2>1. Judged(task[t])'
      BY <1>2, <1>7, CleaningType DEF Judged
    <2>2. ASSUME NEW s \in Tasks \ {t}, task[s].op = "release" PROVE Judged(task[s])'
      <3>1. task'[s] = task[s] /\ Judged(task[s])
        BY <1>7 DEF IInv, AllJudged
      <3>2. \A k \in task[s].locked : k \in Stored'
        BY <1>4, <1>6, <2>2, <3>1 DEF OwnedBy, Judged
      <3> QED
        BY <1>9, <1>10, <2>2, <3>1, <3>2 DEF Judged
    <2> QED
      BY <1>7, <2>1, <2>2 DEF AllJudged, Judged
  <1>15. AllFit'
    <2>1. Fits(task[t])'
      BY <1>2, <1>7, CleaningType DEF Fits
    <2>2. ASSUME NEW s \in Tasks \ {t} PROVE Fits(task[s])'
      <3>1. task'[s] = task[s] /\ Fits(task[s]) /\ Sound(task[s])
        BY <1>7 DEF IInv, AllFit, AllSound
      <3>2. u \notin task[s].accounts
        BY DEF AccountCommit, AccountLocked
      <3>3. CASE task[s].op = "upload" /\ (task[s].added # {} \/ task[s].reserved)
        <4>1. task[s].user \in Users /\ task[s].user # u
          BY <3>1, <3>2, <3>3 DEF Fits, Sound
        <4>2. used'[task[s].user] = used[task[s].user]
          BY <1>11, <4>1
        <4> QED
          BY <3>1, <3>3, <4>2 DEF Fits, Pending
      <3> QED
        BY <3>1, <3>3 DEF Fits
    <2> QED
      BY <2>1, <2>2 DEF AllFit
  <1>16. Referenced'
    BY <1>6, <1>9 DEF IInv, Referenced
  <1>17. Queued'
    <2>1. Cleaning(D).added = {}
      BY <1>2, CleaningType
    <2> QED
      BY <1>2, <1>3, <1>5, <1>6, <1>7, <2>1 DEF IInv, Queued
  <1>18. QuotaIsExact'
    <2> SUFFICES ASSUME NEW v \in Users
                 PROVE  used'[v] = Cardinality(OwnedBy(v)') /\ used'[v] <= Quota
      BY DEF QuotaIsExact
    <2>1. CASE v = u
      <3>1. OwnedBy(v)' = {}
        BY <1>6, <2>1 DEF OwnedBy
      <3> QED
        BY <1>11, <2>1, <3>1, FS_EmptySet, BoundAssumption
    <2>2. CASE v # u
      <3>1. OwnedBy(v)' = OwnedBy(v)
        BY <1>6, <2>2 DEF OwnedBy
      <3> QED
        BY <1>11, <2>2, <3>1 DEF IInv, QuotaIsExact
    <2> QED
      BY <2>1, <2>2
  <1>19. UnusedIsChecked'
    <2> SUFFICES ASSUME NEW k \in Stored', row'[k].due = "never" PROVE InUse(k)'
      BY Zenon DEF UnusedIsChecked
    <2>1. k \in Stored /\ row'[k] = row[k]
      BY <1>3, <1>6, StoredType
    <2>2. InUse(k)
      BY <2>1 DEF IInv, UnusedIsChecked
    <2> QED
      BY <1>10, <2>2
  <1> QED
    BY <1>8, <1>12, <1>13, <1>14, <1>15, <1>16, <1>17, <1>18, <1>19 DEF IInv

-----------------------------------------------------------------------------
(* The invariant, and what follows from it *)

LEMMA InitIsSound == Init => IInv
  <1> SUFFICES ASSUME Init PROVE IInv
    OBVIOUS
  <1>1. Stored = {} /\ \A s \in Tasks : task[s] = Idle
    BY DEF Init, Stored
  <1>2. TablesOK
    BY IdleType DEF Init, TablesOK
  <1>3. AllSound /\ AllJudged /\ AllFit
    BY <1>1, IdleIsSound, IdleType DEF AllSound, AllJudged, AllFit
  <1>4. AllApart
    BY <1>1, IdleIsSound, IdleType DEF AllApart
  <1>5. Referenced /\ Queued
    BY <1>1 DEF Init, Referenced, Queued, Idle
  <1>6. QuotaIsExact
    <2>1. \A u \in Users : OwnedBy(u) = {}
      BY <1>1 DEF OwnedBy
    <2> QED
      BY <2>1, FS_EmptySet, BoundAssumption DEF Init, QuotaIsExact
  <1>7. UnusedIsChecked
    BY <1>1 DEF UnusedIsChecked
  <1> QED
    BY <1>2, <1>3, <1>4, <1>5, <1>6, <1>7 DEF IInv

LEMMA UploadCommitKeeps ==
    ASSUME IInv, NEW t \in Tasks, UploadCommit(t) \/ UploadReplyLost(t)
    PROVE  IInv'
  <1>1. spent' \in [Budgets -> Nat] /\ disk' \subseteq Uploads
    BY SpendType DEF IInv, TablesOK, UploadCommit, UploadReplyLost, Budgets
  <1>2. /\ UploadDone(t) /\ CommitUpload(t) /\ task' = [task EXCEPT ![t] = Idle]
        /\ UNCHANGED <<live, message, queue, issued>>
    BY DEF UploadCommit, UploadReplyLost
  <1> QED
    BY <1>1, <1>2, CommitUploadKeeps

LEMMA NextKeeps == IInv /\ [Next]_vars => IInv'
  <1> SUFFICES ASSUME IInv, [Next]_vars PROVE IInv'
    OBVIOUS
  <1>1. ASSUME NEW t \in Tasks, Step(t) PROVE IInv'
    BY <1>1, LockFileKeeps, ReserveKeeps, UploadCommitKeeps, ReuseKeeps, StoreKeeps,
       SendLockKeeps, SendCommitKeeps, ReleaseBeginKeeps, ReleaseUsedKeeps,
       ReleaseUnusedKeeps, ReleaseCommitKeeps, RemoveFileKeeps, DropEntryKeeps,
       AccountCommitKeeps
    DEF Step
  <1>2. ASSUME NEW t \in Tasks, NEW u \in Users, NEW files \in Requests, UploadBegin(t, u, files)
        PROVE  IInv'
    BY <1>2, UploadBeginKeeps
  <1>3. ASSUME NEW t \in Tasks, UploadFail(t) \/ UploadReplyLost(t)
        PROVE  IInv'
    BY <1>3, UploadFailKeeps, UploadCommitKeeps
  <1>4. ASSUME NEW t \in Tasks, NEW m \in Messages, NEW uploads \in SUBSET Uploads,
               SendBegin(t, m, uploads)
        PROVE  IInv'
    BY <1>4, SendBeginKeeps
  <1>5. ASSUME NEW t \in Tasks, NEW m \in Messages, DeleteMessage(t, m) PROVE IInv'
    BY <1>5, DeleteMessageKeeps
  <1>6. ASSUME NEW t \in Tasks, NEW ms \in SUBSET Messages, DeleteChannel(t, ms) PROVE IInv'
    BY <1>6, DeleteChannelKeeps
  <1>7. ASSUME NEW t \in Tasks, ReleaseBegin(t) PROVE IInv'
    BY <1>7, ReleaseBeginKeeps
  <1>8. ASSUME NEW t \in Tasks, NEW k \in Uploads, RetryBegin(t, k) \/ RemoveFails(t, k)
        PROVE  IInv'
    BY <1>8, RetryBeginKeeps, RemoveFailsKeeps
  <1>9. ASSUME NEW t \in Tasks, NEW u \in Users, AccountBegin(t, u) PROVE IInv'
    BY <1>9, AccountBeginKeeps
  <1>10. ASSUME NEW t \in Tasks, Fail(t) \/ Stop(t) PROVE IInv'
    BY <1>10, FailKeeps
  <1>11. ASSUME NEW k \in Uploads, GraceEnds(k) \/ DueArrives(k) PROVE IInv'
    BY <1>11, TimeKeeps
  <1>12. CASE UNCHANGED vars
    <2>1. /\ TablesOK' /\ AllSound' /\ AllJudged' /\ AllFit' /\ AllApart'
      BY <1>12 DEF IInv, vars, TablesOK, AllSound, Sound, AllJudged, Judged, InUse, AllFit, Fits,
                   Pending, AllApart, Apart, Doomed, Stored
    <2>2. Referenced' /\ Queued' /\ QuotaIsExact' /\ UnusedIsChecked'
      BY <1>12 DEF IInv, vars, Referenced, Queued, QuotaIsExact, OwnedBy, UnusedIsChecked,
                   InUse, Stored
    <2> QED
      BY <2>1, <2>2 DEF IInv
  <1>13. CASE Next
    BY <1>1, <1>2, <1>3, <1>4, <1>5, <1>6, <1>7, <1>8, <1>9, <1>10, <1>11, <1>13 DEF Next, Acts
  <1> QED
    BY <1>12, <1>13

LEMMA AlwaysSound == Spec => []IInv
  BY InitIsSound, NextKeeps, PTL DEF Spec

\* Types: every variable keeps its type, whatever the tasks do.
THEOREM TypeCorrect == Spec => []TypeOK
  <1> DEFINE Known == late \subseteq Uploads
  <1>1. Init => Known
    BY DEF Init
  <1>2. Known /\ [Next]_vars => Known'
    BY DEF Next, NoteLate, vars
  <1>3. IInv /\ Known => TypeOK
    BY DEF IInv, TypeOK
  <1> HIDE DEF Known
  <1> QED
    BY <1>1, <1>2, <1>3, AlwaysSound, PTL DEF Spec

\* storage_used_bytes is the size of what the user still has, and within the
\* quota, under any interleaving of uploads, releases and deletions, with any
\* failures, even of a commit's reply.
THEOREM QuotaIsAlwaysExact == Spec => []QuotaIsExact
  <1>1. IInv => QuotaIsExact
    BY DEF IInv
  <1> QED
    BY <1>1, AlwaysSound, PTL

\* An upload that no message uses is always still to be checked.
THEOREM UnusedIsAlwaysChecked == Spec => []UnusedIsChecked
  <1>1. IInv => UnusedIsChecked
    BY DEF IInv
  <1> QED
    BY <1>1, AlwaysSound, PTL

-----------------------------------------------------------------------------
(* Files of rows, when no commit's reply is lost *)

\* A step that removes at most files without a row and without a pending one.
LEMMA DiskKeeps ==
    ASSUME OnDisk, disk' = disk,
           Stored' \subseteq Stored \cup UNION {task[t].added : t \in Tasks},
           \A t \in Tasks : task'[t].added \subseteq task[t].added
    PROVE  OnDisk'
  <1>1. UNION {task[t].added : t \in Tasks} \subseteq disk
    BY DEF OnDisk
  <1> QED
    BY <1>1 DEF OnDisk

LEMMA DiskStep ==
    ASSUME Limit["lost_reply"] = 0
    PROVE  IInv /\ OnDisk /\ [Next]_vars => OnDisk'
  <1> SUFFICES ASSUME IInv, OnDisk, [Next]_vars
               PROVE  OnDisk'
    OBVIOUS
  <1>1. /\ task \in [Tasks -> TaskStates] /\ Idle.added = {}
        /\ \A s \in Tasks : task[s].added \cap Stored = {}
    BY DEF IInv, TablesOK, Idle, AllSound, Sound
  <1>2. ASSUME disk' = disk, row' = row, NEW t \in Tasks, NEW r,
               r.added \subseteq task[t].added, task' = [task EXCEPT ![t] = r]
        PROVE  OnDisk'
    BY <1>1, <1>2, DiskKeeps DEF Stored
  <1>3. ASSUME NEW t \in Tasks, NEW k \in Uploads, Store(t, k) PROVE OnDisk'
    <2>1. /\ Stored' = Stored /\ disk' = disk \cup {k}
          /\ \A s \in Tasks : task'[s].added \subseteq task[s].added \cup {k}
      BY <1>1, <1>3 DEF Store, tables, Stored, TaskStates
    <2> QED
      BY <2>1 DEF OnDisk
  <1>4. ASSUME NEW t \in Tasks, UploadCommit(t) PROVE OnDisk'
    <2>1. Stored' \subseteq Stored \cup task[t].added
      <3>1. task[t] \in TaskStates /\ Sound(task[t]) /\ task[t].op = "upload"
        BY <1>4, TaskType DEF IInv, AllSound, UploadCommit, UploadDone
      <3>2. \A k \in Uploads : k \notin task[t].added \cup task[t].locked => row'[k] = row[k]
        BY <1>4, <3>1 DEF UploadCommit, CommitUpload
      <3> QED
        BY <3>1, <3>2 DEF Stored, Sound
    <2>2. disk' = disk /\ \A s \in Tasks : task'[s].added \subseteq task[s].added
      BY <1>1, <1>4 DEF UploadCommit
    <2> QED
      BY <2>1, <2>2, DiskKeeps
  <1>5. ASSUME NEW t \in Tasks, UploadFail(t) PROVE OnDisk'
    <2>1. Stored' = Stored /\ disk' = disk \ task[t].added
          /\ \A s \in Tasks : task'[s].added = IF s = t THEN {} ELSE task[s].added
      BY <1>1, <1>5 DEF UploadFail, CleanedUpload, tables, Stored
    <2>2. \A s \in Tasks \ {t} : task[s].added \cap task[t].added = {}
      BY DEF IInv, AllApart, Apart
    <2> QED
      BY <1>1, <2>1, <2>2 DEF OnDisk
  <1>6. ASSUME NEW t \in Tasks, UploadReplyLost(t) PROVE FALSE
    <2>1. spent["lost_reply"] \in Nat /\ spent["lost_reply"] < 0
      BY <1>6 DEF UploadReplyLost, Spend, IInv, TablesOK, Budgets
    <2> QED
      BY <2>1
  <1>7. ASSUME NEW t \in Tasks, NEW k \in Uploads, RemoveFile(t, k) PROVE OnDisk'
    <2>1. /\ Stored' = Stored /\ disk' = disk \ {k}
          /\ \A s \in Tasks : task'[s].added = task[s].added
      BY <1>1, <1>7 DEF RemoveFile, tables, Stored, TaskStates
    <2>2. k \notin Stored /\ \A s \in Tasks : k \notin task[s].added
      <3>1. k \in Doomed(task[t]) /\ Sound(task[t]) /\ task[t].op \in {"clean", "retry"}
            /\ k \in task[t].todo
        BY <1>7 DEF RemoveFile, Doomed, IInv, AllSound
      <3> QED
        BY <3>1 DEF Sound, IInv, AllApart, Apart
    <2> QED
      BY <2>1, <2>2 DEF OnDisk
  <1>8. ASSUME NEW t \in Tasks, ReleaseCommit(t) PROVE OnDisk'
    <2>1. Stored' \subseteq Stored
      <3>1. \A k \in Uploads : k \notin task[t].locked => row'[k] = row[k] \/ row'[k] = None
        BY <1>8 DEF ReleaseCommit, IInv, AllJudged, Judged
      <3> QED
        BY <1>8, <3>1 DEF IInv, AllJudged, Judged, Stored, ReleaseCommit
    <2>2. disk' = disk /\ \A s \in Tasks : task'[s].added \subseteq task[s].added
      <3>1. task[t].gone \in SUBSET Uploads
        BY <1>1 DEF TaskStates
      <3> QED
        BY <1>1, <1>8, <3>1, CleaningType DEF ReleaseCommit
    <2> QED
      BY <2>1, <2>2, DiskKeeps
  <1>9. ASSUME NEW t \in Tasks, AccountCommit(t) PROVE OnDisk'
    <2>1. Stored' \subseteq Stored
      BY <1>9 DEF AccountCommit, Stored
    <2>2. disk' = disk /\ \A s \in Tasks : task'[s].added \subseteq task[s].added
      <3>1. task[t].todo \in SUBSET Uploads
        BY <1>1 DEF TaskStates
      <3> QED
        BY <1>1, <1>9, <3>1, CleaningType DEF AccountCommit
    <2> QED
      BY <2>1, <2>2, DiskKeeps
  <1>10. ASSUME NEW t \in Tasks, NEW ms \in SUBSET Messages, task[t] = Idle, Delete(t, ms)
         PROVE  Stored' = Stored
    BY <1>10, DeleteEffect
  <1>11. ASSUME NEW t \in Tasks, NEW m \in Messages, DeleteMessage(t, m) PROVE OnDisk'
    <2>1. Stored' = Stored /\ disk' = disk
      BY <1>10, <1>11 DEF DeleteMessage
    <2>2. \A s \in Tasks : task'[s].added \subseteq task[s].added
      BY <1>1, <1>11 DEF DeleteMessage, Idle
    <2> QED
      BY <2>1, <2>2, DiskKeeps
  <1>12. ASSUME NEW t \in Tasks, NEW ms \in SUBSET Messages, DeleteChannel(t, ms) PROVE OnDisk'
    <2>1. Stored' = Stored /\ disk' = disk /\ task' = task
      BY <1>10, <1>12 DEF DeleteChannel
    <2> QED
      BY <2>1 DEF OnDisk
  <1>13. ASSUME NEW k \in Uploads, GraceEnds(k) \/ DueArrives(k) PROVE OnDisk'
    <2>1. Stored' \subseteq Stored /\ disk' = disk /\ task' = task
      BY <1>13 DEF GraceEnds, DueArrives, Stored, IInv, TablesOK
    <2> QED
      BY <2>1 DEF OnDisk
  <1>14. ASSUME NEW t \in Tasks,
                \/ LockFile(t) \/ Reserve(t) \/ SendLock(t) \/ SendCommit(t)
                \/ ReleaseBegin(t) \/ Fail(t) \/ Stop(t)
         PROVE  OnDisk'
    <2>1. task[t] \in TaskStates
      BY <1>1
    <2>2. CASE LockFile(t)
      BY <1>2, <2>1, <2>2 DEF LockFile, tables, TaskStates
    <2>3. CASE Reserve(t)
      <3> DEFINE r == [task[t] EXCEPT !.reserved = TRUE, !.accounts = {task[t].user}]
      <3>1. r.added = task[t].added
        BY <2>1 DEF TaskStates
      <3>2. disk' = disk /\ row' = row /\ task' = [task EXCEPT ![t] = r]
        BY <2>3 DEF Reserve, tables
      <3> HIDE DEF r
      <3> QED
        BY <1>2, <3>1, <3>2
    <2>4. CASE SendLock(t)
      BY <1>1, <1>2, <2>1, <2>4 DEF SendLock, tables, TaskStates
    <2>5. CASE SendCommit(t)
      BY <1>1, <1>2, <2>5 DEF SendCommit
    <2>6. CASE ReleaseBegin(t)
      BY <1>1, <1>2, <2>6 DEF ReleaseBegin, tables, Idle
    <2>7. CASE Fail(t) \/ Stop(t)
      BY <1>1, <1>2, <2>7 DEF Fail, Stop, tables
    <2> QED
      BY <1>14, <2>2, <2>3, <2>4, <2>5, <2>6, <2>7
  <1>15. ASSUME NEW t \in Tasks, NEW k \in Uploads,
                \/ Reuse(t, k) \/ ReleaseUsed(t, k) \/ ReleaseUnused(t, k)
                \/ RetryBegin(t, k) \/ RemoveFails(t, k) \/ DropEntry(t, k)
         PROVE  OnDisk'
    <2> DEFINE clean == Cleaned([task[t] EXCEPT !.todo = @ \ {k}])
               drop == Cleaned([task[t] EXCEPT !.gone = @ \ {k}])
    <2>1. task[t] \in TaskStates
      BY <1>1
    <2>2. clean.added \subseteq task[t].added /\ drop.added \subseteq task[t].added
      BY <1>1, <2>1 DEF Cleaned, TaskStates
    <2>3. CASE Reuse(t, k)
      <3> DEFINE r == [task[t] EXCEPT !.locked = @ \cup {k}, !.files = Tail(@)]
      <3>1. r.added = task[t].added
        BY <2>1 DEF TaskStates
      <3>2. disk' = disk /\ row' = row /\ task' = [task EXCEPT ![t] = r]
        BY <2>3 DEF Reuse, tables
      <3> HIDE DEF r
      <3> QED
        BY <1>2, <3>1, <3>2
    <2>4. CASE ReleaseUsed(t, k)
      <3> DEFINE r == [task[t] EXCEPT !.todo = @ \ {k}, !.kept = @ \cup {k}]
      <3>1. r.added = task[t].added
        BY <2>1 DEF TaskStates
      <3>2. disk' = disk /\ row' = row /\ task' = [task EXCEPT ![t] = r]
        BY <2>4 DEF ReleaseUsed, tables
      <3> HIDE DEF r
      <3> QED
        BY <1>2, <3>1, <3>2
    <2>5. CASE ReleaseUnused(t, k)
      <3> DEFINE r == [task[t] EXCEPT !.todo = @ \ {k}, !.gone = @ \cup {k},
                                       !.accounts = @ \cup ({Owner[k]} \cap live)]
      <3>1. r.added = task[t].added
        BY <2>1 DEF TaskStates
      <3>2. disk' = disk /\ row' = row /\ task' = [task EXCEPT ![t] = r]
        BY <2>5 DEF ReleaseUnused, tables
      <3> HIDE DEF r
      <3> QED
        BY <1>2, <3>1, <3>2
    <2>6. CASE RetryBegin(t, k)
      BY <1>1, <1>2, <2>6 DEF RetryBegin, tables, Idle
    <2>7. CASE RemoveFails(t, k)
      <3>1. disk' = disk /\ row' = row /\ task' = [task EXCEPT ![t] = clean]
        BY <2>7 DEF RemoveFails, tables
      <3> HIDE DEF clean
      <3> QED
        BY <1>2, <2>2, <3>1
    <2>8. CASE DropEntry(t, k)
      <3>1. disk' = disk /\ row' = row /\ task' = [task EXCEPT ![t] = drop]
        BY <2>8 DEF DropEntry
      <3> HIDE DEF drop
      <3> QED
        BY <1>2, <2>2, <3>1
    <2> QED
      BY <1>15, <2>3, <2>4, <2>5, <2>6, <2>7, <2>8
  <1>16. ASSUME NEW t \in Tasks,
                \/ \E u \in Users, files \in Requests : UploadBegin(t, u, files)
                \/ \E m \in Messages, uploads \in SUBSET Uploads : SendBegin(t, m, uploads)
                \/ \E u \in Users : AccountBegin(t, u)
         PROVE  OnDisk'
    <2>1. CASE \E u \in Users, files \in Requests : UploadBegin(t, u, files)
      BY <1>1, <1>2, <2>1 DEF UploadBegin, tables, Idle
    <2>2. CASE \E m \in Messages, uploads \in SUBSET Uploads : SendBegin(t, m, uploads)
      BY <1>1, <1>2, <2>2 DEF SendBegin, tables, Idle
    <2>3. CASE \E u \in Users : AccountBegin(t, u)
      BY <1>1, <1>2, <2>3 DEF AccountBegin, tables, Idle
    <2> QED
      BY <1>16, <2>1, <2>2, <2>3
  <1>17. CASE UNCHANGED vars
    BY <1>17 DEF vars, OnDisk, Stored
  <1> QED
    BY <1>3, <1>4, <1>5, <1>6, <1>7, <1>8, <1>9, <1>11, <1>12, <1>13, <1>14, <1>15, <1>16,
       <1>17
    DEF Next, Acts, Step

\* The uploads of every stored message keep their rows and their files, whatever
\* releases, re-uploads, failures and deletions run at the same time, unless the
\* reply of an upload's commit is lost.
THEOREM UsedUploadsAlwaysStay ==
    ASSUME Limit["lost_reply"] = 0
    PROVE  Spec => []UsedUploadsStay
  <1>1. Init => OnDisk
    BY DEF Init, OnDisk, Stored, Idle
  <1>2. IInv /\ OnDisk => UsedUploadsStay
    BY DEF IInv, Referenced, OnDisk, UsedUploadsStay
  <1>3. IInv /\ OnDisk /\ [Next]_vars => OnDisk'
    BY DiskStep
  <1> QED
    BY <1>1, <1>2, <1>3, AlwaysSound, PTL DEF Spec

-----------------------------------------------------------------------------
(* Files of deleted rows *)

\* Files whose removal a task has seen to, and whose entry it may drop.
Removed(r) == IF r.op \in {"clean", "retry"} THEN r.gone ELSE {}

\* What a task has removed is gone for good: its id is never drawn again.
Settled(r) == Removed(r) \cap disk = {}
AllSettled == \A t \in Tasks : Settled(task[t])

\* A step that begins no deletion of an account, and keeps that invariant.
NoNewAccount == \A s \in Tasks : task'[s].op = "account" => task'[s] = task[s]
Settles == AllSettled' /\ NoNewAccount

Becomes(t, r) == task' = [task EXCEPT ![t] = r]

LEMMA SettledStep ==
    ASSUME TablesOK, AllSettled, NEW t \in Tasks, NEW r, r.op # "account",
           Becomes(t, r), disk' \subseteq disk, Removed(r) \cap disk' = {}
    PROVE  Settles
  <1>1. task \in [Tasks -> TaskStates] /\ task' = [task EXCEPT ![t] = r]
    BY DEF TablesOK, Becomes
  <1> SUFFICES ASSUME NEW s \in Tasks
               PROVE  /\ Removed(task'[s]) \cap disk' = {}
                      /\ task'[s].op = "account" => task'[s] = task[s]
    BY DEF Settles, NoNewAccount, AllSettled, Settled, Removed
  <1>2. CASE s = t
    BY <1>1, <1>2
  <1>3. CASE s # t
    <2>1. task'[s] = task[s]
      BY <1>1, <1>3
    <2> QED
      BY <2>1 DEF AllSettled, Settled
  <1> QED
    BY <1>2, <1>3

LEMMA SettledIdle == Idle.op # "account" /\ Removed(Idle) = {}
  BY DEF Idle, Removed

\* A step that goes on with an upload, a message or a release.
LEMMA SettledBusy ==
    ASSUME TablesOK, AllSettled, NEW t \in Tasks, NEW r,
           r.op \in {"upload", "send", "deleted", "release"},
           Becomes(t, r), disk' \subseteq disk
    PROVE  Settles
  <1>1. r.op # "account" /\ Removed(r) = {}
    BY DEF Removed
  <1> QED
    BY <1>1, SettledStep

LEMMA SettledToIdle ==
    ASSUME TablesOK, AllSettled, NEW t \in Tasks,
           Becomes(t, Idle), disk' \subseteq disk
    PROVE  Settles
  BY SettledIdle, SettledStep

LEMMA SettledUploads ==
    ASSUME IInv, AllSettled, NEW t \in Tasks,
           \/ \E u \in Users, files \in Requests : UploadBegin(t, u, files)
           \/ LockFile(t) \/ Reserve(t) \/ UploadCommit(t)
           \/ \E k \in Uploads : Reuse(t, k) \/ Store(t, k)
           \/ UploadFail(t) \/ UploadReplyLost(t)
    PROVE  Settles
  <1>1. TablesOK /\ task[t] \in TaskStates
    BY TaskType DEF IInv
  <1>2. CASE \E u \in Users, files \in Requests : UploadBegin(t, u, files)
    <2>1. PICK u \in Users, files \in Requests : UploadBegin(t, u, files)
      BY <1>2
    <2> DEFINE r == [Idle EXCEPT !.op = "upload", !.user = u, !.files = files]
    <2>2. r.op = "upload"
      BY DEF Idle
    <2>3. Becomes(t, r) /\ disk' = disk
      BY <2>1 DEF UploadBegin, Becomes
    <2> HIDE DEF r
    <2> QED
      BY <1>1, <2>2, <2>3, SettledBusy
  <1>3. CASE LockFile(t)
    <2> DEFINE r == [task[t] EXCEPT !.held = @ \cup {Head(task[t].files)}]
    <2>1. r.op = "upload"
      BY <1>1, <1>3 DEF LockFile, Uploading, TaskStates
    <2>2. Becomes(t, r) /\ disk' = disk
      BY <1>3 DEF LockFile, Becomes
    <2> HIDE DEF r
    <2> QED
      BY <1>1, <2>1, <2>2, SettledBusy
  <1>4. CASE Reserve(t)
    <2> DEFINE r == [task[t] EXCEPT !.reserved = TRUE, !.accounts = {task[t].user}]
    <2>1. r.op = "upload"
      BY <1>1, <1>4 DEF Reserve, Uploading, TaskStates
    <2>2. Becomes(t, r) /\ disk' = disk
      BY <1>4 DEF Reserve, Becomes
    <2> HIDE DEF r
    <2> QED
      BY <1>1, <2>1, <2>2, SettledBusy
  <1>5. CASE UploadCommit(t) \/ UploadFail(t) \/ UploadReplyLost(t)
    <2>1. Becomes(t, Idle) /\ disk' \subseteq disk
      BY <1>5 DEF UploadCommit, UploadFail, UploadReplyLost, Becomes
    <2> QED
      BY <1>1, <2>1, SettledToIdle
  <1>6. ASSUME NEW k \in Uploads, Reuse(t, k) PROVE Settles
    <2> DEFINE r == [task[t] EXCEPT !.locked = @ \cup {k}, !.files = Tail(@)]
    <2>1. r.op = "upload"
      BY <1>1, <1>6 DEF Reuse, Uploading, TaskStates
    <2>2. Becomes(t, r) /\ disk' = disk
      BY <1>6 DEF Reuse, Becomes
    <2> HIDE DEF r
    <2> QED
      BY <1>1, <2>1, <2>2, SettledBusy
  <1>7. ASSUME NEW k \in Uploads, Store(t, k) PROVE Settles
    <2> DEFINE r == [task[t] EXCEPT !.added = @ \cup {k}, !.reserved = FALSE,
                                    !.files = Tail(@)]
    <2>1. r.op = "upload"
      BY <1>1, <1>7 DEF Store, Uploading, TaskStates
    <2>2. Becomes(t, r) /\ disk' = disk \cup {k} /\ k \notin issued
      BY <1>7 DEF Store, Becomes
    <2> HIDE DEF r
    <2>3. ASSUME NEW s \in Tasks
          PROVE  /\ Removed(task'[s]) \cap disk' = {}
                 /\ task'[s].op = "account" => task'[s] = task[s]
      <3>1. task \in [Tasks -> TaskStates]
        BY <1>1 DEF TablesOK
      <3>2. CASE s = t
        BY <2>1, <2>2, <3>1, <3>2 DEF Removed, Becomes
      <3>3. CASE s # t
        <4>1. task'[s] = task[s] /\ Sound(task[s])
          BY <2>2, <3>1, <3>3 DEF IInv, AllSound, Becomes
        <4>2. k \notin Removed(task[s])
          BY <2>2, <4>1 DEF Sound, Removed
        <4> QED
          BY <2>2, <4>1, <4>2 DEF AllSettled, Settled
      <3> QED
        BY <3>2, <3>3
    <2> QED
      BY <2>3 DEF Settles, NoNewAccount, AllSettled, Settled, Removed
  <1> QED
    BY <1>2, <1>3, <1>4, <1>5, <1>6, <1>7

LEMMA SettledMessages ==
    ASSUME IInv, AllSettled, NEW t \in Tasks,
           \/ \E m \in Messages, uploads \in SUBSET Uploads : SendBegin(t, m, uploads)
           \/ SendLock(t) \/ SendCommit(t) \/ Fail(t) \/ Stop(t)
           \/ \E m \in Messages : DeleteMessage(t, m)
           \/ \E ms \in SUBSET Messages : DeleteChannel(t, ms)
    PROVE  Settles
  <1>1. TablesOK /\ task[t] \in TaskStates
    BY TaskType DEF IInv
  <1>2. ASSUME NEW m \in Messages, NEW uploads \in SUBSET Uploads, SendBegin(t, m, uploads)
        PROVE  Settles
    <2> DEFINE r == [Idle EXCEPT !.op = "send", !.message = m, !.todo = uploads]
    <2>1. r.op = "send"
      BY DEF Idle
    <2>2. Becomes(t, r) /\ disk' = disk
      BY <1>2 DEF SendBegin, Becomes
    <2> HIDE DEF r
    <2> QED
      BY <1>1, <2>1, <2>2, SettledBusy
  <1>3. CASE SendLock(t)
    <2> DEFINE r == [task[t] EXCEPT !.shared = task[t].todo]
    <2>1. r.op = "send"
      BY <1>1, <1>3 DEF SendLock, TaskStates
    <2>2. /\ \/ Becomes(t, r)
             \/ Becomes(t, Idle)
          /\ disk' = disk
      BY <1>3 DEF SendLock, Becomes
    <2> HIDE DEF r
    <2> QED
      BY <1>1, <2>1, <2>2, SettledBusy, SettledToIdle
  <1>4. CASE SendCommit(t) \/ Fail(t) \/ Stop(t)
    <2>1. Becomes(t, Idle) /\ disk' = disk
      BY <1>4 DEF SendCommit, Fail, Stop, Becomes
    <2> QED
      BY <1>1, <2>1, SettledToIdle
  <1>5. ASSUME NEW m \in Messages, DeleteMessage(t, m) PROVE Settles
    <2> DEFINE r == [Idle EXCEPT !.op = "deleted", !.todo = message[m]]
    <2>1. r.op = "deleted"
      BY DEF Idle
    <2>2. Becomes(t, r) /\ disk' = disk
      BY <1>5 DEF DeleteMessage, Becomes
    <2> HIDE DEF r
    <2> QED
      BY <1>1, <2>1, <2>2, SettledBusy
  <1>6. ASSUME NEW ms \in SUBSET Messages, DeleteChannel(t, ms) PROVE Settles
    <2>1. task' = task /\ disk' = disk
      BY <1>6 DEF DeleteChannel
    <2> QED
      BY <2>1 DEF Settles, NoNewAccount, AllSettled, Settled, Removed
  <1> QED
    BY <1>2, <1>3, <1>4, <1>5, <1>6

\* A task of delete_queued_files or of a retry goes on, or has nothing left.
LEMMA SettledCleaning ==
    ASSUME TablesOK, AllSettled, NEW t \in Tasks, NEW r,
           r.op \in {"clean", "retry"}, r.gone \subseteq task[t].gone,
           task[t].op \in {"clean", "retry"},
           Becomes(t, r) \/ Becomes(t, Cleaned(r)),
           disk' \subseteq disk
    PROVE  Settles
  <1>1. Removed(r) \cap disk' = {} /\ r.op # "account"
    BY DEF Settles, NoNewAccount, AllSettled, Settled, Removed
  <1>2. Cleaned(r) = r \/ Cleaned(r) = Idle
    BY DEF Cleaned
  <1> QED
    BY <1>1, <1>2, SettledStep, SettledToIdle

LEMMA SettledReleases ==
    ASSUME IInv, AllSettled, NEW t \in Tasks,
           \/ ReleaseBegin(t) \/ ReleaseCommit(t)
           \/ \E k \in Uploads : \/ ReleaseUsed(t, k) \/ ReleaseUnused(t, k)
                                 \/ RetryBegin(t, k) \/ RemoveFile(t, k)
                                 \/ RemoveFails(t, k) \/ DropEntry(t, k)
    PROVE  Settles
  <1>1. TablesOK /\ task[t] \in TaskStates
    BY TaskType DEF IInv
  <1>2. CASE ReleaseBegin(t)
    <2> DEFINE only == IF task[t].op = "deleted" THEN task[t].todo ELSE Uploads
               candidates == {k \in only \cap Stored : row[k].due = "now" /\ ~LockedAtAll(t, k)}
               r == [Idle EXCEPT !.op = "release", !.locked = candidates,
                                 !.todo = {k \in candidates : ~row[k].fresh}]
    <2>1. r.op = "release"
      BY DEF Idle
    <2>2. /\ \/ Becomes(t, r)
             \/ Becomes(t, Idle)
          /\ disk' = disk
      BY <1>2 DEF ReleaseBegin, Becomes
    <2> HIDE DEF r
    <2> QED
      BY <1>1, <2>1, <2>2, SettledBusy, SettledToIdle
  <1>3. CASE ReleaseCommit(t)
    <2> DEFINE r == [Idle EXCEPT !.op = "clean", !.todo = task[t].gone]
    <2>1. r.op = "clean" /\ r.gone = {}
      BY DEF Idle
    <2>2. Becomes(t, Cleaned(r)) /\ disk' = disk
      BY <1>3 DEF ReleaseCommit, Cleaning, Becomes
    <2> HIDE DEF r
    <2>3. Cleaned(r) = r \/ Cleaned(r) = Idle
      BY DEF Cleaned
    <2>4. Removed(r) = {} /\ r.op # "account"
      BY <2>1 DEF Removed
    <2> QED
      BY <1>1, <2>2, <2>3, <2>4, SettledStep, SettledToIdle
  <1>4. ASSUME NEW k \in Uploads, ReleaseUsed(t, k) PROVE Settles
    <2> DEFINE r == [task[t] EXCEPT !.todo = @ \ {k}, !.kept = @ \cup {k}]
    <2>1. r.op = "release"
      BY <1>1, <1>4 DEF ReleaseUsed, TaskStates
    <2>2. Becomes(t, r) /\ disk' = disk
      BY <1>4 DEF ReleaseUsed, Becomes
    <2> HIDE DEF r
    <2> QED
      BY <1>1, <2>1, <2>2, SettledBusy
  <1>5. ASSUME NEW k \in Uploads, ReleaseUnused(t, k) PROVE Settles
    <2> DEFINE r == [task[t] EXCEPT !.todo = @ \ {k}, !.gone = @ \cup {k},
                                    !.accounts = @ \cup ({Owner[k]} \cap live)]
    <2>1. r.op = "release"
      BY <1>1, <1>5 DEF ReleaseUnused, TaskStates
    <2>2. Becomes(t, r) /\ disk' = disk
      BY <1>5 DEF ReleaseUnused, Becomes
    <2> HIDE DEF r
    <2> QED
      BY <1>1, <2>1, <2>2, SettledBusy
  <1>6. ASSUME NEW k \in Uploads, RetryBegin(t, k) PROVE Settles
    <2> DEFINE r == [Idle EXCEPT !.op = "retry", !.todo = {k}]
    <2>1. r.op = "retry" /\ r.gone = {}
      BY DEF Idle
    <2>2. Becomes(t, r) /\ disk' = disk
      BY <1>6 DEF RetryBegin, Becomes
    <2> HIDE DEF r
    <2>3. Removed(r) = {} /\ r.op # "account"
      BY <2>1 DEF Removed
    <2> QED
      BY <1>1, <2>2, <2>3, SettledStep
  <1>7. ASSUME NEW k \in Uploads, RemoveFile(t, k) PROVE Settles
    <2> DEFINE r == [task[t] EXCEPT !.todo = @ \ {k}, !.gone = @ \cup {k}]
    <2>1. r.op \in {"clean", "retry"} /\ r.gone = task[t].gone \cup {k}
          /\ task[t].op \in {"clean", "retry"}
      BY <1>1, <1>7 DEF RemoveFile, TaskStates
    <2>2. Becomes(t, r) /\ disk' = disk \ {k}
      BY <1>7 DEF RemoveFile, Becomes
    <2> HIDE DEF r
    <2>3. Removed(r) \cap disk' = {} /\ r.op # "account"
      BY <2>1, <2>2 DEF Settles, NoNewAccount, AllSettled, Settled, Removed
    <2> QED
      BY <1>1, <2>2, <2>3, SettledStep
  <1>8. ASSUME NEW k \in Uploads, RemoveFails(t, k) PROVE Settles
    <2> DEFINE r == [task[t] EXCEPT !.todo = @ \ {k}]
    <2>1. r.op \in {"clean", "retry"} /\ r.gone = task[t].gone
          /\ task[t].op \in {"clean", "retry"}
      BY <1>1, <1>8 DEF RemoveFails, TaskStates
    <2>2. Becomes(t, Cleaned(r)) /\ disk' = disk
      BY <1>8 DEF RemoveFails, Becomes
    <2> HIDE DEF r
    <2> QED
      BY <1>1, <2>1, <2>2, SettledCleaning
  <1>9. ASSUME NEW k \in Uploads, DropEntry(t, k) PROVE Settles
    <2> DEFINE r == [task[t] EXCEPT !.gone = @ \ {k}]
    <2>1. r.op \in {"clean", "retry"} /\ r.gone \subseteq task[t].gone
          /\ task[t].op \in {"clean", "retry"}
      BY <1>1, <1>9 DEF DropEntry, TaskStates
    <2>2. Becomes(t, Cleaned(r)) /\ disk' = disk
      BY <1>9 DEF DropEntry, Becomes
    <2> HIDE DEF r
    <2> QED
      BY <1>1, <2>1, <2>2, SettledCleaning
  <1> QED
    BY <1>2, <1>3, <1>4, <1>5, <1>6, <1>7, <1>8, <1>9

LEMMA SettledCascade ==
    ASSUME IInv, AllSettled, NEW t \in Tasks, AccountCommit(t)
    PROVE  Settles
  <1> DEFINE r == [Idle EXCEPT !.op = "clean", !.todo = task[t].todo]
  <1>1. r.op = "clean" /\ r.gone = {} /\ TablesOK
    BY DEF Idle, IInv
  <1>2. Becomes(t, Cleaned(r)) /\ disk' = disk
    BY DEF AccountCommit, Cleaning, Becomes
  <1> HIDE DEF r
  <1>3. Cleaned(r) = r \/ Cleaned(r) = Idle
    BY DEF Cleaned
  <1>4. Removed(r) = {} /\ r.op # "account"
    BY <1>1 DEF Removed
  <1> QED
    BY <1>1, <1>2, <1>3, <1>4, SettledStep, SettledToIdle

\* Every other step of Acts.
LEMMA SettledKeeps ==
    ASSUME IInv, AllSettled, Acts \/ UNCHANGED vars,
           ~\E t \in Tasks, u \in Users : AccountBegin(t, u)
    PROVE  Settles
  <1>1. CASE \/ \E k \in Uploads : GraceEnds(k) \/ DueArrives(k)
             \/ UNCHANGED vars
    <2>1. task' = task /\ disk' = disk
      BY <1>1 DEF GraceEnds, DueArrives, vars
    <2> QED
      BY <2>1 DEF Settles, NoNewAccount, AllSettled, Settled, Removed
  <1> QED
    BY <1>1, SettledUploads, SettledMessages, SettledReleases, SettledCascade DEF Acts, Step

LEMMA SettledBegin ==
    ASSUME IInv, AllSettled, NEW t \in Tasks, NEW u \in Users, AccountBegin(t, u)
    PROVE  /\ AllSettled' /\ row' = row /\ t \in Tasks
           /\ \A s \in Tasks : task'[s].op = "account" =>
                  \/ task'[s] = task[s]
                  \/ task'[s].todo = OwnedBy(task'[s].user)
  <1> DEFINE r == [Idle EXCEPT !.op = "account", !.user = u, !.todo = OwnedBy(u)]
  <1>1. /\ task' = [task EXCEPT ![t] = r] /\ task \in [Tasks -> TaskStates]
        /\ row' = row /\ disk' = disk
    BY DEF AccountBegin, tables, IInv, TablesOK
  <1>2. r.op = "account" /\ r.todo = OwnedBy(r.user)
    BY DEF Idle
  <1> HIDE DEF r
  <1> SUFFICES ASSUME NEW s \in Tasks
               PROVE  /\ Removed(task'[s]) \cap disk' = {}
                      /\ task'[s] = task[s] \/ task'[s].todo = OwnedBy(task'[s].user)
    BY <1>1 DEF AllSettled, Settled, Removed
  <1>3. CASE s = t
    <2>1. task'[s] = r
      BY <1>1, <1>3
    <2> QED
      BY <1>2, <2>1 DEF Removed
  <1>4. CASE s # t
    <2>1. task'[s] = task[s]
      BY <1>1, <1>4
    <2> QED
      BY <1>1, <2>1 DEF AllSettled, Settled
  <1> QED
    BY <1>3, <1>4

\* What a deletion of an account has collected misses only what came later.
Collected ==
    \A t \in Tasks : task[t].op = "account" => OwnedBy(task[t].user) \subseteq task[t].todo \cup late

LEMMA CollectedKeeps ==
    ASSUME IInv, AllSettled, Collected, [Next]_vars
    PROVE  AllSettled' /\ Collected'
  <1>1. CASE UNCHANGED vars
    BY <1>1 DEF vars, AllSettled, Settled, Removed, Collected, OwnedBy, Stored
  <1>2. ASSUME Acts, NoteLate, NEW s \in Tasks, task'[s].op = "account", task'[s] = task[s]
        PROVE  OwnedBy(task[s].user)' \subseteq task'[s].todo \cup late'
    <2> SUFFICES ASSUME NEW k \in Uploads, row'[k] # None, Owner[k] = task[s].user
                 PROVE  k \in task[s].todo \cup late'
      BY <1>2 DEF OwnedBy, Stored
    <2>1. CASE row[k] = None
      BY <1>2, <2>1 DEF NoteLate
    <2>2. CASE row[k] # None
      BY <1>2, <2>2 DEF NoteLate, Collected, OwnedBy, Stored
    <2> QED
      BY <2>1, <2>2
  <1>3. ASSUME Acts, NoteLate, NEW t \in Tasks, NEW u \in Users, AccountBegin(t, u)
        PROVE  AllSettled' /\ Collected'
    <2>1. /\ AllSettled' /\ row' = row
          /\ \A s \in Tasks : task'[s].op = "account" =>
                 \/ task'[s] = task[s]
                 \/ task'[s].todo = OwnedBy(task'[s].user)
      BY <1>3, SettledBegin
    <2>2. ASSUME NEW s \in Tasks, task'[s].op = "account",
                 task'[s].todo = OwnedBy(task'[s].user)
          PROVE  OwnedBy(task[s].user)' \subseteq task'[s].todo \cup late'
      BY <2>1, <2>2 DEF OwnedBy, Stored
    <2> QED
      BY <1>2, <1>3, <2>1, <2>2 DEF Collected
  <1>4. CASE Acts /\ NoteLate /\ ~\E t \in Tasks, u \in Users : AccountBegin(t, u)
    <2>1. Settles
      BY <1>4, SettledKeeps
    <2> QED
      BY <1>2, <1>4, <2>1 DEF Settles, NoNewAccount, Collected
  <1> QED
    BY <1>1, <1>3, <1>4 DEF Next

\* A row that stays a row, whatever is written into it.
LEMMA RowStays ==
    ASSUME NEW r \in Rows, NEW due \in {"never", "now", "later"}, NEW fresh \in BOOLEAN
    PROVE  /\ r # None /\ [r EXCEPT !.due = due] # None /\ [r EXCEPT !.fresh = fresh] # None
           /\ PutOff(r) # None
  <1>1. /\ [r EXCEPT !.due = due] \in Rows /\ [r EXCEPT !.fresh = fresh] \in Rows
        /\ [r EXCEPT !.due = "later"] \in Rows
    BY DEF Rows
  <1> QED
    BY <1>1, NoneAssumption DEF PutOff

\* Only the commits of a release and of an account deletion delete rows. That of
\* a release queues their files, the other one what it has collected.
LEMMA RowsAreQueued ==
    ASSUME IInv, Collected, [Next]_vars, NEW k \in Uploads, row[k] # None
    PROVE  row'[k] # None \/ k \in queue' \/ (k \in late /\ Owner[k] \in live \ live')
  <1>1. row[k] \in Rows /\ [due |-> "now", fresh |-> TRUE] \in Rows
    BY DEF IInv, TablesOK, Rows
  <1>2. CASE row' = row
    BY <1>2
  <1>3. ASSUME NEW t \in Tasks, UploadCommit(t) \/ UploadReplyLost(t) PROVE row'[k] # None
    <2>1. row'[k] \in {[due |-> "now", fresh |-> TRUE], [row[k] EXCEPT !.fresh = TRUE], row[k]}
      BY <1>3 DEF UploadCommit, UploadReplyLost, CommitUpload
    <2> QED
      BY <1>1, <2>1, RowStays, NoneAssumption
  <1>4. ASSUME NEW t \in Tasks, NEW ms \in SUBSET Messages, Delete(t, ms) PROVE row'[k] # None
    <2>1. row'[k] \in {[row[k] EXCEPT !.due = "now"], row[k]}
      BY <1>4 DEF Delete, QueueChecks
    <2> QED
      BY <1>1, <2>1, RowStays
  <1>5. ASSUME NEW t \in Tasks, ReleaseCommit(t) PROVE row'[k] # None \/ k \in queue'
    <2>1. CASE k \in task[t].gone
      BY <1>5, <2>1 DEF ReleaseCommit, QueuedFiles
    <2>2. CASE k \notin task[t].gone
      <3>1. row'[k] \in {[row[k] EXCEPT !.due = "never"], PutOff(row[k]), row[k]}
        BY <1>5, <2>2 DEF ReleaseCommit
      <3> QED
        BY <1>1, <3>1, RowStays
    <2> QED
      BY <2>1, <2>2
  <1>6. ASSUME NEW i \in Uploads, GraceEnds(i) \/ DueArrives(i) PROVE row'[k] # None
    <2>1. row'[k] \in {[row[k] EXCEPT !.fresh = FALSE], [row[k] EXCEPT !.due = "now"], row[k]}
      BY <1>6 DEF GraceEnds, DueArrives, IInv, TablesOK
    <2> QED
      BY <1>1, <2>1, RowStays
  <1>7. CASE \/ \E t \in Tasks, u \in Users, files \in Requests : UploadBegin(t, u, files)
             \/ \E t \in Tasks, m \in Messages, uploads \in SUBSET Uploads :
                    SendBegin(t, m, uploads)
             \/ \E t \in Tasks, u \in Users : AccountBegin(t, u)
             \/ \E t \in Tasks : \/ LockFile(t) \/ Reserve(t) \/ SendLock(t) \/ SendCommit(t)
                                 \/ ReleaseBegin(t) \/ UploadFail(t) \/ Fail(t) \/ Stop(t)
             \/ \E t \in Tasks, i \in Uploads :
                    \/ Reuse(t, i) \/ Store(t, i) \/ ReleaseUsed(t, i) \/ ReleaseUnused(t, i)
                    \/ RemoveFile(t, i) \/ DropEntry(t, i) \/ RetryBegin(t, i)
                    \/ RemoveFails(t, i)
             \/ UNCHANGED vars
    <2>1. \A t \in Tasks, u \in Users, files \in Requests : UploadBegin(t, u, files) => row' = row
      BY DEF UploadBegin, tables
    <2>2. \A t \in Tasks, m \in Messages, uploads \in SUBSET Uploads :
              SendBegin(t, m, uploads) => row' = row
      BY DEF SendBegin, tables
    <2>3. \A t \in Tasks, u \in Users : AccountBegin(t, u) => row' = row
      BY DEF AccountBegin, tables
    <2>4. ASSUME NEW t \in Tasks,
                 \/ LockFile(t) \/ Reserve(t) \/ SendLock(t) \/ SendCommit(t)
                 \/ ReleaseBegin(t) \/ UploadFail(t) \/ Fail(t) \/ Stop(t)
          PROVE  row' = row
      BY <2>4 DEF LockFile, Reserve, SendLock, SendCommit, ReleaseBegin, UploadFail, Fail, Stop,
         tables
    <2>5. ASSUME NEW t \in Tasks, NEW i \in Uploads,
                 \/ Reuse(t, i) \/ Store(t, i) \/ ReleaseUsed(t, i) \/ ReleaseUnused(t, i)
                 \/ RemoveFile(t, i) \/ DropEntry(t, i) \/ RetryBegin(t, i) \/ RemoveFails(t, i)
          PROVE  row' = row
      BY <2>5 DEF Reuse, Store, ReleaseUsed, ReleaseUnused, RemoveFile, DropEntry, RetryBegin,
         RemoveFails, tables
    <2>6. UNCHANGED vars => row' = row
      BY DEF vars
    <2> QED
      BY <1>2, <1>7, <2>1, <2>2, <2>3, <2>4, <2>5, <2>6
  <1>8. ASSUME NEW t \in Tasks, NEW m \in Messages, DeleteMessage(t, m) PROVE row'[k] # None
    BY <1>4, <1>8 DEF DeleteMessage
  <1>9. ASSUME NEW t \in Tasks, NEW ms \in SUBSET Messages, DeleteChannel(t, ms)
        PROVE  row'[k] # None
    BY <1>4, <1>9 DEF DeleteChannel
  <1>10. ASSUME NEW t \in Tasks, AccountCommit(t)
         PROVE  row'[k] # None \/ k \in queue' \/ (k \in late /\ Owner[k] \in live \ live')
    <2>1. CASE Owner[k] = task[t].user
      <3>1. k \in task[t].todo \cup late
        BY <1>10, <2>1 DEF AccountCommit, Collected, OwnedBy, Stored
      <3>2. /\ queue' = queue \cup task[t].todo
            /\ Owner[k] \in live \ live'
        BY <1>10, <2>1 DEF AccountCommit, QueuedFiles
      <3> QED
        BY <3>1, <3>2
    <2>2. CASE Owner[k] # task[t].user
      BY <1>10, <2>2 DEF AccountCommit
    <2> QED
      BY <2>1, <2>2
  <1> QED
    BY <1>3, <1>5, <1>6, <1>7, <1>8, <1>9, <1>10 DEF Next, Acts, Step

\* An entry leaves the queue only once its file is gone.
LEMMA EntriesStay ==
    ASSUME IInv, AllSettled, [Next]_vars, NEW k \in queue, k \notin queue'
    PROVE  k \notin disk'
  <1>1. ASSUME NEW t \in Tasks, NEW i \in Uploads, DropEntry(t, i) PROVE k \notin disk'
    <2>1. k = i /\ disk' = disk /\ i \in Removed(task[t])
      BY <1>1 DEF DropEntry, Removed
    <2> QED
      BY <2>1 DEF AllSettled, Settled
  <1>2. ~\E t \in Tasks : ReleaseCommit(t) \/ AccountCommit(t)
    BY DEF ReleaseCommit, AccountCommit
  <1>3. queue' # queue
    OBVIOUS
  <1>4. ASSUME NEW t \in Tasks
        PROVE  /\ ~LockFile(t) /\ ~Reserve(t) /\ ~UploadCommit(t) /\ ~SendLock(t)
               /\ ~SendCommit(t) /\ ~ReleaseBegin(t) /\ ~UploadFail(t)
               /\ ~UploadReplyLost(t) /\ ~Fail(t) /\ ~Stop(t)
    BY <1>3 DEF LockFile, Reserve, UploadCommit, SendLock, SendCommit, ReleaseBegin, UploadFail,
       UploadReplyLost, Fail, Stop, tables
  <1>5. ASSUME NEW t \in Tasks, NEW i \in Uploads
        PROVE  /\ ~Reuse(t, i) /\ ~Store(t, i) /\ ~ReleaseUsed(t, i) /\ ~ReleaseUnused(t, i)
               /\ ~RemoveFile(t, i) /\ ~RetryBegin(t, i) /\ ~RemoveFails(t, i)
    BY <1>3 DEF Reuse, Store, ReleaseUsed, ReleaseUnused, RemoveFile, RetryBegin, RemoveFails,
       tables
  <1>6. ASSUME NEW t \in Tasks, NEW u \in Users
        PROVE  /\ ~AccountBegin(t, u)
               /\ \A files \in Requests : ~UploadBegin(t, u, files)
    BY <1>3 DEF AccountBegin, UploadBegin, tables
  <1>7. ASSUME NEW t \in Tasks, NEW m \in Messages
        PROVE  /\ ~DeleteMessage(t, m)
               /\ \A uploads \in SUBSET Uploads : ~SendBegin(t, m, uploads)
    BY <1>3 DEF DeleteMessage, SendBegin, tables
  <1>8. /\ \A t \in Tasks, ms \in SUBSET Messages : ~DeleteChannel(t, ms)
        /\ \A i \in Uploads : ~GraceEnds(i) /\ ~DueArrives(i)
        /\ ~UNCHANGED vars
    BY <1>3 DEF DeleteChannel, GraceEnds, DueArrives, vars
  <1>9. \E t \in Tasks, i \in Uploads : DropEntry(t, i)
    BY <1>2, <1>4, <1>5, <1>6, <1>7, <1>8 DEF Next, Acts, Step
  <1> QED
    BY <1>1, <1>9

\* A row that goes leaves its file in the queue, whatever uploads, releases,
\* account deletions, failures and stops run at the same time, unless it was committed
\* after the deletion of its account had collected the files and goes with the
\* account. An entry of the queue goes only after its file.
THEOREM DeletedRowsAreAlwaysQueued == Spec => DeletedRowsAreQueued
  <1>1. Init => AllSettled /\ Collected
    BY SettledIdle DEF Init, AllSettled, Settled, Collected
  <1>2. IInv /\ AllSettled /\ Collected /\ [Next]_vars => AllSettled' /\ Collected'
    BY CollectedKeeps
  <1>3. IInv /\ AllSettled /\ Collected /\ [Next]_vars =>
            [\A k \in Uploads :
                 /\ row[k] # None /\ row'[k] = None =>
                       k \in queue' \/ (k \in late /\ Owner[k] \in live \ live')
                 /\ k \in queue \ queue' => k \notin disk']_vars
    <2> SUFFICES ASSUME IInv, AllSettled, Collected, [Next]_vars, NEW k \in Uploads
                 PROVE  /\ row[k] # None /\ row'[k] = None =>
                              k \in queue' \/ (k \in late /\ Owner[k] \in live \ live')
                        /\ k \in queue \ queue' => k \notin disk'
      OBVIOUS
    <2>1. row[k] # None /\ row'[k] = None =>
              k \in queue' \/ (k \in late /\ Owner[k] \in live \ live')
      BY RowsAreQueued
    <2>2. k \in queue \ queue' => k \notin disk'
      BY EntriesStay
    <2> QED
      BY <2>1, <2>2
  <1> QED
    BY <1>1, <1>2, <1>3, AlwaysSound, PTL DEF Spec, DeletedRowsAreQueued
=============================================================================
