------------------------------ MODULE Uploads ------------------------------
(***************************************************************************)
(* Uploaded files and the storage quota, from the upload to the removal of *)
(* the file (apps/server/src/routes/attachments.rs,                        *)
(* services/attachment_release.rs, the delete trigger of migration 055,    *)
(* and the parts of send_message, delete_message and delete_account that   *)
(* touch uploads).                                                         *)
(*                                                                         *)
(* A transaction's statements are steps of their own; what it wrote counts *)
(* from its commit on (READ COMMITTED), what it locked is in its task      *)
(* until it ends.  A statement that would wait for a lock is not enabled.  *)
(*                                                                         *)
(* Not here: every file has size 1, a batch of the release is never full,  *)
(* and avatars, which use the deletion queue only.                         *)
(***************************************************************************)
EXTENDS Naturals, Sequences, FiniteSets

CONSTANTS
    Tasks,     \* request handlers and background loops of all instances
    Users,
    Files,     \* what is in a file: hash, size, type and name
    Uploads,   \* upload ids; an id is drawn once and names the stored file too
    Messages,
    Owner,     \* the user an id is drawn for
    File,      \* the file it is drawn for
    Author,    \* who writes a message
    None,
    Quota,     \* files a user may keep
    Limit      \* bound: how often each of Budgets may happen

\* What users and machines do only so often: upload requests, messages sent,
\* accounts deleted, tasks that stop or meet an error, commits whose reply is
\* lost.
Budgets == {"upload", "send", "account", "fault", "lost_reply"}

ASSUME UploadsAssumption ==
    /\ IsFiniteSet(Uploads)
    /\ Owner \in [Uploads -> Users]
    /\ File \in [Uploads -> Files]
    /\ Author \in [Messages -> Users]
ASSUME BoundAssumption == Quota \in Nat /\ Limit \in [Budgets -> Nat]

VARIABLES
    live,     \* rows of users
    used,     \* users.storage_used_bytes
    row,      \* uploaded_attachments: when an upload is checked, and its grace
    message,  \* messages and dm_messages: the attachments of a stored message
    queue,    \* pending_file_deletions
    disk,     \* the stored files
    issued,   \* ids drawn so far
    task,     \* what each task is doing, and the locks its transaction holds
    spent,    \* how much of each budget is used
    late      \* history: uploads committed during a deletion of their account

vars == <<live, used, row, message, queue, disk, issued, task, spent, late>>
tables == <<live, used, row, message, queue>>

-----------------------------------------------------------------------------
(* Types *)

\* release_check_at (NULL, due, or at the end of the grace period), and
\* whether last_claimed_at is within UNUSED_UPLOAD_GRACE.
Rows == [due : {"never", "now", "later"}, fresh : BOOLEAN]

ASSUME NoneAssumption == None \notin Users \cup Messages \cup Rows

\* A task and its transaction: the request's user, message and files, and
\*   held      advisory locks on the user's files
\*   reserved  the quota for the next file is taken
\*   accounts  locked rows of users
\*   locked    upload rows locked FOR UPDATE
\*   shared    upload rows locked FOR SHARE
\*   added     upload rows inserted
\*   todo      ids yet to be handled
\*   kept      candidates found in use
\*   gone      candidates deleted; while cleaning, files removed
TaskStates ==
    [op : {"idle", "upload", "send", "deleted", "release", "clean", "retry", "account"},
     user : {None} \cup Users, message : {None} \cup Messages,
     files : Seq(Files), held : SUBSET Files, reserved : BOOLEAN,
     accounts : SUBSET Users, locked : SUBSET Uploads, shared : SUBSET Uploads,
     added : SUBSET Uploads, todo : SUBSET Uploads, kept : SUBSET Uploads,
     gone : SUBSET Uploads]

Idle == [op |-> "idle", user |-> None, message |-> None, files |-> <<>>, held |-> {},
         reserved |-> FALSE, accounts |-> {}, locked |-> {}, shared |-> {}, added |-> {},
         todo |-> {}, kept |-> {}, gone |-> {}]

TablesOK ==
    /\ live \subseteq Users
    /\ used \in [Users -> Nat]
    /\ row \in [Uploads -> Rows \cup {None}]
    /\ message \in [Messages -> {None} \cup SUBSET Uploads]
    /\ queue \subseteq Uploads
    /\ disk \subseteq Uploads
    /\ issued \subseteq Uploads
    /\ task \in [Tasks -> TaskStates]
    /\ spent \in [Budgets -> Nat]

TypeOK == TablesOK /\ late \subseteq Uploads

Init ==
    /\ live = Users
    /\ used = [u \in Users |-> 0]
    /\ row = [k \in Uploads |-> None]
    /\ message = [m \in Messages |-> None]
    /\ queue = {}
    /\ disk = {}
    /\ issued = {}
    /\ task = [t \in Tasks |-> Idle]
    /\ spent = [b \in Budgets |-> 0]
    /\ late = {}

-----------------------------------------------------------------------------
(* Helpers *)

Spend(budget) ==
    /\ spent[budget] < Limit[budget]
    /\ spent' = [spent EXCEPT ![budget] = @ + 1]

Stored == {k \in Uploads : row[k] # None}

\* A committed message uses the upload.
InUse(k) == \E m \in Messages : message[m] # None /\ k \in message[m]

OwnedBy(u) == {k \in Stored : Owner[k] = u}

\* Some other task's transaction locks the upload's row FOR UPDATE, or at all.
LockedByOther(t, k) == \E s \in Tasks \ {t} : k \in task[s].locked
LockedAtAll(t, k) == \E s \in Tasks \ {t} : k \in task[s].locked \cup task[s].shared

\* ... or the user's row.
AccountLocked(t, u) == \E s \in Tasks \ {t} : u \in task[s].accounts

\* The user's upload of the file the request is at, committed or its own.
Existing(t) ==
    {k \in Stored \cup task[t].added :
        Owner[k] = task[t].user /\ File[k] = Head(task[t].files)}

Uploading(t) == task[t].op = "upload" /\ task[t].files # <<>>
FileIsLocked(t) == Head(task[t].files) \in task[t].held

-----------------------------------------------------------------------------
(* Uploading *)

\* upload_attachments: one transaction for all files of the request.
UploadBegin(t, u, files) ==
    /\ task[t] = Idle
    /\ u \in live
    /\ Spend("upload")
    /\ task' = [task EXCEPT ![t] = [Idle EXCEPT !.op = "upload", !.user = u, !.files = files]]
    /\ UNCHANGED <<tables, disk, issued>>

\* acquire_transaction_lock for this user and this file.
LockFile(t) ==
    LET f == Head(task[t].files) IN
    /\ Uploading(t)
    /\ ~FileIsLocked(t)
    /\ \A s \in Tasks \ {t} : task[s].user = task[t].user => f \notin task[s].held
    /\ task' = [task EXCEPT ![t].held = @ \cup {f}]
    /\ UNCHANGED <<tables, disk, issued, spent>>

\* The file is there already: its row is locked and claimed again.
Reuse(t, k) ==
    /\ Uploading(t) /\ FileIsLocked(t) /\ ~task[t].reserved
    /\ k \in Existing(t)
    /\ ~LockedAtAll(t, k)
    /\ task' = [task EXCEPT ![t].locked = @ \cup {k}, ![t].files = Tail(@)]
    /\ UNCHANGED <<tables, disk, issued, spent>>

\* The quota is reserved in the user's row.
Reserve(t) ==
    LET u == task[t].user IN
    /\ Uploading(t) /\ FileIsLocked(t) /\ ~task[t].reserved
    /\ Existing(t) = {}
    /\ ~AccountLocked(t, u)
    /\ u \in live
    /\ used[u] + Cardinality(task[t].added) + 1 <= Quota
    /\ task' = [task EXCEPT ![t].reserved = TRUE, ![t].accounts = {u}]
    /\ UNCHANGED <<tables, disk, issued, spent>>

\* store_prepared_file under a new id, then the insert of its row.
Store(t, k) ==
    /\ Uploading(t) /\ task[t].reserved
    /\ k \notin issued
    /\ Owner[k] = task[t].user /\ File[k] = Head(task[t].files)
    /\ disk' = disk \cup {k}
    /\ issued' = issued \cup {k}
    /\ task' = [task EXCEPT ![t].added = @ \cup {k}, ![t].reserved = FALSE,
                            ![t].files = Tail(@)]
    /\ UNCHANGED <<tables, spent>>

\* The quota is used up or the account is gone (or, in a small instance, no id
\* is left to draw).
Refused(t) ==
    LET u == task[t].user IN
    /\ Uploading(t) /\ FileIsLocked(t) /\ Existing(t) = {}
    /\ IF task[t].reserved
       THEN \A k \in Uploads \ issued : Owner[k] # u \/ File[k] # Head(task[t].files)
       ELSE /\ ~AccountLocked(t, u)
            /\ u \notin live \/ used[u] + Cardinality(task[t].added) + 1 > Quota

\* What the commit of an upload makes visible: new rows are due at once, and
\* the grace period counts from now for them and for the reused ones.
CommitUpload(t) ==
    /\ row' = [k \in Uploads |->
                 CASE k \in task[t].added -> [due |-> "now", fresh |-> TRUE]
                   [] k \in task[t].locked \ task[t].added -> [row[k] EXCEPT !.fresh = TRUE]
                   [] OTHER -> row[k]]
    /\ used' = [used EXCEPT ![task[t].user] = @ + Cardinality(task[t].added)]

UploadDone(t) == task[t].op = "upload" /\ task[t].files = <<>>

UploadCommit(t) ==
    /\ UploadDone(t)
    /\ CommitUpload(t)
    /\ task' = [task EXCEPT ![t] = Idle]
    /\ UNCHANGED <<live, message, queue, disk, issued, spent>>

\* cleanup_failed_upload_files: what the request stored is removed.
CleanedUpload(t) == task[t].added

\* The request ends in an error (quota, validation, storage, database), or
\* PostgreSQL ends it as a deadlock's victim: rollback, then the files go.
UploadFail(t) ==
    /\ task[t].op = "upload"
    /\ disk' = disk \ CleanedUpload(t)
    /\ task' = [task EXCEPT ![t] = Idle]
    /\ UNCHANGED <<tables, issued, spent>>

\* The commit took effect but its reply was lost: the handler takes it for a
\* failure and removes the files.
UploadReplyLost(t) ==
    /\ UploadDone(t)
    /\ Spend("lost_reply")
    /\ CommitUpload(t)
    /\ disk' = disk \ CleanedUpload(t)
    /\ task' = [task EXCEPT ![t] = Idle]
    /\ UNCHANGED <<live, message, queue, issued>>

-----------------------------------------------------------------------------
(* Messages *)

\* send_message and send_dm_message, normalize_attachments_for_storage: every
\* attachment must be an upload of the author.
SendBegin(t, m, uploads) ==
    /\ task[t] = Idle
    /\ message[m] = None
    /\ \A s \in Tasks : task[s].message # m
    /\ uploads # {} /\ uploads \subseteq OwnedBy(Author[m])
    /\ Spend("send")
    /\ task' = [task EXCEPT ![t] = [Idle EXCEPT !.op = "send", !.message = m, !.todo = uploads]]
    /\ UNCHANGED <<tables, disk, issued>>

\* Slip: the message is stored without asking for its uploads again.
AvailableUnchecked(t) == TRUE

\* lock_uploads_for_message found every upload.
Available(t) == task[t].todo \subseteq Stored

\* lock_uploads_for_message: waits out whoever locks an upload's row, then
\* refuses the message when an upload is gone.
SendLock(t) ==
    /\ task[t].op = "send" /\ task[t].shared = {}
    /\ \A k \in task[t].todo : ~LockedByOther(t, k)
    /\ task' = [task EXCEPT ![t] = IF Available(t)
                                   THEN [@ EXCEPT !.shared = task[t].todo]
                                   ELSE Idle]
    /\ UNCHANGED <<tables, disk, issued, spent>>

SendCommit(t) ==
    /\ task[t].op = "send" /\ task[t].shared # {}
    /\ message' = [message EXCEPT ![task[t].message] = task[t].shared]
    /\ task' = [task EXCEPT ![t] = Idle]
    /\ UNCHANGED <<live, used, row, queue, disk, issued, spent>>

\* Slip: the trigger leaves an upload alone that was found in use.
QueueChecksOfDue(uploads) ==
    [k \in Uploads |-> IF k \in uploads \cap Stored /\ row[k].due # "never"
                       THEN [row[k] EXCEPT !.due = "now"] ELSE row[k]]

\* queue_attachment_release_check, the trigger of migration 055.
QueueChecks(uploads) ==
    [k \in Uploads |-> IF k \in uploads \cap Stored
                       THEN [row[k] EXCEPT !.due = "now"] ELSE row[k]]

UsedBy(ms) == UNION {message[m] : m \in {n \in ms : message[n] # None}}

\* Messages are deleted; the trigger waits for the rows of their uploads.
Delete(t, ms) ==
    /\ \A k \in UsedBy(ms) : ~LockedAtAll(t, k)
    /\ message' = [m \in Messages |-> IF m \in ms THEN None ELSE message[m]]
    /\ row' = QueueChecks(UsedBy(ms))

\* delete_message and delete_dm_message; the release of its uploads follows.
DeleteMessage(t, m) ==
    /\ task[t] = Idle
    /\ message[m] # None
    /\ Delete(t, {m})
    /\ task' = [task EXCEPT ![t] = [Idle EXCEPT !.op = "deleted", !.todo = message[m]]]
    /\ UNCHANGED <<live, used, queue, disk, issued, spent>>

\* Messages go with their channel, server or conversation.
DeleteChannel(t, ms) ==
    /\ task[t] = Idle
    /\ \A m \in ms : message[m] # None
    /\ ms # {}
    /\ Delete(t, ms)
    /\ UNCHANGED <<live, used, queue, disk, issued, task, spent>>

-----------------------------------------------------------------------------
(* Releasing *)

\* release_unused_uploads begins: the due uploads (of a deleted message, or
\* all) whose rows nobody locks.  Those in their grace period are not looked
\* at any further.
ReleaseBegin(t) ==
    LET only == IF task[t].op = "deleted" THEN task[t].todo ELSE Uploads
        candidates == {k \in only \cap Stored : row[k].due = "now" /\ ~LockedAtAll(t, k)}
    IN
    /\ task[t] = Idle \/ task[t].op = "deleted"
    /\ task[t] = Idle => candidates # {}
    /\ task' = [task EXCEPT ![t] =
                   IF candidates = {} THEN Idle
                   ELSE [Idle EXCEPT !.op = "release", !.locked = candidates,
                                     !.todo = {k \in candidates : ~row[k].fresh}]]
    /\ UNCHANGED <<tables, disk, issued, spent>>

\* A candidate that a message uses is not checked again until that is deleted.
ReleaseUsed(t, k) ==
    /\ task[t].op = "release" /\ k \in task[t].todo
    /\ InUse(k)
    /\ task' = [task EXCEPT ![t].todo = @ \ {k}, ![t].kept = @ \cup {k}]
    /\ UNCHANGED <<tables, disk, issued, spent>>

\* An unused candidate: its row is deleted, then the owner's quota updated.
ReleaseUnused(t, k) ==
    /\ task[t].op = "release" /\ k \in task[t].todo
    /\ ~InUse(k)
    /\ ~AccountLocked(t, Owner[k])
    /\ task' = [task EXCEPT ![t].todo = @ \ {k}, ![t].gone = @ \cup {k},
                            ![t].accounts = @ \cup ({Owner[k]} \cap live)]
    /\ UNCHANGED <<tables, disk, issued, spent>>

\* Slip: the size is returned for every candidate.
ReturnedForAll(t, u) == Cardinality({k \in task[t].locked : Owner[k] = u})

\* What storage_used_bytes goes down by.
Returned(t, u) == Cardinality({k \in task[t].gone : Owner[k] = u})

\* Slip: the rows go, but the files are not queued.
QueuedFilesNone(uploads) == {}

\* Slip: the owner's id is queued in place of the storage key.
QueuedFilesOwners(uploads) == {Owner[k] : k \in uploads}

\* queue_file_deletions, in the transaction that deletes the rows.
QueuedFiles(uploads) == uploads

\* Slip: a candidate in its grace period is not checked again.
PutOffForEver(r) == [r EXCEPT !.due = "never"]

\* A candidate in its grace period is checked again at the end of it.
PutOff(r) == [r EXCEPT !.due = "later"]

\* A task of delete_queued_files or of a retry that has nothing left to do.
Cleaned(s) == IF s.todo \cup s.gone = {} THEN Idle ELSE s

\* delete_queued_files, for what was deleted.
Cleaning(uploads) == Cleaned([Idle EXCEPT !.op = "clean", !.todo = uploads])

ReleaseCommit(t) ==
    LET r == task[t] IN
    /\ r.op = "release" /\ r.todo = {}
    /\ row' = [k \in Uploads |->
                 CASE k \in r.gone -> None
                   [] k \in r.kept -> [row[k] EXCEPT !.due = "never"]
                   [] k \in r.locked \ (r.gone \cup r.kept) -> PutOff(row[k])
                   [] OTHER -> row[k]]
    /\ used' = [u \in Users |-> IF Returned(t, u) <= used[u] THEN used[u] - Returned(t, u) ELSE 0]
    /\ queue' = queue \cup QueuedFiles(r.gone)
    /\ task' = [task EXCEPT ![t] = Cleaning(r.gone)]
    /\ UNCHANGED <<live, message, disk, issued, spent>>

\* retry_pending_file_deletions takes an entry no other retry has.
RetryBegin(t, k) ==
    /\ task[t] = Idle
    /\ k \in queue
    /\ \A s \in Tasks : task[s].op = "retry" => k \notin task[s].todo \cup task[s].gone
    /\ task' = [task EXCEPT ![t] = [Idle EXCEPT !.op = "retry", !.todo = {k}]]
    /\ UNCHANGED <<tables, disk, issued, spent>>

\* delete_file_by_storage_key; a file that is gone counts as removed.
RemoveFile(t, k) ==
    /\ task[t].op \in {"clean", "retry"} /\ k \in task[t].todo
    /\ disk' = disk \ {k}
    /\ task' = [task EXCEPT ![t].todo = @ \ {k}, ![t].gone = @ \cup {k}]
    /\ UNCHANGED <<tables, issued, spent>>

\* The removal failed; the entry stays for a later retry.
RemoveFails(t, k) ==
    /\ task[t].op \in {"clean", "retry"} /\ k \in task[t].todo
    /\ Spend("fault")
    /\ task' = [task EXCEPT ![t] = Cleaned([task[t] EXCEPT !.todo = @ \ {k}])]
    /\ UNCHANGED <<tables, disk, issued>>

DropEntry(t, k) ==
    /\ task[t].op \in {"clean", "retry"} /\ k \in task[t].gone
    /\ queue' = queue \ {k}
    /\ task' = [task EXCEPT ![t] = Cleaned([task[t] EXCEPT !.gone = @ \ {k}])]
    /\ UNCHANGED <<live, used, row, message, disk, issued, spent>>

-----------------------------------------------------------------------------
(* Accounts, time, failures *)

\* delete_account collects the files of the account first.
AccountBegin(t, u) ==
    /\ task[t] = Idle
    /\ u \in live
    /\ Spend("account")
    /\ task' = [task EXCEPT ![t] = [Idle EXCEPT !.op = "account", !.user = u,
                                                !.todo = OwnedBy(u)]]
    /\ UNCHANGED <<tables, disk, issued>>

\* Its messages and the user go, and the user's upload rows with the user
\* (ON DELETE CASCADE); the collected files are queued.
AccountCommit(t) ==
    LET u == task[t].user
        ms == {m \in Messages : Author[m] = u}
    IN
    /\ task[t].op = "account"
    /\ u \in live
    /\ ~AccountLocked(t, u)
    /\ \A k \in OwnedBy(u) : ~LockedAtAll(t, k)
    /\ live' = live \ {u}
    /\ message' = [m \in Messages |-> IF m \in ms THEN None ELSE message[m]]
    /\ row' = [k \in Uploads |-> IF Owner[k] = u THEN None ELSE row[k]]
    /\ used' = [used EXCEPT ![u] = 0]
    /\ queue' = queue \cup QueuedFiles(task[t].todo)
    /\ task' = [task EXCEPT ![t] = Cleaning(task[t].todo)]
    /\ UNCHANGED <<disk, issued, spent>>

\* UNUSED_UPLOAD_GRACE has passed since the upload was last claimed.
GraceEnds(k) ==
    /\ k \in Stored /\ row[k].fresh
    /\ row' = [row EXCEPT ![k].fresh = FALSE]
    /\ UNCHANGED <<live, used, message, queue, disk, issued, task, spent>>

\* A check put off to the end of a grace period is due.
DueArrives(k) ==
    /\ k \in Stored /\ row[k].due = "later"
    /\ row' = [row EXCEPT ![k].due = "now"]
    /\ UNCHANGED <<live, used, message, queue, disk, issued, task, spent>>

\* t's next statement waits for a lock of s.
WaitsFor(t, s) ==
    \/ /\ Uploading(t) /\ ~FileIsLocked(t)
       /\ task[s].user = task[t].user /\ Head(task[t].files) \in task[s].held
    \/ /\ Uploading(t) /\ FileIsLocked(t) /\ ~task[t].reserved
       /\ Existing(t) \cap (task[s].locked \cup task[s].shared) # {}
    \/ /\ Uploading(t) /\ FileIsLocked(t) /\ ~task[t].reserved
       /\ Existing(t) = {} /\ task[t].user \in task[s].accounts
    \/ /\ task[t].op = "send" /\ task[t].shared = {}
       /\ task[t].todo \cap task[s].locked # {}
    \/ /\ task[t].op = "release" /\ task[t].todo # {}
       /\ \A k \in task[t].todo : ~InUse(k) /\ Owner[k] \in task[s].accounts

\* t is one of several tasks that wait for each other.
Deadlocked(t) ==
    \E ring \in SUBSET Tasks :
        /\ t \in ring
        /\ \A s \in ring : \E r \in ring \ {s} : WaitsFor(s, r)

\* PostgreSQL ends a send or a release as a deadlock's victim, or it meets an
\* error: rollback.
Fail(t) ==
    /\ task[t].op \in {"send", "deleted", "release", "account"}
    /\ \/ Deadlocked(t) /\ UNCHANGED spent
       \/ Spend("fault")
    /\ task' = [task EXCEPT ![t] = Idle]
    /\ UNCHANGED <<tables, disk, issued>>

\* The process stops, or the request is dropped with its connection: the
\* transaction is rolled back and nothing else happens.
Stop(t) ==
    /\ task[t].op \in {"upload", "clean", "retry"}
    /\ Spend("fault")
    /\ task' = [task EXCEPT ![t] = Idle]
    /\ UNCHANGED <<tables, disk, issued>>

-----------------------------------------------------------------------------

\* Requests of up to two files.
Requests == {<<f>> : f \in Files} \cup (Files \X Files)

\* What a started task goes on with.
Step(t) ==
    \/ LockFile(t) \/ Reserve(t) \/ UploadCommit(t)
    \/ \E k \in Uploads : Reuse(t, k) \/ Store(t, k)
    \/ SendLock(t) \/ SendCommit(t)
    \/ task[t].op = "deleted" /\ ReleaseBegin(t)
    \/ \E k \in Uploads : ReleaseUsed(t, k) \/ ReleaseUnused(t, k)
    \/ ReleaseCommit(t)
    \/ \E k \in Uploads : RemoveFile(t, k) \/ DropEntry(t, k)
    \/ AccountCommit(t)

Acts ==
    \/ \E t \in Tasks, u \in Users, files \in Requests : UploadBegin(t, u, files)
    \/ \E t \in Tasks : Step(t) \/ UploadFail(t) \/ UploadReplyLost(t)
    \/ \E t \in Tasks, m \in Messages, uploads \in SUBSET Uploads : SendBegin(t, m, uploads)
    \/ \E t \in Tasks, m \in Messages : DeleteMessage(t, m)
    \/ \E t \in Tasks, ms \in SUBSET Messages : DeleteChannel(t, ms)
    \/ \E t \in Tasks : task[t] = Idle /\ ReleaseBegin(t)
    \/ \E t \in Tasks, k \in Uploads : RetryBegin(t, k) \/ RemoveFails(t, k)
    \/ \E t \in Tasks, u \in Users : AccountBegin(t, u)
    \/ \E t \in Tasks : Fail(t) \/ Stop(t)
    \/ \E k \in Uploads : GraceEnds(k) \/ DueArrives(k)

\* The uploads that a deletion of their account did not see when it collected
\* its files, and that were committed before its cascade.
NoteLate ==
    late' = late \cup {k \in Uploads :
                         /\ row[k] = None /\ row'[k] # None
                         /\ \E t \in Tasks : task[t].op = "account" /\ task[t].user = Owner[k]}

Next == Acts /\ NoteLate

Spec == Init /\ [][Next]_vars

\* A started task goes on, and a waiting statement gets its lock in turn (the
\* lock queue of PostgreSQL, hence SF); a deadlock is broken, the loop of main.rs
\* releases and retries every ten minutes, and time passes.
Fairness ==
    /\ \A t \in Tasks :
        /\ SF_vars(Step(t) /\ NoteLate)
        /\ WF_vars(Deadlocked(t) /\ (UploadFail(t) \/ Fail(t)) /\ NoteLate)
        /\ WF_vars(Refused(t) /\ UploadFail(t) /\ NoteLate)
    /\ WF_vars((\E t \in Tasks : task[t] = Idle /\ ReleaseBegin(t)) /\ NoteLate)
    /\ \A k \in Uploads :
        /\ WF_vars((\E t \in Tasks : RetryBegin(t, k)) /\ NoteLate)
        /\ WF_vars(GraceEnds(k) /\ NoteLate)
        /\ WF_vars(DueArrives(k) /\ NoteLate)

FairSpec == Spec /\ Fairness

-----------------------------------------------------------------------------
(* Properties *)

\* "An upload either stays until the message is committed and counts as used,
\* or it is gone and the message is refused" (lock_uploads_for_message): the
\* attachments of every stored message have their row and their file, whatever
\* releases, re-uploads and deletions run meanwhile.
UsedUploadsStay ==
    \A m \in Messages :
        message[m] # None => message[m] \subseteq Stored \cap disk

\* "The quota is the size of the clean uploads a user still has" (migration
\* 055), and it is never above the limit: uploads that race for the last
\* space, releases, failed requests and re-uploads neither lose nor leak any.
QuotaIsExact ==
    \A u \in Users : used[u] = Cardinality(OwnedBy(u)) /\ used[u] <= Quota

\* No upload is forgotten: one that no message uses is going to be checked
\* again, however its last message's deletion raced with a check that still
\* found it in use.
UnusedIsChecked ==
    \A k \in Stored : row[k].due = "never" => InUse(k)

\* "Files whose rows are deleted are queued in pending_file_deletions in the
\* same transaction.  The queue entry is dropped once the file is gone": no file
\* is left behind that nothing knows of, whatever releases, retries and account
\* deletions overlap.  One case is excepted, where the code forgets a file: the
\* upload was committed after the deletion of its account had collected the
\* files, and its row goes with the account.
DeletedRowsAreQueued ==
    [][\A k \in Uploads :
          /\ row[k] # None /\ row'[k] = None =>
                k \in queue' \/ (k \in late /\ Owner[k] \in live \ live')
          /\ k \in queue \ queue' => k \notin disk']_vars

\* The same without the exception.
AllRowsAreQueued ==
    [][\A k \in Uploads : row[k] # None /\ row'[k] = None => k \in queue']_vars

\* "The row lock above waits out a concurrent release" (the reused upload in
\* process_attachment_upload): a release never waits for the upload in turn.
ReleaseIsWaitedOut ==
    \A t, s \in Tasks :
        ~(task[t].op = "upload" /\ task[s].op = "release" /\ WaitsFor(t, s) /\ WaitsFor(s, t))

\* An upload that no message uses is removed, its row (and with it its share of
\* the quota) and its file, unless a message comes to use it: "anything skipped
\* here is picked up by the periodic release", a removal that failed is retried,
\* and a row whose file went with a lost reply of its commit goes too.
UnusedIsFreed ==
    \A k \in Uploads :
        k \in Stored /\ ~InUse(k) ~> k \notin Stored \cup disk \/ InUse(k)
=============================================================================
