----------------------------- MODULE MCUploads -----------------------------
(* Small instances of Uploads for TLC: one user, two tasks. *)
EXTENDS Uploads, TLC

CONSTANTS t1, t2, u1, file1, file2, k1, k2, k3, m1, m2

OneUser == [k \in Uploads |-> u1]
OneAuthor == [m \in Messages |-> u1]

\* Two ids may be drawn for file1, and one for file2.
FileOf == [k \in Uploads |-> IF k = k3 THEN file2 ELSE file1]

Spending(uploads, sends, accounts, faults, lost) ==
    [b \in Budgets |-> CASE b = "upload" -> uploads
                         [] b = "send" -> sends
                         [] b = "account" -> accounts
                         [] b = "fault" -> faults
                         [] b = "lost_reply" -> lost]

AndAccount == Spending(2, 2, 1, 1, 0)
AndReplyLost == Spending(2, 1, 0, 1, 1)
OneUpload == Spending(1, 0, 1, 0, 0)
UploadsOnly == Spending(3, 0, 0, 0, 0)
ReplyLost == Spending(2, 1, 0, 0, 1)

Symmetry == Permutations({t1, t2}) \cup Permutations({k1, k2}) \cup Permutations({m1, m2})
=============================================================================
