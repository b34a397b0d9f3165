--------------------------- MODULE MCVoiceCluster ---------------------------
(* Small instances of VoiceCluster for TLC: two backend instances and two   *)
(* connections of one account (two tabs, or a socket and its reconnect).    *)
(* No action reads another user's entries, so one user is enough.           *)
EXTENDS VoiceCluster, TLC

CONSTANTS A, B, u1, c1, c2, x

OneUser == [c \in Connections |-> u1]

\* No socket is open at the start, or both are on one instance, or one on each.
NoSockets == [c \in Connections |-> None]
BothOnA == [c \in Connections |-> A]
OneEach == [c \in Connections |-> IF c = c1 THEN A ELSE B]

\* How often sockets open, users join, somebody removes the user, the bus
\* loses a delivery, and an instance or its access to Redis fails.
Spending(connects, joins, revokes, losses, failures) ==
    [b \in Budgets |-> CASE b = "connect" -> connects
                         [] b = "join" -> joins
                         [] b = "revoke" -> revokes
                         [] b = "loss" -> losses
                         [] b = "failure" -> failures]

TwoJoinsRevoke == Spending(1, 2, 1, 0, 0)
OpenTwoJoins == Spending(0, 2, 0, 0, 0)
OpenTwoJoinsLoss == Spending(0, 2, 0, 1, 0)
JoinFailure == Spending(1, 1, 0, 0, 1)

Tabs == Permutations({c1, c2})
=============================================================================
