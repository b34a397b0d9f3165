---------------------------- MODULE MCVoiceMove ----------------------------
(* Small instances of VoiceMove for TLC: two instances, two requests to    *)
(* move the member, who has one tab.                                       *)
EXTENDS VoiceMove, TLC

CONSTANTS A, B, m1, m2, t1, x, y

\* Both moderators on A, or one on each instance; the tab on B.
ModeratorsOnA == [m \in Moves |-> A]
ModeratorEach == [m \in Moves |-> IF m = m1 THEN A ELSE B]
TabsOnB == [t \in Tabs |-> B]

\* One moderator wants the member in each channel.
OneToEach == [m \in Moves |-> IF m = m1 THEN x ELSE y]
BothToX == [m \in Moves |-> x]

Spending(joins, connects, closes) ==
    [b \in Budgets |-> CASE b = "join" -> joins
                         [] b = "connect" -> connects
                         [] b = "close" -> closes]

TwoJoinsClose == Spending(2, 1, 1)
JoinOnly == Spending(1, 0, 0)
=============================================================================
