-------------------------- MODULE MCClientMessages --------------------------
(* Bounds for checking ClientMessages: two channels, two messages sent, and *)
(* for each run a set of scenarios, each with its own budgets.               *)
EXTENDS ClientMessages

CONSTANTS ch1, ch2, a1, a2, text1

TwoChannels == {ch1, ch2}
TwoAttempts == {a1, a2}
Scenario(budget) ==
    [what \in Budgets |-> IF what \in DOMAIN budget THEN budget[what] ELSE 0]

Switching == Scenario([open |-> 2, send |-> 1, post |-> 1, drop |-> 1])
Failing == Scenario([open |-> 2, send |-> 1, retry |-> 1, drop |-> 1, fail |-> 1])
Resending == Scenario([open |-> 1, send |-> 2, retry |-> 1, discard |-> 1, fail |-> 1, remove |-> 1])
Returning == Scenario([open |-> 3, send |-> 1, fail |-> 1])
Reading == Scenario([open |-> 1, older |-> 1, post |-> 3, remove |-> 1])
Jumping == Scenario([open |-> 2, jump |-> 1, post |-> 3])
Deleting == Scenario([open |-> 1, post |-> 2, delete |-> 1, remove |-> 1])
Away == Scenario([open |-> 2, leave |-> 1, post |-> 2, drop |-> 1])

Everyday == {Switching, Failing, Resending, Returning, Reading, Jumping, Deleting, Away}
OneLeave == {Scenario([open |-> 1, leave |-> 1, post |-> 1])}
=============================================================================
