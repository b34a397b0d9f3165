---------------------------- MODULE MCVoiceCall ----------------------------
(* Bounds for checking VoiceCall: two channels, two joins. *)
EXTENDS VoiceCall

CONSTANTS chan1, chan2

VoiceChannels == {chan1, chan2}
Spending(budget) ==
    [what \in Spendable |-> IF what \in DOMAIN budget THEN budget[what] ELSE 0]

OneOfEach ==
    Spending([leave |-> 1, navigate |-> 1, unplug |-> 1, fail |-> 1, lost |-> 1,
              drop |-> 1, elsewhere |-> 1, revoke |-> 1])
=============================================================================
