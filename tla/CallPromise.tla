---------------------------- MODULE CallPromise ----------------------------
(***************************************************************************)
(* What a voice call promises to the person at the browser tab: the        *)
(* microphone is open only in a call or while a requested one is being set *)
(* up, one request is handled at a time, and a request that was dropped    *)
(* (cancelled, failed, superseded) never turns into a call.                *)
(***************************************************************************)
CONSTANTS Channels, None

VARIABLES
    call,      \* the channel the tab is in, or None
    request,   \* "none", "open" or "dropped" but not yet settled
    mic        \* the microphone is open

vars == <<call, request, mic>>

Init == call = None /\ request = "none" /\ mic = FALSE

\* The user asks for a call; a move gives up the present one first, and may
\* carry its microphone over.
Ask ==
    /\ request = "none"
    /\ request' = "open" /\ call' = None
    /\ mic' => mic

OpenMicrophone ==
    /\ request # "none"
    /\ mic' = TRUE
    /\ UNCHANGED <<call, request>>

Drop ==
    /\ request = "open"
    /\ request' = "dropped"
    /\ UNCHANGED <<call, mic>>

Begin ==
    /\ request = "open"
    /\ request' = "none" /\ call' \in Channels
    /\ UNCHANGED mic

\* A request ends without a call, or a move does when it cannot even start.
GiveUp ==
    /\ request' = "none" /\ call' = None
    /\ mic' = FALSE

\* The call ends or the request is cancelled.
HangUp ==
    /\ call' = None
    /\ request' = IF request = "none" THEN "none" ELSE "dropped"
    /\ mic' => mic /\ request # "none"

Unplug ==
    /\ mic' = FALSE
    /\ UNCHANGED <<call, request>>

Next == Ask \/ OpenMicrophone \/ Drop \/ Begin \/ GiveUp \/ HangUp \/ Unplug

\* An open microphone without a call is on its way into one, or closes.
Closes == (mic /\ call = None) ~> (~mic \/ call # None)

Spec == Init /\ [][Next]_vars /\ Closes

-----------------------------------------------------------------------------
\* The consequence the user cares about.
NobodyListens == mic => call # None \/ request # "none"
=============================================================================
