----------------------------- MODULE ClientLink -----------------------------
(***************************************************************************)
(* What the socket store promises the rest of the web client: one          *)
(* connection to the server that is made, lost, retried a bounded number   *)
(* of times and then rests until the user returns to the app.  The         *)
(* listeners of onReconnect run whenever it comes back.                    *)
(***************************************************************************)
VARIABLES
    link,     \* "off", "trying", "up" or "resting"
    was       \* it has been up before: the next time is a reconnection

link_vars == <<link, was>>

LinkInit == link = "off" /\ was = FALSE

\* A signed-in page wants the connection.
Wanted ==
    /\ link \in {"off", "resting"}
    /\ link' = "trying"
    /\ UNCHANGED was

Opens ==
    /\ link = "trying"
    /\ link' = "up" /\ was' = TRUE

Loses ==
    /\ link = "up"
    /\ link' = "trying"
    /\ UNCHANGED was

\* The bounded retries are used up.
Exhausted ==
    /\ link = "trying"
    /\ link' = "resting"
    /\ UNCHANGED was

\* A logout, or the server refused the session.
Ends ==
    /\ link # "off"
    /\ link' = "off"
    /\ UNCHANGED was

LinkNext == Wanted \/ Opens \/ Loses \/ Exhausted \/ Ends

\* A client that tries does not try forever.
LinkSettles == link = "trying" ~> link # "trying"

LinkSpec == LinkInit /\ [][LinkNext]_link_vars /\ LinkSettles
=============================================================================
