--------------------------- MODULE MCClientSocket ---------------------------
(* Bounds for checking ClientSocket. *)
EXTENDS ClientSocket

Spending(budget) ==
    [what \in Spendable |-> IF what \in DOMAIN budget THEN budget[what] ELSE 0]

Ordinary ==
    Spending([signin |-> 2, logout |-> 1, password |-> 1, revoke |-> 1, drop |-> 1,
              fail |-> 2, fault |-> 1, resume |-> 1])
OneFault == Spending([signin |-> 1, fault |-> 1])
OnePassword == Spending([signin |-> 1, password |-> 1])
=============================================================================
