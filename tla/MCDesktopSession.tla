-------------------------- MODULE MCDesktopSession --------------------------
(* Bounds for checking DesktopSession: a stored session, one more, and what *)
(* may go wrong once each.                                                  *)
EXTENDS DesktopSession

CONSTANTS k1, k2, k3

ThreeTokens == {k1, k2, k3}
NoneOrOne == {None, k1}
Spending(budget) ==
    [what \in Spendable |-> IF what \in DOMAIN budget THEN budget[what] ELSE 0]

EachOnce ==
    Spending([signin |-> 2, logout |-> 2, request |-> 1, revoke |-> 1, refused |-> 1,
              offline |-> 1, locked |-> 1, crash |-> 1])
OldCall == Spending([signin |-> 1, request |-> 1])
OfflineStart == Spending([logout |-> 1, offline |-> 1])
=============================================================================
