----------------------------- MODULE MCUserAccounts -----------------------------
(* Small instances of UserAccounts: who is there at first, and which       *)
(* endpoints are called.                                                   *)
EXTENDS UserAccounts, TLC

CONSTANTS u1, u2, u3, e1, e2, p1, p2

User(e, role) == [email |-> e, role |-> role, active |-> TRUE, pw |-> p1]

(* A superuser and a second user of either role; u3 is still to come.      *)
TwoUsers ==
    {(u1 :> User(e1, "superuser") @@ u2 :> User(e2, role) @@ u3 :> NoRow) :
        role \in Roles}
================================================================================
