----------------------------- MODULE MCAccountTokens -----------------------------
(* Small instances of AccountTokens: who is there at first.                *)
EXTENDS AccountTokens, TLC

CONSTANTS u1, u2, e1, e2, p1

User(e) == [email |-> e, active |-> TRUE, pw |-> p1]

(* An empty table, as at the first deployment, or the first superuser.     *)
OneUserOrNone == {u1 :> NoUser @@ u2 :> NoUser, u1 :> User(e1) @@ u2 :> NoUser}

(* Processes are interchangeable, and so are start-ups.                    *)
Symmetry == Permutations(Workers) \cup Permutations(StartUps)
================================================================================
