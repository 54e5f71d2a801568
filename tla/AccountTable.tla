------------------------------- MODULE AccountTable -------------------------------
(***************************************************************************)
(* What the program makes of its user table, whichever endpoint or         *)
(* start-up writes it, as the other parts may rely on it: an account is    *)
(* created active under an id that was never used, it changes while it is  *)
(* there, and once deleted it never comes back; no statement leaves an     *)
(* email to two accounts.  Who may do what is not said here.               *)
(***************************************************************************)

CONSTANTS
    Ids, Emails, Passwords,
    FirstTables, \* the possible contents at first
    Unused,      \* an id not yet used
    Gone         \* an id whose account was deleted

Account == [email : Emails, active : BOOLEAN, pw : Passwords]

VARIABLE accounts

Present(i) == accounts[i] \in Account

UniqueEmails(t) ==
    \A i, j \in Ids :
        t[i] \in Account /\ t[j] \in Account /\ t[i].email = t[j].email => i = j

Init == accounts \in FirstTables

Put(i, x) ==
    /\ accounts' = [accounts EXCEPT ![i] = x]
    /\ UniqueEmails(accounts')

Create(i, x) == accounts[i] = Unused /\ x.active /\ Put(i, x)
Update(i, x) == Present(i) /\ Put(i, x)
Delete(i) == Present(i) /\ Put(i, Gone)

Next ==
    \E i \in Ids : Delete(i) \/ \E x \in Account : Create(i, x) \/ Update(i, x)

Spec == Init /\ [][Next]_accounts
================================================================================
