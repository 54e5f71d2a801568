------------------------------ MODULE UserAccounts ------------------------------
(***************************************************************************)
(* The endpoints that change the user table (app/users/users_router.py and *)
(* app/auth/password_reset.py, with app/core/dependencies.py and           *)
(* app/db/crud.py).  They run in threads and in several processes; what a  *)
(* request reads may have been changed by another one before it writes.    *)
(* One action is one database statement (a write with its commit) and the  *)
(* code up to the next one.                                                *)
(***************************************************************************)
EXTENDS Naturals

CONSTANTS
    Ids,        \* the ids of the users, present and to come
    Emails,
    Passwords,
    Kinds,      \* the endpoints called in a behaviour
    Requests,   \* the requests of a behaviour
    FirstRows,  \* the possible contents of the user table at first
    NoRow,      \* in the table an id not yet used; else nothing read
    Deleted     \* an id whose user was deleted

(* ADMIN differs from USER only in endpoints that leave this table alone.  *)
Roles == {"superuser", "user"}

(* full_name and ssh_username are written as email is, but not unique.     *)
Row == [email : Emails, role : Roles, active : BOOLEAN, pw : Passwords]

AllKinds == {"signup", "create", "update_me", "update_user", "password_me",
             "delete_me", "delete_user", "reset", "log"}

Change == [field : {"email"}, value : Emails]
    \cup [field : {"role"}, value : Roles]
    \cup [field : {"active"}, value : BOOLEAN]
    \cup [field : {"pw"}, value : Passwords]

(* The calls: the body of an update names one field, the others are unset. *)
(* "log" is any endpoint that ends with a row in log_user_activity.        *)
Call == {c \in
         [kind : {"signup"}, email : Emails]
    \cup [kind : {"create"}, caller : Ids, email : Emails, role : Roles]
    \cup [kind : {"update_me"}, caller : Ids, change : [field : {"email"}, value : Emails]]
    \cup [kind : {"update_user"}, caller : Ids, target : Ids, change : Change]
    \cup [kind : {"password_me"}, caller : Ids, current : Passwords, new : Passwords]
    \cup [kind : {"delete_user"}, caller : Ids, target : Ids]
    \cup [kind : {"delete_me", "log"}, caller : Ids]
    \cup [kind : {"reset"}, email : Emails, new : Passwords] : c.kind \in Kinds}

Apply(row, change) ==
    CASE change.field = "email"  -> [row EXCEPT !.email = change.value]
      [] change.field = "role"   -> [row EXCEPT !.role = change.value]
      [] change.field = "active" -> [row EXCEPT !.active = change.value]
      [] change.field = "pw"     -> [row EXCEPT !.pw = change.value]

(* What UserPublic shows of a row.                                         *)
Public(row) == [email |-> row.email, role |-> row.role, active |-> row.active]

VARIABLES
    rows,    \* the table user
    logs,    \* ids that log_user_activity refers to, by a foreign key
    mailed,  \* emails a password recovery token was sent for
    req,     \* the call each request makes, NoRow before it
    step,    \* the statement each request is at, then how it ended
    me,      \* current_user: the caller's row as get_current_user read it
    seen,    \* the row a request read after that
    subject, \* the id of the row a request will write
    raced    \* history: requests another overtook: between their statements
             \* it wrote a row or an email they rely on

vars == <<rows, logs, mailed, req, step, me, seen, subject, raced>>

Present(i) == rows[i] \in Row
TakenBy(e) == {i \in Ids : Present(i) /\ rows[i].email = e}

(* A row as far as the other parts of the program need it.                 *)
Account == [email : Emails, active : BOOLEAN, pw : Passwords]
AccountOf(x) ==
    IF x \in Row THEN [email |-> x.email, active |-> x.active, pw |-> x.pw]
                 ELSE x

UniqueEmails(t) ==
    \A i, j \in Ids :
        t[i] \in Row /\ t[j] \in Row /\ t[i].email = t[j].email => i = j

ASSUME ConstantsAssumption ==
    /\ Kinds \subseteq AllKinds /\ Passwords # {}
    /\ FirstRows \subseteq [Ids -> Row \cup {NoRow}]
    /\ \A t \in FirstRows : UniqueEmails(t)
    /\ NoRow \notin Row \cup Ids \cup Call
    /\ Deleted \notin Row \cup {NoRow} /\ {NoRow, Deleted} \cap Account = {}

Init ==
    /\ rows \in FirstRows
    /\ logs = {}
    /\ mailed = {}
    /\ req = [r \in Requests |-> NoRow]
    /\ step = [r \in Requests |-> "idle"]
    /\ me = [r \in Requests |-> NoRow]
    /\ seen = [r \in Requests |-> NoRow]
    /\ subject = [r \in Requests |-> NoRow]
    /\ raced = {}

Goto(r, s) == step' = [step EXCEPT ![r] = s]

(***************************************************************************)
(* Reading                                                                 *)
(***************************************************************************)

(* Endpoints without a login.                                              *)
BeginPublic(r) ==
    /\ step[r] = "idle"
    /\ \E c \in Call :
          /\ c.kind \in {"signup", "reset"}
          /\ c.kind = "reset" => c.email \in mailed
          /\ req' = [req EXCEPT ![r] = c]
    /\ Goto(r, "check")
    /\ UNCHANGED <<rows, logs, mailed, me, seen, subject, raced>>

(* Mutation of Allowed: delete_user_me lets superusers go.                 *)
AllowedAny(c) ==
    /\ Present(c.caller) /\ rows[c.caller].active
    /\ c.kind \in {"create", "update_user", "delete_user"} =>
          rows[c.caller].role = "superuser"

(* get_current_user, then the role the endpoint asks for.  delete_user_me  *)
(* refuses superusers and then reads nothing more, nor does the audit.     *)
Allowed(c) ==
    /\ Present(c.caller) /\ rows[c.caller].active
    /\ c.kind \in {"create", "update_user", "delete_user"} =>
          rows[c.caller].role = "superuser"
    /\ c.kind = "delete_me" => rows[c.caller].role # "superuser"

BeginUser(r) ==
    /\ step[r] = "idle"
    /\ \E c \in Call :
          /\ c.kind \notin {"signup", "reset"}
          /\ Present(c.caller)
          /\ req' = [req EXCEPT ![r] = c]
          /\ me' = [me EXCEPT ![r] = rows[c.caller]]
          /\ subject' = [subject EXCEPT ![r] =
                IF c.kind \in {"update_user", "delete_user"} THEN c.target
                                                             ELSE c.caller]
          /\ Goto(r, IF ~ Allowed(c) THEN "refused"
                     ELSE IF c.kind \in {"delete_me", "log"} THEN "write"
                     ELSE IF c.kind = "update_user" THEN "find"
                     ELSE "check")
    /\ UNCHANGED <<rows, logs, mailed, seen, raced>>

(* get_user_by_email before an insert: 400 when the email is taken.        *)
CheckInsert(r) ==
    /\ step[r] = "check" /\ req[r].kind \in {"signup", "create"}
    /\ Goto(r, IF TakenBy(req[r].email) = {} THEN "write" ELSE "refused")
    /\ UNCHANGED <<rows, logs, mailed, req, me, seen, subject, raced>>

(* update_user looks its user up first (404), and the new email only when  *)
(* there is one.                                                           *)
FindUser(r) ==
    /\ step[r] = "find"
    /\ Goto(r, IF ~ Present(subject[r]) THEN "refused"
               ELSE IF req[r].change.field = "email" THEN "check" ELSE "write")
    /\ UNCHANGED <<rows, logs, mailed, req, me, seen, subject, raced>>

(* Mutation of CheckUpdate: the user found is compared with the caller.    *)
CheckUpdateCaller(r) ==
    /\ step[r] = "check" /\ req[r].kind \in {"update_me", "update_user"}
    /\ Goto(r, IF TakenBy(req[r].change.value) \subseteq {req[r].caller}
               THEN "write" ELSE "refused")
    /\ UNCHANGED <<rows, logs, mailed, req, me, seen, subject, raced>>

(* get_user_by_email before an update: no other may have it (409).         *)
CheckUpdate(r) ==
    /\ step[r] = "check" /\ req[r].kind \in {"update_me", "update_user"}
    /\ Goto(r, IF TakenBy(req[r].change.value) \subseteq {subject[r]}
               THEN "write" ELSE "refused")
    /\ UNCHANGED <<rows, logs, mailed, req, me, seen, subject, raced>>

(* update_password_me reads its row again, an exception when it is gone,   *)
(* and compares passwords.                                                 *)
CheckPassword(r) ==
    /\ step[r] = "check" /\ req[r].kind = "password_me"
    /\ seen' = [seen EXCEPT ![r] = rows[subject[r]]]
    /\ Goto(r, IF ~ Present(subject[r]) THEN "failed"
               ELSE IF /\ req[r].current = rows[subject[r]].pw
                       /\ req[r].current # req[r].new
               THEN "write" ELSE "refused")
    /\ UNCHANGED <<rows, logs, mailed, req, me, subject, raced>>

(* Mutation of CheckDelete: the rows are not compared.                     *)
CheckPresent(r) ==
    /\ step[r] = "check" /\ req[r].kind = "delete_user"
    /\ Goto(r, IF Present(subject[r]) THEN "write" ELSE "refused")
    /\ UNCHANGED <<rows, logs, mailed, req, me, seen, subject, raced>>

(* delete_user refuses a row that equals current_user, compared in all     *)
(* public fields; the id is one of them.                                   *)
CheckDelete(r) ==
    /\ step[r] = "check" /\ req[r].kind = "delete_user"
    /\ Goto(r, IF /\ Present(subject[r])
                  /\ \/ subject[r] # req[r].caller
                     \/ Public(rows[subject[r]]) # Public(me[r])
               THEN "write" ELSE "refused")
    /\ UNCHANGED <<rows, logs, mailed, req, me, seen, subject, raced>>

(* reset_password finds the account by the email in the token.             *)
CheckReset(r) ==
    /\ step[r] = "check" /\ req[r].kind = "reset"
    /\ \/ /\ \A i \in TakenBy(req[r].email) : ~ rows[i].active
          /\ Goto(r, "refused")
          /\ UNCHANGED subject
       \/ \E i \in TakenBy(req[r].email) :
             /\ rows[i].active
             /\ subject' = [subject EXCEPT ![r] = i]
             /\ Goto(r, "write")
    /\ UNCHANGED <<rows, logs, mailed, req, me, seen, raced>>

(* recover_password sends a token for an email that has an account, where  *)
(* the mail templates are deployed to the place it reads them from.        *)
Recover(e) ==
    /\ "reset" \in Kinds
    /\ TakenBy(e) # {}
    /\ e \notin mailed
    /\ mailed' = mailed \cup {e}
    /\ UNCHANGED <<rows, logs, req, step, me, seen, subject, raced>>

(***************************************************************************)
(* Writing                                                                 *)
(***************************************************************************)

AtWrite(r, kinds) == step[r] = "write" /\ req[r].kind \in kinds

(* The emails a request is about to give to its row.                       *)
Wanted(s) ==
    CASE req[s].kind \in {"signup", "create"} -> {req[s].email}
      [] req[s].kind \in {"update_me", "update_user"} ->
            IF req[s].change.field = "email" THEN {req[s].change.value} ELSE {}
      [] OTHER -> {}

(* Request s is under way and relies on the row of i, its caller's or its  *)
(* subject's, or on the email of x.                                        *)
ReliesOn(s, i, x) ==
    /\ step[s] \in {"find", "check", "write"}
    /\ \/ subject[s] = i
       \/ req[s].kind \notin {"signup", "reset"} /\ req[s].caller = i
       \/ x \in Row /\ x.email \in Wanted(s)

(* The row of i becomes x, unless that breaks the unique index on email,   *)
(* which makes the statement, and the request, fail.                       *)
Store(r, i, x) ==
    IF UniqueEmails([rows EXCEPT ![i] = x])
    THEN /\ rows' = [rows EXCEPT ![i] = x]
         /\ Goto(r, "done")
         /\ raced' = raced \cup {s \in Requests \ {r} : ReliesOn(s, i, x)}
    ELSE Goto(r, "failed") /\ UNCHANGED <<rows, raced>>

Insert(r) ==
    /\ AtWrite(r, {"signup", "create"})
    /\ \E i \in Ids :
          /\ rows[i] = NoRow
          /\ Store(r, i,
                [email |-> req[r].email, active |-> TRUE,
                 pw |-> CHOOSE p \in Passwords : TRUE,
                 role |-> IF req[r].kind = "create" THEN req[r].role ELSE "user"])
    /\ UNCHANGED <<logs, mailed, req, me, seen, subject>>

(* The statement sets the fields of the body and finds the row by its id.  *)
(* When it is gone, reading it back afterwards raises.  For a superuser,   *)
(* update_superuser_me does what update_user_me does.                      *)
Update(r) ==
    /\ AtWrite(r, {"update_me", "update_user"})
    /\ IF Present(subject[r])
       THEN Store(r, subject[r], Apply(rows[subject[r]], req[r].change))
       ELSE Goto(r, "failed") /\ UNCHANGED <<rows, raced>>
    /\ UNCHANGED <<logs, mailed, req, me, seen, subject>>

(* Mutation of UpdatePassword: the fields not given get their defaults.    *)
UpdateDefaults(r) ==
    /\ AtWrite(r, {"password_me"})
    /\ IF Present(subject[r])
       THEN Store(r, subject[r],
                  [seen[r] EXCEPT !.pw = req[r].new, !.role = "user"])
       ELSE Goto(r, "done") /\ UNCHANGED <<rows, raced>>
    /\ UNCHANGED <<logs, mailed, req, me, seen, subject>>

(* Mutation of UpdatePassword: the row that was read is merged, which      *)
(* makes it anew when it is gone.                                          *)
UpdateMerged(r) ==
    /\ AtWrite(r, {"password_me"})
    /\ Store(r, subject[r], [seen[r] EXCEPT !.pw = req[r].new])
    /\ UNCHANGED <<logs, mailed, req, me, seen, subject>>

(* update_password_me writes every field of the row it read, and succeeds  *)
(* when the row is gone.                                                   *)
UpdatePassword(r) ==
    /\ AtWrite(r, {"password_me"})
    /\ IF Present(subject[r])
       THEN Store(r, subject[r], [seen[r] EXCEPT !.pw = req[r].new])
       ELSE Goto(r, "done") /\ UNCHANGED <<rows, raced>>
    /\ UNCHANGED <<logs, mailed, req, me, seen, subject>>

(* The ORM writes the changed column only, and raises when the row is gone.*)
ResetPassword(r) ==
    /\ AtWrite(r, {"reset"})
    /\ IF Present(subject[r])
       THEN Store(r, subject[r], [rows[subject[r]] EXCEPT !.pw = req[r].new])
       ELSE Goto(r, "failed") /\ UNCHANGED <<rows, raced>>
    /\ UNCHANGED <<logs, mailed, req, me, seen, subject>>

(* Mutation of Delete: the log is not in the way.                          *)
DeleteAnyway(r) ==
    /\ AtWrite(r, {"delete_me", "delete_user"})
    /\ Store(r, subject[r], Deleted)
    /\ UNCHANGED <<logs, mailed, req, me, seen, subject>>

(* The foreign key of the activity log, which does not cascade, makes the  *)
(* deletion of a logged user fail.                                         *)
Delete(r) ==
    /\ AtWrite(r, {"delete_me", "delete_user"})
    /\ IF subject[r] \in logs
       THEN Goto(r, "failed") /\ UNCHANGED <<rows, raced>>
       ELSE Store(r, subject[r], Deleted)
    /\ UNCHANGED <<logs, mailed, req, me, seen, subject>>

(* The background task of an endpoint inserts the log row.                 *)
Log(r) ==
    /\ AtWrite(r, {"log"})
    /\ IF Present(subject[r])
       THEN logs' = logs \cup {subject[r]} /\ Goto(r, "done")
       ELSE Goto(r, "failed") /\ UNCHANGED logs
    /\ UNCHANGED <<rows, mailed, req, me, seen, subject, raced>>

--------------------------------------------------------------------------------
Read(r) ==
    \/ BeginPublic(r) \/ BeginUser(r) \/ FindUser(r) \/ CheckInsert(r)
    \/ CheckUpdate(r) \/ CheckPassword(r) \/ CheckDelete(r) \/ CheckReset(r)

Write(r) ==
    \/ Insert(r) \/ Update(r) \/ UpdatePassword(r) \/ ResetPassword(r)
    \/ Delete(r) \/ Log(r)

Next ==
    \/ \E r \in Requests : Read(r) \/ Write(r)
    \/ \E e \in Emails : Recover(e)

Spec == Init /\ [][Next]_vars
--------------------------------------------------------------------------------
(***************************************************************************)
(* Properties                                                              *)
(***************************************************************************)

Steps == {"idle", "find", "check", "write", "done", "refused", "failed"}

(* Type invariant. *)
TypeOK ==
    /\ rows \in [Ids -> Row \cup {NoRow, Deleted}]
    /\ logs \in SUBSET Ids
    /\ mailed \in SUBSET Emails
    /\ req \in [Requests -> Call \cup {NoRow}]
    /\ step \in [Requests -> Steps]
    /\ me \in [Requests -> Row \cup {NoRow}]
    /\ seen \in [Requests -> Row \cup {NoRow, Deleted}]
    /\ subject \in [Requests -> Ids \cup {NoRow}]
    /\ raced \in SUBSET Requests

(* An endpoint that checked and then wrote ends with an internal error     *)
(* (mail aside) only if another one wrote, in between, the very row or     *)
(* email it relies on, or if it was to delete a user with audit records,   *)
(* which no check looks for.  Requests about different accounts do not     *)
(* disturb each other.                                                     *)
FailureNeedsARace ==
    \A r \in Requests : step[r] = "failed" =>
        \/ r \in raced
        \/ req[r].kind \in {"delete_me", "delete_user"} /\ subject[r] \in logs

(* A user with audit records is never deleted, not even when the record is *)
(* written between the statements of the deletion.                         *)
AuditedUsersStay == \A i \in logs : Present(i)

(* delete_user: "Super users are not allowed to delete themselves".        *)
DeletesItself(r) ==
    /\ AtWrite(r, {"delete_user"}) /\ subject[r] = req[r].caller
    /\ me[r].role = "superuser"

SuperusersDoNotDeleteThemselves ==
    \A r \in Requests : ~ DeletesItself(r)

(* They do not, unless their own row was written between the two reads     *)
(* that are compared.                                                      *)
SelfDeletionNeedsARace ==
    \A r \in Requests : DeletesItself(r) => r \in raced

(* update_password_me: "Update own password."                              *)
OnlyPasswordChanges(r) ==
    UpdatePassword(r) /\ rows' # rows =>
        Public(rows'[subject[r]]) = Public(rows[subject[r]])

(* It does, unless its own row was written while it was under way: then it *)
(* takes back what an administrator changed meanwhile, a role or a         *)
(* deactivation.                                                           *)
LostUpdateNeedsARace ==
    [][\A r \in Requests \ raced : OnlyPasswordChanges(r)]_vars

(* Nobody changed a role, an active flag or another one's account.         *)
OnlyDeletions ==
    \A r \in Requests : req[r] # NoRow => req[r].kind \in
        {"signup", "create", "password_me", "delete_me", "delete_user", "log"}

(* Deletions alone never remove the last active superuser, whatever else   *)
(* overlaps, unless a superuser who is deleting another is deleted         *)
(* meanwhile: a superuser only deletes others, every other user only       *)
(* itself, and a stale password update keeps the role.                     *)
SuperuserRemains ==
    OnlyDeletions /\ (\A r \in raced : req[r].kind # "delete_user") =>
        \E i \in Ids :
            Present(i) /\ rows[i].role = "superuser" /\ rows[i].active

Table == INSTANCE AccountTable
    WITH Unused <- NoRow, Gone <- Deleted,
         FirstTables <- {[i \in Ids |-> AccountOf(t[i])] : t \in FirstRows},
         accounts <- [i \in Ids |-> AccountOf(rows[i])]

(* However the statements of the endpoints overlap, the table changes as   *)
(* AccountTable says: nothing that was read before an account was deleted  *)
(* brings it back, and an id is used once.                                 *)
ImplementsAccountTable == Table!Spec
================================================================================
