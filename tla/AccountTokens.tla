----------------------------- MODULE AccountTokens -----------------------------
(***************************************************************************)
(* The tokens that stand for an account: the access token of a login       *)
(* (app/auth/auth_router.py, app/core/security.py, get_current_user in     *)
(* app/core/dependencies.py) and the recovery token of a mail              *)
(* (app/auth/password_reset.py, app/core_utils/utils.py).  Both are signed *)
(* with the SECRET_KEY of the process and name the account in "sub": by    *)
(* its id in an access token, by its email in a recovery token.  A token   *)
(* cannot be taken back; the user table changes while tokens are valid and *)
(* between the statements of a request, and processes restart.  At each    *)
(* deployment init_db (app/core/db.py) looks the first superuser up by its *)
(* email and creates it when it is not there.                              *)
(* The endpoints that change accounts otherwise are those of UserAccounts; *)
(* here one statement of theirs is one action.                             *)
(***************************************************************************)
EXTENDS Naturals, FiniteSets

CONSTANTS
    Ids,          \* the ids of the users, present and to come
    Emails,
    FirstEmail,   \* FIRST_SUPERUSER
    Passwords,
    FirstPassword,
    Workers,      \* the processes of the server
    Requests,     \* the threads that serve requests
    StartUps,     \* the containers that run init_db
    FirstRows,    \* the possible contents of the user table at first
    NoUser,       \* an id not yet used; else no user, no call, no process
    Deleted,      \* an id whose user was deleted
    AccessLife,   \* ACCESS_TOKEN_EXPIRE_MINUTES
    RecoveryLife, \* EMAIL_RESET_TOKEN_EXPIRE_HOURS
    MaxTime,      \* bound on the clock
    MaxTokens,    \* logins and recoveries begin while there are fewer tokens
    MaxChanges,   \* bound on the statements of the other endpoints
    MaxKeys       \* bound on the keys ever made

Row == [email : Emails, active : BOOLEAN, pw : Passwords]

VARIABLES
    rows,       \* the table user
    now,
    configured, \* whether the environment gives SECRET_KEY
    keys,       \* SECRET_KEY in each process; 0 is the configured one
    made,       \* how many keys were made up
    tokens,     \* the tokens in the hands of clients
    call,       \* what each request asks, NoUser before and after it
    proc,       \* the process that serves it
    step,       \* the statement it is at, then how it ended
    user,       \* the user it found
    start,      \* how far each start-up is
    changes,    \* how many changes the other endpoints made
    at,         \* history: when the request came
    barred,     \* history: users not active from then until now
    moved,      \* history: emails an account gave up
    firsts      \* history: users made by init_db

vars == <<rows, now, configured, keys, made, tokens, call, proc, step, user,
          start, changes, at, barred, moved, firsts>>
table == <<rows, start, changes, moved, firsts>>
server == <<configured, keys, made>>

Present(i) == rows[i] \in Row
Active(i) == Present(i) /\ rows[i].active
TakenBy(e) == {i \in Ids : Present(i) /\ rows[i].email = e}
UniqueEmails(t) ==
    \A i, j \in Ids :
        t[i] \in Row /\ t[j] \in Row /\ t[i].email = t[j].email => i = j

Life(kind) == IF kind = "login" THEN AccessLife ELSE RecoveryLife

(* Of a token only sub and exp can be read, and its key tells whether the  *)
(* signature is right; kind, owner and born are history: from which        *)
(* endpoint, for whom and when.                                            *)
Token == [sub : Ids \cup Emails, exp : 0..(MaxTime + AccessLife),
          key : 0..MaxKeys, kind : {"login", "recover"}, owner : Ids,
          born : 0..MaxTime]

NewToken(r, sub) ==
    [sub |-> sub, exp |-> now + Life(call[r].kind), key |-> keys[proc[r]],
     kind |-> call[r].kind, owner |-> user[r], born |-> now]

Calls ==
    [kind : {"login"}, email : Emails, pw : Passwords]
    \cup [kind : {"recover"}, email : Emails]
    \cup [kind : {"access"}, token : tokens]
    \cup [kind : {"reset"}, token : tokens, new : Passwords]

ASSUME ConstantsAssumption ==
    /\ FirstEmail \in Emails /\ FirstPassword \in Passwords
    /\ FirstRows \subseteq [Ids -> Row \cup {NoUser}]
    /\ \A t \in FirstRows : UniqueEmails(t)
    /\ Ids \cap Emails = {} /\ NoUser \notin Ids \cup Row \cup Workers
    /\ Deleted \notin Row \cup {NoUser}
    /\ RecoveryLife \in 1..AccessLife /\ AccessLife \in Nat /\ MaxTime \in Nat
    /\ IsFiniteSet(Workers) /\ MaxKeys \in Nat
    /\ Cardinality(Workers) <= MaxKeys

(* A process evaluates secrets.token_urlsafe when it starts, unless the    *)
(* environment gives the key.                                              *)
Init ==
    /\ rows \in FirstRows
    /\ now = 0
    /\ configured \in BOOLEAN
    /\ keys \in [Workers -> IF configured THEN {0} ELSE 1..Cardinality(Workers)]
    /\ ~ configured => \A v, w \in Workers : keys[v] = keys[w] => v = w
    /\ made = Cardinality(Workers)
    /\ tokens = {}
    /\ call = [r \in Requests |-> NoUser]
    /\ proc = [r \in Requests |-> NoUser]
    /\ step = [r \in Requests |-> "idle"]
    /\ user = [r \in Requests |-> NoUser]
    /\ start = [s \in StartUps |-> "idle"]
    /\ changes = 0
    /\ at = [r \in Requests |-> 0]
    /\ barred = [r \in Requests |-> {}]
    /\ moved = {}
    /\ firsts = TakenBy(FirstEmail)

Goto(r, s) == step' = [step EXCEPT ![r] = s]

(* The request takes the user found and goes on, or ends.                  *)
Found(r, i, s) == user' = [user EXCEPT ![r] = i] /\ Goto(r, s)
Ends(r, s) == Goto(r, s) /\ UNCHANGED user

--------------------------------------------------------------------------------
(***************************************************************************)
(* Requests                                                                *)
(***************************************************************************)

(* Mutation of Decodes: a token lives one unit too long.                   *)
DecodesLate(w, t) == t.key = keys[w] /\ now <= t.exp

(* jwt.decode: the signature and then the expiry.                          *)
Decodes(w, t) == t.key = keys[w] /\ now < t.exp

Begin(r, w) ==
    /\ step[r] = "idle"
    /\ \E c \in Calls :
          /\ c.kind \in {"login", "recover"} => Cardinality(tokens) < MaxTokens
          /\ call' = [call EXCEPT ![r] = c]
          /\ Goto(r, IF c.kind \in {"access", "reset"} /\ ~ Decodes(w, c.token)
                     THEN "invalid" ELSE "look")
    /\ proc' = [proc EXCEPT ![r] = w]
    /\ at' = [at EXCEPT ![r] = now]
    /\ barred' = [barred EXCEPT ![r] = {i \in Ids : ~ Active(i)}]
    /\ UNCHANGED <<table, server, now, tokens, user>>

(* authenticate, by email and password, then is_active.                    *)
LookLogin(r) ==
    /\ step[r] = "look" /\ call[r].kind = "login"
    /\ LET match == {i \in TakenBy(call[r].email) : rows[i].pw = call[r].pw} IN
       \/ match = {} /\ Ends(r, "absent")
       \/ \E i \in match :
             IF Active(i) THEN Found(r, i, "issue") ELSE Ends(r, "inactive")
    /\ UNCHANGED <<table, server, now, tokens, call, proc, at, barred>>

(* recover_password does not ask whether the account is active.            *)
LookRecover(r) ==
    /\ step[r] = "look" /\ call[r].kind = "recover"
    /\ \/ TakenBy(call[r].email) = {} /\ Ends(r, "absent")
       \/ \E i \in TakenBy(call[r].email) : Found(r, i, "issue")
    /\ UNCHANGED <<table, server, now, tokens, call, proc, at, barred>>

(* A login is answered with the token, a recovery mailed to the email (or  *)
(* shown to a superuser); an answer or a mail that is lost is a token that *)
(* nobody uses, as is every recovery while the mail templates are not in   *)
(* the place they are read from.                                           *)
Issue(r) ==
    /\ step[r] = "issue"
    /\ tokens' = tokens \cup
          {NewToken(r, IF call[r].kind = "login" THEN user[r]
                                                 ELSE call[r].email)}
    /\ Goto(r, "done")
    /\ UNCHANGED <<table, server, now, call, proc, user, at, barred>>

(* Mutation of LookAccess: a deactivated user is let in.                   *)
LookAccessAny(r) ==
    /\ step[r] = "look" /\ call[r].kind = "access"
    /\ LET i == call[r].token.sub IN
       IF i \notin Ids THEN Ends(r, "failed")
       ELSE IF ~ Present(i) THEN Ends(r, "absent")
       ELSE Found(r, i, "granted")
    /\ UNCHANGED <<table, server, now, tokens, call, proc, at, barred>>

(* session.get by the primary key; an email is no uuid, and the statement  *)
(* fails.                                                                  *)
LookAccess(r) ==
    /\ step[r] = "look" /\ call[r].kind = "access"
    /\ LET i == call[r].token.sub IN
       IF i \notin Ids THEN Ends(r, "failed")
       ELSE IF ~ Present(i) THEN Ends(r, "absent")
       ELSE IF ~ Active(i) THEN Ends(r, "inactive")
       ELSE Found(r, i, "granted")
    /\ UNCHANGED <<table, server, now, tokens, call, proc, at, barred>>

(* reset_password looks the account up by email; an id is nobody's email.  *)
LookReset(r) ==
    /\ step[r] = "look" /\ call[r].kind = "reset"
    /\ LET match == TakenBy(call[r].token.sub) IN
       \/ match = {} /\ Ends(r, "absent")
       \/ \E i \in match :
             IF Active(i) THEN Found(r, i, "write") ELSE Ends(r, "inactive")
    /\ UNCHANGED <<table, server, now, tokens, call, proc, at, barred>>

(* The row of i becomes x; whoever is active afterwards may act.           *)
Store(i, x) ==
    /\ rows' = [rows EXCEPT ![i] = x]
    /\ barred' = [r \in Requests |->
          IF x \in Row /\ x.active THEN barred[r] \ {i} ELSE barred[r]]

(* Mutation of Write: the account that was read is merged, which makes it  *)
(* anew when it is gone.                                                   *)
WriteMerged(r) ==
    /\ step[r] = "write"
    /\ Store(user[r], IF Present(user[r])
                      THEN [rows[user[r]] EXCEPT !.pw = call[r].new]
                      ELSE [email |-> call[r].token.sub, active |-> TRUE,
                            pw |-> call[r].new])
    /\ Goto(r, "done")
    /\ UNCHANGED <<server, now, tokens, call, proc, user, start, changes, at,
                   moved, firsts>>

(* The ORM writes the one column by primary key, and raises when the row   *)
(* is gone.                                                                *)
Write(r) ==
    /\ step[r] = "write"
    /\ IF Present(user[r])
       THEN /\ Store(user[r], [rows[user[r]] EXCEPT !.pw = call[r].new])
            /\ Goto(r, "done")
       ELSE Goto(r, "failed") /\ UNCHANGED <<rows, barred>>
    /\ UNCHANGED <<server, now, tokens, call, proc, user, start, changes, at,
                   moved, firsts>>

(* The answer is sent; the thread takes the next request.                  *)
Finish(r) ==
    /\ step[r] \notin {"idle", "look", "issue", "write"}
    /\ Goto(r, "idle")
    /\ call' = [call EXCEPT ![r] = NoUser]
    /\ proc' = [proc EXCEPT ![r] = NoUser]
    /\ user' = [user EXCEPT ![r] = NoUser]
    /\ at' = [at EXCEPT ![r] = 0]
    /\ barred' = [barred EXCEPT ![r] = {}]
    /\ UNCHANGED <<table, server, now, tokens>>
--------------------------------------------------------------------------------
(***************************************************************************)
(* Deployments, processes, the other endpoints                             *)
(***************************************************************************)

StartGoes(s, x) == start' = [start EXCEPT ![s] = x]

(* init_db asks only whether the email is taken.                           *)
LookInit(s) ==
    /\ start[s] # "insert"
    /\ StartGoes(s, IF TakenBy(FirstEmail) = {} THEN "insert" ELSE "ready")
    /\ UNCHANGED <<rows, server, now, tokens, call, proc, step, user, changes,
                   at, barred, moved, firsts>>

First == [email |-> FirstEmail, active |-> TRUE, pw |-> FirstPassword]

(* Mutation of Insert: there is no unique index.                           *)
InsertAnyway(s) ==
    /\ start[s] = "insert"
    /\ \E i \in {j \in Ids : rows[j] = NoUser} :
          Store(i, First) /\ firsts' = firsts \cup {i}
    /\ StartGoes(s, "ready")
    /\ UNCHANGED <<server, now, tokens, call, proc, step, user, changes, at,
                   moved>>

(* create_user, which the unique index on email makes fail when somebody   *)
(* has taken it since.                                                     *)
Insert(s) ==
    /\ start[s] = "insert"
    /\ IF TakenBy(FirstEmail) = {}
       THEN /\ \E i \in {j \in Ids : rows[j] = NoUser} :
                  Store(i, First) /\ firsts' = firsts \cup {i}
            /\ StartGoes(s, "ready")
       ELSE StartGoes(s, "crashed") /\ UNCHANGED <<rows, barred, firsts>>
    /\ UNCHANGED <<server, now, tokens, call, proc, step, user, changes, at,
                   moved>>

(* Mutation of Key: every process makes a key up, configured or not.       *)
KeyOfItsOwn(w) == [keys EXCEPT ![w] = made + 1]

(* The key of a process that starts again.                                 *)
Key(w) == [keys EXCEPT ![w] = IF configured THEN 0 ELSE made + 1]

(* A process dies with its requests and is started again.                  *)
Restart(w) ==
    LET cut == {r \in Requests : proc[r] = w} IN
    /\ made < MaxKeys
    /\ made' = made + 1
    /\ keys' = Key(w)
    /\ step' = [r \in Requests |-> IF r \in cut THEN "idle" ELSE step[r]]
    /\ call' = [r \in Requests |-> IF r \in cut THEN NoUser ELSE call[r]]
    /\ user' = [r \in Requests |-> IF r \in cut THEN NoUser ELSE user[r]]
    /\ at' = [r \in Requests |-> IF r \in cut THEN 0 ELSE at[r]]
    /\ barred' = [r \in Requests |-> IF r \in cut THEN {} ELSE barred[r]]
    /\ proc' = [r \in Requests |-> IF r \in cut THEN NoUser ELSE proc[r]]
    /\ UNCHANGED <<table, configured, now, tokens>>

(* A statement of another endpoint; it changes the table and nothing else. *)
Changes(i, x) ==
    /\ changes < MaxChanges
    /\ changes' = changes + 1
    /\ Store(i, x)
    /\ UniqueEmails(rows')
    /\ UNCHANGED <<server, now, tokens, call, proc, step, user, start, at,
                   firsts>>

(* update_user, update_user_me; update_password_me, which writes back      *)
(* every field that it read, an email or a flag of long ago among them.    *)
Update(i, x) ==
    /\ Present(i) /\ x # rows[i]
    /\ Changes(i, x)
    /\ moved' = IF x.email = rows[i].email
                THEN moved ELSE moved \cup {rows[i].email}

(* delete_user, delete_user_me.                                            *)
Delete(i) ==
    /\ Present(i)
    /\ Changes(i, Deleted)
    /\ moved' = moved \cup {rows[i].email}

(* create_user, register_user.                                             *)
Create(i, e, p) ==
    /\ rows[i] = NoUser
    /\ Changes(i, [email |-> e, active |-> TRUE, pw |-> p])
    /\ UNCHANGED moved

Tick ==
    /\ now < MaxTime
    /\ now' = now + 1
    /\ UNCHANGED <<table, server, tokens, call, proc, step, user, at,
                   barred>>

--------------------------------------------------------------------------------
Serve(r) ==
    \/ \E w \in Workers : Begin(r, w)
    \/ LookLogin(r) \/ LookRecover(r) \/ Issue(r)
    \/ LookAccess(r) \/ LookReset(r) \/ Write(r) \/ Finish(r)

InitDb(s) == LookInit(s) \/ Insert(s)

Others ==
    \E i \in Ids :
       \/ Delete(i)
       \/ \E x \in Row : Update(i, x)
       \/ \E e \in Emails, p \in Passwords : Create(i, e, p)

Next ==
    \/ \E r \in Requests : Serve(r)
    \/ \E s \in StartUps : InitDb(s)
    \/ \E w \in Workers : Restart(w)
    \/ Others
    \/ Tick

Spec == Init /\ [][Next]_vars
--------------------------------------------------------------------------------
(***************************************************************************)
(* Properties                                                              *)
(***************************************************************************)

Steps == {"idle", "look", "issue", "write", "done", "granted",
          "invalid", "absent", "inactive", "failed"}

(* Type invariant. *)
TypeOK ==
    /\ rows \in [Ids -> Row \cup {NoUser, Deleted}]
    /\ now \in 0..MaxTime
    /\ configured \in BOOLEAN
    /\ keys \in [Workers -> 0..MaxKeys]
    /\ made \in 0..MaxKeys
    /\ tokens \subseteq Token
    /\ call \in [Requests -> Calls \cup {NoUser}]
    /\ proc \in [Requests -> Workers \cup {NoUser}]
    /\ step \in [Requests -> Steps]
    /\ user \in [Requests -> Ids \cup {NoUser}]
    /\ start \in [StartUps -> {"idle", "insert", "ready", "crashed"}]
    /\ at \in [Requests -> 0..MaxTime]
    /\ barred \in [Requests -> SUBSET Ids]
    /\ moved \subseteq Emails
    /\ firsts \subseteq Ids

(* Nobody acts as a user without a login of that user whose life had not   *)
(* passed when the request came: a recovery token, signed with the same    *)
(* key, does not stand for one.  And nobody acts as a user who was not     *)
(* active at any moment of the request.                                    *)
ActsForItsUser ==
    \A r \in Requests : step[r] = "granted" =>
        LET t == call[r].token IN
        /\ t.kind = "login" /\ user[r] = t.owner
        /\ at[r] < t.born + AccessLife
        /\ user[r] \notin barred[r]

(* A password is reset for the account whose owner asked for the mail,     *)
(* within the life of its token, unless the email was given up since:      *)
(* then it may be that of another account.                                 *)
ResetReachesItsUser ==
    \A r \in Requests :
        step[r] \in {"write", "done"} /\ call[r].kind = "reset" =>
        LET t == call[r].token IN
        /\ t.kind = "recover"
        /\ user[r] = t.owner \/ t.sub \in moved
        /\ at[r] < t.born + RecoveryLife
        /\ user[r] \notin barred[r]

(* With a configured key a token is good in every process, whichever made  *)
(* it and however often they restarted, until its life has passed; without *)
(* one it is good in the process that made it, as long as that one lives.  *)
(* The account of a login is found until it is deleted, that of a recovery *)
(* until its email is given up.                                            *)
TokensAreHonoured ==
    \A r \in Requests :
        /\ step[r] = "invalid" =>
              LET t == call[r].token IN
              \/ at[r] >= t.born + Life(t.kind)
              \/ ~ configured /\ t.key # keys[proc[r]]
        /\ step[r] = "absent" /\ call[r].kind = "access" =>
              rows[call[r].token.owner] = Deleted
        /\ step[r] = "absent" /\ call[r].kind = "reset" =>
              \/ call[r].token.kind = "login"
              \/ call[r].token.sub \in moved

(* As long as nobody gives its email up, start-ups make the first          *)
(* superuser once, also when two of them overlap, and a start-up that      *)
(* is through has left one.                                                *)
FirstSuperuserOnce ==
    FirstEmail \notin moved =>
        /\ Cardinality(firsts) <= 1
        /\ (\E s \in StartUps : start[s] = "ready") => TakenBy(FirstEmail) # {}

Table == INSTANCE AccountTable
    WITH Unused <- NoUser, Gone <- Deleted, FirstTables <- FirstRows,
         accounts <- rows

(* Recoveries and start-ups keep to AccountTable as well: a reset does not *)
(* revive an account that was deleted after it was found, and init_db does *)
(* not take the place of one.                                              *)
ImplementsAccountTable == Table!Spec
================================================================================
