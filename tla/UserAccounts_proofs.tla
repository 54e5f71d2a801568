-------------------------- MODULE UserAccounts_proofs --------------------------
(***************************************************************************)
(* Proofs about UserAccounts, for any users, calls and first table.        *)
(***************************************************************************)
EXTENDS UserAccounts, TLAPS

(* Every action, one disjunct each.                                        *)
Step ==
    \/ \E r \in Requests : BeginPublic(r)
    \/ \E r \in Requests : BeginUser(r)
    \/ \E r \in Requests : FindUser(r)
    \/ \E r \in Requests : CheckInsert(r)
    \/ \E r \in Requests : CheckUpdate(r)
    \/ \E r \in Requests : CheckPassword(r)
    \/ \E r \in Requests : CheckDelete(r)
    \/ \E r \in Requests : CheckReset(r)
    \/ \E r \in Requests : Insert(r)
    \/ \E r \in Requests : Update(r)
    \/ \E r \in Requests : UpdatePassword(r)
    \/ \E r \in Requests : ResetPassword(r)
    \/ \E r \in Requests : Delete(r)
    \/ \E r \in Requests : Log(r)
    \/ \E e \in Emails : Recover(e)

(* Next is the disjunction of its actions.                                 *)
LEMMA NextIsStep == Next => Step
  BY DEF Next, Step, Read, Write

(* The fields a call has, by its kind.                                     *)
LEMMA CallFields ==
    ASSUME NEW c \in Call
    PROVE  /\ c.kind \in AllKinds
           /\ c.kind \in {"signup", "create", "reset"} => c.email \in Emails
           /\ c.kind = "create" => c.role \in Roles
           /\ c.kind \notin {"signup", "reset"} => c.caller \in Ids
           /\ c.kind \in {"update_user", "delete_user"} => c.target \in Ids
           /\ c.kind \in {"update_me", "update_user"} => c.change \in Change
           /\ c.kind \in {"password_me", "reset"} => c.new \in Passwords
  BY DEF Call, Change, AllKinds

(* A change of a row is a row.                                             *)
LEMMA ApplyType ==
    ASSUME NEW x \in Row, NEW c \in Change PROVE Apply(x, c) \in Row
<1>1. CASE c \in [field : {"email"}, value : Emails]
  BY <1>1 DEF Apply, Row
<1>2. CASE c \in [field : {"role"}, value : Roles]
  BY <1>2 DEF Apply, Row
<1>3. CASE c \in [field : {"active"}, value : BOOLEAN]
  BY <1>3 DEF Apply, Row
<1>4. CASE c \in [field : {"pw"}, value : Passwords]
  BY <1>4 DEF Apply, Row
<1> QED  BY <1>1, <1>2, <1>3, <1>4 DEF Change

--------------------------------------------------------------------------------
(***************************************************************************)
(* Types.  A request at its last statement has a row it may write.         *)
(***************************************************************************)

(* The subject of a request that got so far, and the row it read.          *)
Pointed ==
    \A r \in Requests :
        /\ step[r] \in {"find", "check", "write"} => req[r] \in Call
        /\ step[r] = "find" => req[r].kind = "update_user"
        /\ step[r] = "write" /\ req[r].kind \notin {"signup", "create"} =>
               subject[r] \in Ids
        /\ step[r] \in {"find", "check", "write"}
              /\ req[r].kind \notin {"signup", "reset"} =>
               /\ me[r] \in Row
               /\ subject[r] =
                     IF req[r].kind \in {"update_user", "delete_user"}
                     THEN req[r].target ELSE req[r].caller
        /\ step[r] = "write" /\ req[r].kind = "password_me" => seen[r] \in Row

Typed == TypeOK /\ Pointed

(* Well typed initially.                                                   *)
LEMMA InitTyped == Init => Typed
  BY ConstantsAssumption DEF Init, Typed, TypeOK, Pointed, Steps

(* A write of a row, or of a deletion, keeps the types.                    *)
LEMMA StoreTyped ==
    ASSUME TypeOK, NEW r \in Requests, NEW i \in Ids,
           NEW x \in Row \cup {NoRow, Deleted}, Store(r, i, x)
    PROVE  /\ rows' \in [Ids -> Row \cup {NoRow, Deleted}]
           /\ step' \in [Requests -> Steps]
           /\ step'[r] \in {"done", "failed"}
           /\ \A s \in Requests \ {r} : step'[s] = step[s]
           /\ raced \subseteq raced' /\ raced' \in SUBSET Requests
<1>1. CASE UniqueEmails([rows EXCEPT ![i] = x])
  BY <1>1 DEF Store, Goto, TypeOK, Steps
<1>2. CASE ~ UniqueEmails([rows EXCEPT ![i] = x])
  BY <1>2 DEF Store, Goto, TypeOK, Steps
<1> QED  BY <1>1, <1>2

(* Every step keeps the types.                                             *)
LEMMA NextTyped == Typed /\ [Next]_vars => Typed'
<1> SUFFICES ASSUME Typed, [Next]_vars PROVE Typed'
  OBVIOUS
<1>0. TypeOK /\ Pointed
  BY DEF Typed
<1>1. ASSUME NEW r \in Requests, BeginPublic(r) PROVE Typed'
  <2>1. TypeOK'
    BY <1>0, <1>1, CallFields
    DEF BeginPublic, Goto, TypeOK, Steps, AtWrite, Present, Pointed
  <2>2. Pointed'
    BY <1>0, <1>1, CallFields
    DEF BeginPublic, Goto, TypeOK, Pointed, Present, AtWrite, TakenBy
  <2> QED  BY <2>1, <2>2 DEF Typed
<1>2. ASSUME NEW r \in Requests, BeginUser(r) PROVE Typed'
  <2>1. TypeOK'
    BY <1>0, <1>2, CallFields DEF BeginUser, Goto, TypeOK, Steps, Present
  <2>2. Pointed'
    BY <1>0, <1>2, CallFields DEF BeginUser, Goto, TypeOK, Pointed, Present
  <2> QED  BY <2>1, <2>2 DEF Typed
<1>f. ASSUME NEW r \in Requests, FindUser(r) PROVE Typed'
  <2>1. TypeOK'
    BY <1>0, <1>f, CallFields DEF FindUser, Goto, TypeOK, Steps
  <2>2. Pointed'
    BY <1>0, <1>f, CallFields DEF FindUser, Goto, TypeOK, Pointed
  <2> QED  BY <2>1, <2>2 DEF Typed
<1>3. ASSUME NEW r \in Requests, CheckInsert(r) PROVE Typed'
  <2>1. TypeOK'
    BY <1>0, <1>3, CallFields
    DEF CheckInsert, Goto, TypeOK, Steps, AtWrite, Present, Pointed
  <2>2. Pointed'
    BY <1>0, <1>3, CallFields
    DEF CheckInsert, Goto, TypeOK, Pointed, Present, AtWrite, TakenBy
  <2> QED  BY <2>1, <2>2 DEF Typed
<1>4. ASSUME NEW r \in Requests, CheckUpdate(r) PROVE Typed'
  <2>1. TypeOK'
    BY <1>0, <1>4, CallFields
    DEF CheckUpdate, Goto, TypeOK, Steps, AtWrite, Present, Pointed
  <2>2. Pointed'
    BY <1>0, <1>4, CallFields
    DEF CheckUpdate, Goto, TypeOK, Pointed, Present, AtWrite, TakenBy
  <2> QED  BY <2>1, <2>2 DEF Typed
<1>5. ASSUME NEW r \in Requests, CheckPassword(r) PROVE Typed'
  <2>1. TypeOK'
    BY <1>0, <1>5, CallFields
    DEF CheckPassword, Goto, TypeOK, Steps, AtWrite, Present, Pointed
  <2>2. Pointed'
    BY <1>0, <1>5, CallFields
    DEF CheckPassword, Goto, TypeOK, Pointed, Present
  <2> QED  BY <2>1, <2>2 DEF Typed
<1>6. ASSUME NEW r \in Requests, CheckDelete(r) PROVE Typed'
  <2>1. TypeOK'
    BY <1>0, <1>6, CallFields
    DEF CheckDelete, Goto, TypeOK, Steps, Present
  <2>2. Pointed'
    BY <1>0, <1>6, CallFields
    DEF CheckDelete, Goto, TypeOK, Pointed, Present, AtWrite, TakenBy
  <2> QED  BY <2>1, <2>2 DEF Typed
<1>7. ASSUME NEW r \in Requests, CheckReset(r) PROVE Typed'
  <2>1. /\ UNCHANGED <<rows, logs, mailed, req, me, seen, raced>>
        /\ step[r] = "check" /\ req[r].kind = "reset"
        /\ step' \in {[step EXCEPT ![r] = "refused"], [step EXCEPT ![r] = "write"]}
    BY <1>7 DEF CheckReset, Goto
  <2>2. \/ UNCHANGED subject /\ step' = [step EXCEPT ![r] = "refused"]
        \/ \E i \in Ids : subject' = [subject EXCEPT ![r] = i]
    BY <1>7 DEF CheckReset, Goto, TakenBy
  <2>3. TypeOK'
    BY <1>0, <2>1, <2>2 DEF TypeOK, Steps
  <2>4. Pointed'
    BY <1>0, <2>1, <2>2 DEF TypeOK, Pointed
  <2> QED  BY <2>3, <2>4 DEF Typed
<1>8. ASSUME NEW r \in Requests, Insert(r) PROVE Typed'
  <2>1. req[r] \in Call /\ step[r] = "write"
    BY <1>0, <1>8 DEF Insert, AtWrite, Pointed
  <2>2. rows' \in [Ids -> Row \cup {NoRow, Deleted}]
        /\ step' \in [Requests -> Steps] /\ raced' \in SUBSET Requests
        /\ step'[r] \in {"done", "failed"}
        /\ \A s \in Requests \ {r} : step'[s] = step[s]
    <3>1. PICK i \in Ids : Store(r, i,
              [email |-> req[r].email, active |-> TRUE,
               pw |-> CHOOSE p \in Passwords : TRUE,
               role |-> IF req[r].kind = "create" THEN req[r].role ELSE "user"])
      BY <1>8 DEF Insert
    <3>2. (CHOOSE p \in Passwords : TRUE) \in Passwords
      BY ConstantsAssumption
    <3>3. [email |-> req[r].email, active |-> TRUE,
           pw |-> CHOOSE p \in Passwords : TRUE,
           role |-> IF req[r].kind = "create" THEN req[r].role ELSE "user"] \in Row
      BY <1>8, <2>1, <3>2, CallFields DEF Row, Roles, Insert, AtWrite
    <3> QED  BY <1>0, <3>1, <3>3, StoreTyped
  <2>3. UNCHANGED <<logs, mailed, req, me, seen, subject>>
    BY <1>8 DEF Insert
  <2>4. TypeOK'
    BY <1>0, <2>2, <2>3 DEF TypeOK
  <2>5. Pointed'
    BY <1>0, <2>2, <2>3 DEF Pointed
  <2> QED  BY <2>4, <2>5 DEF Typed
<1>9. ASSUME NEW r \in Requests, Update(r) PROVE Typed'
  <2>1. req[r] \in Call /\ step[r] = "write"
    BY <1>0, <1>9 DEF Update, AtWrite, Pointed
  <2>2. rows' \in [Ids -> Row \cup {NoRow, Deleted}]
        /\ step' \in [Requests -> Steps] /\ raced' \in SUBSET Requests
        /\ step'[r] \in {"done", "failed"}
        /\ \A s \in Requests \ {r} : step'[s] = step[s]
    <3>1. subject[r] \in Ids
      BY <1>0, <1>9 DEF Pointed, Update, AtWrite
    <3>2. CASE Present(subject[r])
      <4>1. Apply(rows[subject[r]], req[r].change) \in Row
        BY <1>9, <2>1, <3>2, CallFields, ApplyType DEF Present, Update, AtWrite
      <4> QED  BY <1>0, <1>9, <3>1, <3>2, <4>1, StoreTyped DEF Update
    <3>3. CASE ~ (Present(subject[r]))
      BY <1>0, <1>9, <3>3 DEF Update, Goto, TypeOK, Steps
    <3> QED  BY <3>2, <3>3
  <2>3. UNCHANGED <<logs, mailed, req, me, seen, subject>>
    BY <1>9 DEF Update
  <2>4. TypeOK'
    BY <1>0, <2>2, <2>3 DEF TypeOK
  <2>5. Pointed'
    BY <1>0, <2>2, <2>3 DEF Pointed
  <2> QED  BY <2>4, <2>5 DEF Typed
<1>10. ASSUME NEW r \in Requests, UpdatePassword(r) PROVE Typed'
  <2>1. req[r] \in Call /\ step[r] = "write"
    BY <1>0, <1>10 DEF UpdatePassword, AtWrite, Pointed
  <2>2. rows' \in [Ids -> Row \cup {NoRow, Deleted}]
        /\ step' \in [Requests -> Steps] /\ raced' \in SUBSET Requests
        /\ step'[r] \in {"done", "failed"}
        /\ \A s \in Requests \ {r} : step'[s] = step[s]
    <3>1. subject[r] \in Ids
      BY <1>0, <1>10 DEF Pointed, UpdatePassword, AtWrite
    <3>2. CASE Present(subject[r])
      <4>1. [seen[r] EXCEPT !.pw = req[r].new] \in Row
        BY <1>0, <1>10, <2>1, CallFields
        DEF Pointed, UpdatePassword, AtWrite, Row
      <4> QED  BY <1>0, <1>10, <3>1, <3>2, <4>1, StoreTyped DEF UpdatePassword
    <3>3. CASE ~ (Present(subject[r]))
      BY <1>0, <1>10, <3>3 DEF UpdatePassword, Goto, TypeOK, Steps
    <3> QED  BY <3>2, <3>3
  <2>3. UNCHANGED <<logs, mailed, req, me, seen, subject>>
    BY <1>10 DEF UpdatePassword
  <2>4. TypeOK'
    BY <1>0, <2>2, <2>3 DEF TypeOK
  <2>5. Pointed'
    BY <1>0, <2>2, <2>3 DEF Pointed
  <2> QED  BY <2>4, <2>5 DEF Typed
<1>11. ASSUME NEW r \in Requests, ResetPassword(r) PROVE Typed'
  <2>1. req[r] \in Call /\ step[r] = "write"
    BY <1>0, <1>11 DEF ResetPassword, AtWrite, Pointed
  <2>2. rows' \in [Ids -> Row \cup {NoRow, Deleted}]
        /\ step' \in [Requests -> Steps] /\ raced' \in SUBSET Requests
        /\ step'[r] \in {"done", "failed"}
        /\ \A s \in Requests \ {r} : step'[s] = step[s]
    <3>1. subject[r] \in Ids
      BY <1>0, <1>11 DEF Pointed, ResetPassword, AtWrite
    <3>2. CASE Present(subject[r])
      <4>1. [rows[subject[r]] EXCEPT !.pw = req[r].new] \in Row
        BY <1>11, <2>1, <3>2, CallFields
        DEF Present, ResetPassword, AtWrite, Row
      <4> QED  BY <1>0, <1>11, <3>1, <3>2, <4>1, StoreTyped DEF ResetPassword
    <3>3. CASE ~ (Present(subject[r]))
      BY <1>0, <1>11, <3>3 DEF ResetPassword, Goto, TypeOK, Steps
    <3> QED  BY <3>2, <3>3
  <2>3. UNCHANGED <<logs, mailed, req, me, seen, subject>>
    BY <1>11 DEF ResetPassword
  <2>4. TypeOK'
    BY <1>0, <2>2, <2>3 DEF TypeOK
  <2>5. Pointed'
    BY <1>0, <2>2, <2>3 DEF Pointed
  <2> QED  BY <2>4, <2>5 DEF Typed
<1>12. ASSUME NEW r \in Requests, Delete(r) PROVE Typed'
  <2>1. req[r] \in Call /\ step[r] = "write"
    BY <1>0, <1>12 DEF Delete, AtWrite, Pointed
  <2>2. rows' \in [Ids -> Row \cup {NoRow, Deleted}]
        /\ step' \in [Requests -> Steps] /\ raced' \in SUBSET Requests
        /\ step'[r] \in {"done", "failed"}
        /\ \A s \in Requests \ {r} : step'[s] = step[s]
    <3>1. subject[r] \in Ids
      BY <1>0, <1>12 DEF Pointed, Delete, AtWrite
    <3>2. CASE subject[r] \notin logs
      <4>1. Deleted \in Row \cup {NoRow, Deleted}
        OBVIOUS
      <4> QED  BY <1>0, <1>12, <3>1, <3>2, <4>1, StoreTyped DEF Delete
    <3>3. CASE ~ (subject[r] \notin logs)
      BY <1>0, <1>12, <3>3 DEF Delete, Goto, TypeOK, Steps
    <3> QED  BY <3>2, <3>3
  <2>3. UNCHANGED <<logs, mailed, req, me, seen, subject>>
    BY <1>12 DEF Delete
  <2>4. TypeOK'
    BY <1>0, <2>2, <2>3 DEF TypeOK
  <2>5. Pointed'
    BY <1>0, <2>2, <2>3 DEF Pointed
  <2> QED  BY <2>4, <2>5 DEF Typed
<1>13. ASSUME NEW r \in Requests, Log(r) PROVE Typed'
  <2>1. TypeOK'
    BY <1>0, <1>13, CallFields
    DEF Log, Goto, TypeOK, Steps, AtWrite, Present, Pointed
  <2>2. Pointed'
    BY <1>0, <1>13, CallFields
    DEF Log, Goto, TypeOK, Pointed, Present, AtWrite, TakenBy
  <2> QED  BY <2>1, <2>2 DEF Typed
<1>14. ASSUME NEW e \in Emails, Recover(e) PROVE Typed'
  BY <1>0, <1>14 DEF Recover, Typed, TypeOK, Pointed
<1>15. ASSUME UNCHANGED vars PROVE Typed'
  BY <1>0, <1>15 DEF vars, Typed, TypeOK, Pointed
<1> QED
  BY <1>1, <1>2, <1>f, <1>3, <1>4, <1>5, <1>6, <1>7, <1>8, <1>9, <1>10,
     <1>11, <1>12, <1>13, <1>14, <1>15,
     NextIsStep DEF Step

(* Every state of the program is well typed.                               *)
THEOREM TypeCorrect == Spec => []TypeOK
<1>1. Typed => TypeOK
  BY DEF Typed
<1> QED  BY <1>1, InitTyped, NextTyped, PTL DEF Spec

--------------------------------------------------------------------------------
(***************************************************************************)
(* What a request read still holds until another one writes a row or an    *)
(* email that it relies on.                                                *)
(***************************************************************************)

InProgress(r) == step[r] \in {"find", "check", "write"}

(* What a request may rely on at its next statement, and how it ends.      *)
Undisturbed(r) ==
    /\ InProgress(r) /\ req[r].kind \notin {"signup", "reset"} =>
           me[r] = rows[req[r].caller]
    /\ AtWrite(r, {"password_me"}) => seen[r] = rows[subject[r]]
    /\ AtWrite(r, {"reset"}) => Present(subject[r])
    /\ step[r] \in {"check", "write"} /\ req[r].kind = "update_user" =>
           Present(subject[r])
    /\ step[r] = "write" =>
           \A i \in Ids : Present(i) /\ rows[i].email \in Wanted(r) =>
               req[r].kind \in {"update_me", "update_user"} /\ i = subject[r]
    /\ ~ DeletesItself(r)
    /\ step[r] = "failed" =>
           req[r].kind \in {"delete_me", "delete_user"} /\ subject[r] \in logs

Inv == /\ Typed /\ UniqueEmails(rows) /\ AuditedUsersStay
       /\ \A r \in Requests \ raced : Undisturbed(r)

(* Nothing has been read initially.                                        *)
LEMMA InitInv == Init => Inv
<1>1. Init => UniqueEmails(rows)
  BY ConstantsAssumption DEF Init
<1>2. Init => AuditedUsersStay /\ \A r \in Requests : Undisturbed(r)
  BY DEF Init, AuditedUsersStay, Undisturbed, InProgress, DeletesItself, AtWrite
<1> QED  BY <1>1, <1>2, InitTyped DEF Inv

(* A request is undisturbed as long as others write no row and no email it *)
(* relies on.                                                              *)
LEMMA OthersStay ==
    ASSUME Typed, Typed', NEW s \in Requests, Undisturbed(s),
           step'[s] = step[s], req'[s] = req[s], me'[s] = me[s],
           seen'[s] = seen[s], subject'[s] = subject[s], logs \subseteq logs',
           \/ UNCHANGED rows
           \/ \E i \in Ids, x \in Row \cup {NoRow, Deleted} :
                 rows' = [rows EXCEPT ![i] = x] /\ ~ ReliesOn(s, i, x)
    PROVE  Undisturbed(s)'
<1>1. /\ InProgress(s)' = InProgress(s) /\ Wanted(s)' = Wanted(s)
      /\ \A K : AtWrite(s, K)' = AtWrite(s, K)
      /\ DeletesItself(s)' = DeletesItself(s)
  BY DEF InProgress, Wanted, AtWrite, DeletesItself
<1>2. CASE UNCHANGED rows
  BY <1>1, <1>2 DEF Undisturbed, Present
<1>3. ASSUME NEW i \in Ids, NEW x \in Row \cup {NoRow, Deleted},
             rows' = [rows EXCEPT ![i] = x], ~ ReliesOn(s, i, x)
      PROVE  Undisturbed(s)'
  <2>1. rows'[i] = x /\ \A j : j # i => rows'[j] = rows[j]
    BY <1>3 DEF Typed, TypeOK
  <2>2. CASE InProgress(s)
    <3>1. /\ subject[s] # i
          /\ req[s].kind \notin {"signup", "reset"} => req[s].caller # i
          /\ ~ (x \in Row /\ x.email \in Wanted(s))
      BY <1>3, <2>2 DEF ReliesOn, InProgress
    <3>2. rows'[subject[s]] = rows[subject[s]]
      BY <2>1, <3>1
    <3>3. req[s].kind \notin {"signup", "reset"} =>
              rows'[req[s].caller] = rows[req[s].caller]
      BY <2>1, <3>1
    <3>4. \A j \in Ids : Present(j)' /\ rows'[j].email \in Wanted(s) =>
              Present(j) /\ rows[j].email \in Wanted(s)
      BY <2>1, <3>1 DEF Present
    <3>5. Present(subject[s])' = Present(subject[s])
      BY <3>2 DEF Present
    <3>6. step[s] # "failed"
      BY <2>2 DEF InProgress
    <3> QED
      BY <1>1, <3>2, <3>3, <3>4, <3>5, <3>6 DEF Undisturbed
  <2>3. CASE ~ InProgress(s)
    BY <1>1, <2>3 DEF Undisturbed, InProgress, AtWrite
  <2> QED  BY <2>2, <2>3
<1> QED  BY <1>2, <1>3

(* A statement that only reads leaves the other requests as they are.      *)
LEMMA ReadInv ==
    ASSUME Inv, Typed', NEW r \in Requests, UNCHANGED <<rows, logs, raced>>,
           \A s \in Requests \ {r} :
               /\ step'[s] = step[s] /\ req'[s] = req[s] /\ me'[s] = me[s]
               /\ seen'[s] = seen[s] /\ subject'[s] = subject[s],
           r \notin raced => Undisturbed(r)'
    PROVE  Inv'
<1>1. UniqueEmails(rows)' /\ AuditedUsersStay'
  BY DEF Inv, UniqueEmails, AuditedUsersStay, Present
<1>2. ASSUME NEW s \in Requests \ raced' PROVE Undisturbed(s)'
  <2>1. CASE s = r
    BY <1>2, <2>1
  <2>2. CASE s # r
    BY <1>2, <2>2, OthersStay DEF Inv
  <2> QED  BY <2>1, <2>2
<1> QED  BY <1>1, <1>2 DEF Inv

(* A write keeps the emails unique, ends its request and marks those it    *)
(* overtakes.  It does not fail outside of a race.                         *)
LEMMA StoreInv ==
    ASSUME Inv, Typed', NEW r \in Requests, NEW i \in Ids,
           NEW x \in Row \cup {NoRow, Deleted}, Store(r, i, x),
           UNCHANGED <<logs, req, me, seen, subject>>,
           x \in Row \/ i \notin logs,
           r \notin raced /\ x \in Row =>
               \A j \in Ids : Present(j) /\ rows[j].email = x.email => j = i
    PROVE  Inv'
<1>0. TypeOK
  BY DEF Inv, Typed
<1>1. CASE ~ UniqueEmails([rows EXCEPT ![i] = x])
  <2>1. UNCHANGED <<rows, raced>> /\ step' = [step EXCEPT ![r] = "failed"]
    BY <1>1 DEF Store, Goto
  <2>2. r \in raced
    <3> SUFFICES ASSUME r \notin raced
                 PROVE  UniqueEmails([rows EXCEPT ![i] = x])
      BY <1>1
    <3> QED
      BY <1>0, ConstantsAssumption DEF Inv, UniqueEmails, Present, TypeOK
  <2>3. \A s \in Requests \ {r} : step'[s] = step[s]
    BY <1>0, <2>1 DEF TypeOK
  <2> QED  BY <2>1, <2>2, <2>3, ReadInv
<1>2. CASE UniqueEmails([rows EXCEPT ![i] = x])
  <2>1. /\ rows' = [rows EXCEPT ![i] = x]
        /\ step' = [step EXCEPT ![r] = "done"]
        /\ raced' = raced \cup {s \in Requests \ {r} : ReliesOn(s, i, x)}
    BY <1>2 DEF Store, Goto
  <2>2. UniqueEmails(rows)'
    BY <1>2, <2>1 DEF UniqueEmails
  <2>3. AuditedUsersStay'
    BY <1>0, <2>1 DEF Inv, AuditedUsersStay, Present, TypeOK
  <2>4. ASSUME NEW s \in Requests \ raced' PROVE Undisturbed(s)'
    <3>1. CASE s = r
      <4>1. step'[s] = "done"
        BY <1>0, <2>1, <3>1 DEF TypeOK
      <4> QED
        BY <4>1 DEF Undisturbed, InProgress, AtWrite, DeletesItself
    <3>2. CASE s # r
      <4>1. step'[s] = step[s] /\ ~ ReliesOn(s, i, x) /\ s \notin raced
        BY <1>0, <2>1, <2>4, <3>2 DEF TypeOK
      <4>2. /\ req'[s] = req[s] /\ me'[s] = me[s] /\ seen'[s] = seen[s]
            /\ subject'[s] = subject[s] /\ logs \subseteq logs'
        OBVIOUS
      <4>3. Undisturbed(s) /\ Typed
        BY <4>1 DEF Inv
      <4> QED  BY <2>1, <4>1, <4>2, <4>3, OthersStay
    <3> QED  BY <3>1, <3>2
  <2> QED  BY <2>2, <2>3, <2>4 DEF Inv
<1> QED  BY <1>1, <1>2

(* A change sets the email or keeps it.                                    *)
LEMMA ApplyEmail ==
    ASSUME NEW x \in Row, NEW c \in Change
    PROVE  Apply(x, c).email = IF c.field = "email" THEN c.value ELSE x.email
<1>1. CASE c \in [field : {"email"}, value : Emails]
  BY <1>1 DEF Apply, Row
<1>2. CASE c \in [field : {"role"}, value : Roles]
  BY <1>2 DEF Apply, Row
<1>3. CASE c \in [field : {"active"}, value : BOOLEAN]
  BY <1>3 DEF Apply, Row
<1>4. CASE c \in [field : {"pw"}, value : Passwords]
  BY <1>4 DEF Apply, Row
<1> QED  BY <1>1, <1>2, <1>3, <1>4 DEF Change

(* Every step keeps the invariant.                                         *)
LEMMA NextInv == Inv /\ [Next]_vars => Inv'
<1> SUFFICES ASSUME Inv, [Next]_vars PROVE Inv'
  OBVIOUS
<1>0. Typed' /\ TypeOK /\ Pointed /\ UniqueEmails(rows)
  BY NextTyped DEF Inv, Typed
<1>u. \A i, j \in Ids :
          Present(i) /\ Present(j) /\ rows[i].email = rows[j].email => i = j
  BY <1>0 DEF UniqueEmails, Present
<1>1. ASSUME NEW r \in Requests, BeginPublic(r) PROVE Inv'
  <2>1. r \notin raced => Undisturbed(r)'
    BY <1>0, <1>1
    DEF BeginPublic, Goto, Undisturbed, InProgress, DeletesItself, AtWrite,
        TypeOK
  <2> QED  BY <1>0, <1>1, <2>1, ReadInv DEF BeginPublic, Goto, TypeOK
<1>2. ASSUME NEW r \in Requests, BeginUser(r) PROVE Inv'
  <2>1. /\ step'[r] \in {"refused", "write", "find", "check"}
        /\ me'[r] = rows[req'[r].caller] /\ UNCHANGED rows
        /\ req'[r].kind \notin {"signup", "reset"}
        /\ step'[r] = "write" => req'[r].kind \in {"delete_me", "log"}
        /\ step'[r] = "check" => req'[r].kind # "update_user"
    BY <1>0, <1>2 DEF BeginUser, Goto, TypeOK
  <2>2. step'[r] = "write" => Wanted(r)' = {}
    BY <2>1 DEF Wanted
  <2>3. Undisturbed(r)'
    BY <2>1, <2>2 DEF Undisturbed, InProgress, DeletesItself, AtWrite
  <2> QED  BY <1>0, <1>2, <2>3, ReadInv DEF BeginUser, Goto, TypeOK
<1>f. ASSUME NEW r \in Requests, FindUser(r) PROVE Inv'
  <2>1. /\ UNCHANGED <<rows, req, me, subject>> /\ step[r] = "find"
        /\ req[r].kind = "update_user"
        /\ step'[r] \in {"refused", "check", "write"}
        /\ step'[r] # "refused" => Present(subject[r])
        /\ step'[r] = "write" => req[r].change.field # "email"
    BY <1>0, <1>f DEF FindUser, Goto, TypeOK, Pointed
  <2>2. step'[r] = "write" => Wanted(r)' = {}
    BY <2>1 DEF Wanted
  <2>3. r \notin raced => Undisturbed(r)'
    BY <2>1, <2>2
    DEF Inv, Undisturbed, InProgress, DeletesItself, AtWrite, Present
  <2> QED  BY <1>0, <1>f, <2>3, ReadInv DEF FindUser, Goto, TypeOK
<1>3. ASSUME NEW r \in Requests, CheckInsert(r) PROVE Inv'
  <2>1. /\ UNCHANGED <<rows, req, me, subject>> /\ step[r] = "check"
        /\ req[r].kind \in {"signup", "create"}
        /\ step'[r] \in {"refused", "write"}
        /\ step'[r] = "write" => TakenBy(req[r].email) = {}
    BY <1>0, <1>3 DEF CheckInsert, Goto, TypeOK
  <2>2. Wanted(r)' = {req[r].email}
    BY <2>1 DEF Wanted
  <2>3. r \notin raced => Undisturbed(r)'
    BY <2>1, <2>2
    DEF Inv, Undisturbed, InProgress, DeletesItself, AtWrite, Present, TakenBy
  <2> QED  BY <1>0, <1>3, <2>3, ReadInv DEF CheckInsert, Goto, TypeOK
<1>4. ASSUME NEW r \in Requests, CheckUpdate(r) PROVE Inv'
  <2>1. /\ UNCHANGED <<rows, req, me, subject>> /\ step[r] = "check"
        /\ req[r].kind \in {"update_me", "update_user"}
        /\ step'[r] \in {"refused", "write"}
        /\ step'[r] = "write" =>
               TakenBy(req[r].change.value) \subseteq {subject[r]}
    BY <1>0, <1>4 DEF CheckUpdate, Goto, TypeOK
  <2>2. Wanted(r)' \subseteq {req[r].change.value}
    BY <2>1 DEF Wanted
  <2>3. r \notin raced => Undisturbed(r)'
    BY <2>1, <2>2
    DEF Inv, Undisturbed, InProgress, DeletesItself, AtWrite, Present, TakenBy
  <2> QED  BY <1>0, <1>4, <2>3, ReadInv DEF CheckUpdate, Goto, TypeOK
<1>5. ASSUME NEW r \in Requests, CheckPassword(r) PROVE Inv'
  <2>1. /\ UNCHANGED <<rows, req, me, subject>> /\ step[r] = "check"
        /\ req[r].kind = "password_me" /\ seen'[r] = rows[subject[r]]
        /\ step'[r] \in {"failed", "refused", "write"}
        /\ step'[r] = "failed" => ~ Present(subject[r])
        /\ me[r] \in Row /\ subject[r] = req[r].caller
    BY <1>0, <1>5 DEF CheckPassword, Goto, TypeOK, Pointed
  <2>2. Wanted(r)' = {}
    BY <2>1 DEF Wanted
  <2>3. r \notin raced => Present(subject[r]) /\ me[r] = rows[req[r].caller]
    BY <2>1 DEF Inv, Undisturbed, InProgress, Present
  <2>4. r \notin raced => Undisturbed(r)'
    BY <2>1, <2>2, <2>3 DEF Undisturbed, InProgress, DeletesItself, AtWrite
  <2> QED  BY <1>0, <1>5, <2>4, ReadInv DEF CheckPassword, Goto, TypeOK
<1>6. ASSUME NEW r \in Requests, CheckDelete(r) PROVE Inv'
  <2>1. /\ UNCHANGED <<rows, req, me, subject>> /\ step[r] = "check"
        /\ req[r].kind = "delete_user" /\ step'[r] \in {"refused", "write"}
        /\ step'[r] = "write" =>
               \/ subject[r] # req[r].caller
               \/ Public(rows[subject[r]]) # Public(me[r])
    BY <1>0, <1>6 DEF CheckDelete, Goto, TypeOK
  <2>2. Wanted(r)' = {}
    BY <2>1 DEF Wanted
  <2>3. r \notin raced => me[r] = rows[req[r].caller]
    BY <2>1 DEF Inv, Undisturbed, InProgress
  <2>4. r \notin raced => Undisturbed(r)'
    BY <2>1, <2>2, <2>3 DEF Undisturbed, InProgress, DeletesItself, AtWrite
  <2> QED  BY <1>0, <1>6, <2>4, ReadInv DEF CheckDelete, Goto, TypeOK
<1>7. ASSUME NEW r \in Requests, CheckReset(r) PROVE Inv'
  <2>1. /\ UNCHANGED <<rows, req, me>> /\ req[r].kind = "reset"
        /\ step'[r] \in {"refused", "write"}
        /\ step'[r] = "write" => Present(subject'[r])
    BY <1>0, <1>7 DEF CheckReset, Goto, TypeOK, TakenBy
  <2>2. Wanted(r)' = {}
    BY <2>1 DEF Wanted
  <2>3. Undisturbed(r)'
    BY <2>1, <2>2
    DEF Undisturbed, InProgress, DeletesItself, AtWrite, Present
  <2> QED  BY <1>0, <1>7, <2>3, ReadInv DEF CheckReset, Goto, TypeOK
<1>8. ASSUME NEW r \in Requests, Insert(r) PROVE Inv'
  <2> DEFINE x == [email |-> req[r].email, active |-> TRUE,
                   pw |-> CHOOSE p \in Passwords : TRUE,
                   role |-> IF req[r].kind = "create" THEN req[r].role
                                                      ELSE "user"]
  <2>1. PICK i \in Ids : rows[i] = NoRow /\ Store(r, i, x)
    BY <1>8 DEF Insert
  <2>2. i \notin logs
    BY <2>1, ConstantsAssumption DEF Inv, AuditedUsersStay, Present
  <2>3. x \in Row
    BY <1>0, <1>8, CallFields, ConstantsAssumption
    DEF Insert, AtWrite, Pointed, Row, Roles
  <2>4. ASSUME r \notin raced, NEW j \in Ids, Present(j)
        PROVE  rows[j].email # x.email
    <3>1. /\ step[r] = "write" /\ req[r].kind \in {"signup", "create"}
          /\ x.email \in Wanted(r)
      BY <1>8 DEF Insert, AtWrite, Wanted
    <3> QED  BY <2>4, <3>1 DEF Inv, Undisturbed
  <2>5. UNCHANGED <<logs, req, me, seen, subject>>
    BY <1>8 DEF Insert
  <2> HIDE DEF x
  <2> QED  BY <1>0, <2>1, <2>2, <2>3, <2>4, <2>5, StoreInv
<1>p. ASSUME NEW r \in Requests, step[r] = "write",
             req[r].kind \notin {"signup", "create"}
      PROVE  subject[r] \in Ids /\ req[r] \in Call
  BY <1>0, <1>p DEF Pointed
<1>g. ASSUME NEW r \in Requests, UNCHANGED <<rows, logs, raced>>,
             UNCHANGED <<req, me, seen, subject>>,
             \/ Goto(r, "done")
             \/ /\ Goto(r, "failed")
                /\ \/ r \in raced
                   \/ /\ req[r].kind \in {"delete_me", "delete_user"}
                      /\ subject[r] \in logs
      PROVE  Inv'
  <2>1. /\ step'[r] \in {"done", "failed"}
        /\ \A s \in Requests \ {r} : step'[s] = step[s]
    BY <1>0, <1>g DEF Goto, TypeOK
  <2>2. r \notin raced /\ step'[r] = "failed" =>
            req[r].kind \in {"delete_me", "delete_user"} /\ subject[r] \in logs
    BY <1>0, <1>g DEF Goto, TypeOK
  <2>3. r \notin raced => Undisturbed(r)'
    BY <1>g, <2>1, <2>2 DEF Undisturbed, InProgress, DeletesItself, AtWrite
  <2> QED  BY <1>0, <1>g, <2>1, <2>3, ReadInv
<1>9. ASSUME NEW r \in Requests, Update(r) PROVE Inv'
  <2>1. /\ step[r] = "write" /\ req[r].kind \in {"update_me", "update_user"}
        /\ UNCHANGED <<logs, mailed, req, me, seen, subject>>
        /\ subject[r] \in Ids /\ req[r] \in Call
    BY <1>9, <1>p DEF Update, AtWrite
  <2>2. CASE Present(subject[r])
    <3> DEFINE x == Apply(rows[subject[r]], req[r].change)
    <3>1. req[r].change \in Change /\ rows[subject[r]] \in Row
      BY <2>1, <2>2, CallFields DEF Present
    <3>2. x \in Row
      BY <3>1, ApplyType
    <3>3. ASSUME r \notin raced, NEW j \in Ids, Present(j),
                 rows[j].email = x.email
          PROVE  j = subject[r]
      <4>1. CASE req[r].change.field = "email"
        <5>1. x.email \in Wanted(r)
          BY <2>1, <3>1, <4>1, ApplyEmail DEF Wanted
        <5> QED  BY <2>1, <3>3, <5>1 DEF Inv, Undisturbed
      <4>2. CASE req[r].change.field # "email"
        <5>1. x.email = rows[subject[r]].email
          BY <3>1, <4>2, ApplyEmail
        <5> QED  BY <1>u, <2>1, <2>2, <3>3, <5>1
      <4> QED  BY <4>1, <4>2
    <3>4. Store(r, subject[r], x)
      BY <1>9, <2>2 DEF Update
    <3> HIDE DEF x
    <3> QED  BY <1>0, <2>1, <3>2, <3>3, <3>4, StoreInv
  <2>3. CASE ~ Present(subject[r])
    <3>1. UNCHANGED <<rows, raced>> /\ Goto(r, "failed")
      BY <1>9, <2>3 DEF Update
    <3>2. r \in raced
      BY <2>1, <2>3 DEF Inv, Typed, Pointed, Undisturbed, InProgress, Present
    <3> QED  BY <1>g, <2>1, <3>1, <3>2
  <2> QED  BY <2>2, <2>3
<1>10. ASSUME NEW r \in Requests, UpdatePassword(r) PROVE Inv'
  <2>1. /\ step[r] = "write" /\ req[r].kind = "password_me"
        /\ UNCHANGED <<logs, mailed, req, me, seen, subject>>
        /\ subject[r] \in Ids /\ req[r] \in Call
    BY <1>10, <1>p DEF UpdatePassword, AtWrite
  <2>2. CASE Present(subject[r])
    <3> DEFINE x == [seen[r] EXCEPT !.pw = req[r].new]
    <3>1. seen[r] \in Row /\ req[r].new \in Passwords
      BY <1>0, <2>1, CallFields DEF Pointed
    <3>2. x \in Row /\ x.email = seen[r].email
      BY <3>1 DEF Row
    <3>3. ASSUME r \notin raced, NEW j \in Ids, Present(j),
                 rows[j].email = x.email
          PROVE  j = subject[r]
      <4>1. seen[r] = rows[subject[r]]
        BY <2>1, <3>3 DEF Inv, Undisturbed, AtWrite
      <4> QED  BY <1>u, <2>1, <2>2, <3>2, <3>3, <4>1
    <3>4. Store(r, subject[r], x)
      BY <1>10, <2>2 DEF UpdatePassword
    <3> HIDE DEF x
    <3> QED  BY <1>0, <2>1, <3>2, <3>3, <3>4, StoreInv
  <2>3. CASE ~ Present(subject[r])
    <3>1. UNCHANGED <<rows, raced>> /\ Goto(r, "done")
      BY <1>10, <2>3 DEF UpdatePassword
    <3> QED  BY <1>g, <2>1, <3>1
  <2> QED  BY <2>2, <2>3
<1>11. ASSUME NEW r \in Requests, ResetPassword(r) PROVE Inv'
  <2>1. /\ step[r] = "write" /\ req[r].kind = "reset"
        /\ UNCHANGED <<logs, mailed, req, me, seen, subject>>
        /\ subject[r] \in Ids /\ req[r] \in Call
    BY <1>11, <1>p DEF ResetPassword, AtWrite
  <2>2. CASE Present(subject[r])
    <3> DEFINE x == [rows[subject[r]] EXCEPT !.pw = req[r].new]
    <3>1. x \in Row /\ x.email = rows[subject[r]].email
      BY <2>1, <2>2, CallFields DEF Present, Row
    <3>2. ASSUME r \notin raced, NEW j \in Ids, Present(j),
                 rows[j].email = x.email
          PROVE  j = subject[r]
      BY <1>u, <2>1, <2>2, <3>1, <3>2
    <3>3. Store(r, subject[r], x)
      BY <1>11, <2>2 DEF ResetPassword
    <3> HIDE DEF x
    <3> QED  BY <1>0, <2>1, <3>1, <3>2, <3>3, StoreInv
  <2>3. CASE ~ Present(subject[r])
    <3>1. UNCHANGED <<rows, raced>> /\ Goto(r, "failed")
      BY <1>11, <2>3 DEF ResetPassword
    <3>2. r \in raced
      BY <2>1, <2>3 DEF Inv, Undisturbed, AtWrite
    <3> QED  BY <1>g, <2>1, <3>1, <3>2
  <2> QED  BY <2>2, <2>3
<1>12. ASSUME NEW r \in Requests, Delete(r) PROVE Inv'
  <2>1. /\ step[r] = "write" /\ req[r].kind \in {"delete_me", "delete_user"}
        /\ UNCHANGED <<logs, mailed, req, me, seen, subject>>
        /\ subject[r] \in Ids
    BY <1>12, <1>p DEF Delete, AtWrite
  <2>2. CASE subject[r] \notin logs
    <3>1. Deleted \in Row \cup {NoRow, Deleted} /\ Deleted \notin Row
      BY ConstantsAssumption
    <3>2. Store(r, subject[r], Deleted)
      BY <1>12, <2>2 DEF Delete
    <3> QED  BY <1>0, <2>1, <2>2, <3>1, <3>2, StoreInv
  <2>3. CASE subject[r] \in logs
    <3>1. UNCHANGED <<rows, raced>> /\ Goto(r, "failed")
      BY <1>12, <2>3 DEF Delete
    <3> QED  BY <1>g, <2>1, <2>3, <3>1
  <2> QED  BY <2>2, <2>3
<1>13. ASSUME NEW r \in Requests, Log(r) PROVE Inv'
  <2>1. /\ step[r] = "write" /\ req[r].kind = "log"
        /\ UNCHANGED <<rows, mailed, req, me, seen, subject, raced>>
        /\ subject[r] \in Ids
    BY <1>13, <1>p DEF Log, AtWrite
  <2>2. CASE Present(subject[r])
    <3>1. logs' = logs \cup {subject[r]} /\ Goto(r, "done")
      BY <1>13, <2>2 DEF Log
    <3>2. UniqueEmails(rows)' /\ AuditedUsersStay'
      BY <2>1, <2>2, <3>1
      DEF Inv, UniqueEmails, AuditedUsersStay, Present
    <3>3. /\ step'[r] = "done"
          /\ \A s \in Requests \ {r} : step'[s] = step[s]
      BY <1>0, <3>1 DEF Goto, TypeOK
    <3>4. ASSUME NEW s \in Requests \ raced' PROVE Undisturbed(s)'
      <4>1. CASE s = r
        BY <3>3, <4>1 DEF Undisturbed, InProgress, AtWrite, DeletesItself
      <4>2. CASE s # r
        <5>1. step'[s] = step[s] /\ Undisturbed(s) /\ Typed
          BY <2>1, <3>3, <3>4, <4>2 DEF Inv
        <5> QED  BY <1>0, <2>1, <3>1, <5>1, OthersStay
      <4> QED  BY <4>1, <4>2
    <3> QED  BY <1>0, <3>2, <3>4 DEF Inv
  <2>3. CASE ~ Present(subject[r])
    <3>1. UNCHANGED logs /\ Goto(r, "failed")
      BY <1>13, <2>3 DEF Log
    <3>2. r \in raced
      BY <2>1, <2>3 DEF Inv, Typed, Pointed, Undisturbed, InProgress, Present
    <3> QED  BY <1>g, <2>1, <3>1, <3>2
  <2> QED  BY <2>2, <2>3
<1>14. ASSUME UNCHANGED <<rows, logs, req, step, me, seen, subject, raced>>
       PROVE  Inv'
  <2>1. UniqueEmails(rows)' /\ AuditedUsersStay'
    BY <1>14 DEF Inv, UniqueEmails, AuditedUsersStay, Present
  <2>2. ASSUME NEW s \in Requests \ raced' PROVE Undisturbed(s)'
    BY <1>0, <1>14, <2>2, OthersStay DEF Inv
  <2> QED  BY <1>0, <2>1, <2>2 DEF Inv
<1>15. ASSUME NEW e \in Emails, Recover(e) PROVE Inv'
  BY <1>14, <1>15 DEF Recover
<1>16. ASSUME UNCHANGED vars PROVE Inv'
  BY <1>14, <1>16 DEF vars
<1> QED
  BY <1>1, <1>2, <1>f, <1>3, <1>4, <1>5, <1>6, <1>7, <1>8, <1>9, <1>10,
     <1>11, <1>12, <1>13, <1>15, <1>16, NextIsStep DEF Step

(* A user with audit records is there for good.                            *)
THEOREM AuditedCorrect == Spec => []AuditedUsersStay
<1>1. Inv => AuditedUsersStay
  BY DEF Inv
<1> QED  BY <1>1, InitInv, NextInv, PTL DEF Spec

(* A superuser only deletes itself when its own row was written meanwhile. *)
THEOREM SelfDeletionCorrect == Spec => []SelfDeletionNeedsARace
<1>1. Inv => SelfDeletionNeedsARace
  BY DEF Inv, Undisturbed, SelfDeletionNeedsARace
<1> QED  BY <1>1, InitInv, NextInv, PTL DEF Spec

(* A request whose row and email nobody else wrote does not fail: what the *)
(* checks of the endpoints let through is what the table takes, but for    *)
(* the foreign key of the log.                                             *)
THEOREM FailureCorrect == Spec => []FailureNeedsARace
<1>1. Inv => FailureNeedsARace
  BY DEF Inv, Undisturbed, FailureNeedsARace
<1> QED  BY <1>1, InitInv, NextInv, PTL DEF Spec

(* Outside of a race a password update changes only the password.          *)
THEOREM PasswordUpdateExact == Spec => LostUpdateNeedsARace
<1>1. ASSUME Inv, NEW r \in Requests \ raced, UpdatePassword(r), rows' # rows
      PROVE  Public(rows'[subject[r]]) = Public(rows[subject[r]])
  <2>1. subject[r] \in Ids /\ seen[r] \in Row /\ seen[r] = rows[subject[r]]
    BY <1>1 DEF Inv, Typed, Pointed, Undisturbed, UpdatePassword, AtWrite
  <2>2. rows' = [rows EXCEPT ![subject[r]] = [seen[r] EXCEPT !.pw = req[r].new]]
    BY <1>1 DEF UpdatePassword, Store
  <2>3. rows'[subject[r]] = [seen[r] EXCEPT !.pw = req[r].new]
    BY <1>1, <2>1, <2>2 DEF Inv, Typed, TypeOK
  <2> QED  BY <2>1, <2>3 DEF Public, Row
<1>2. Inv /\ [Next]_vars =>
        [\A r \in Requests \ raced : OnlyPasswordChanges(r)]_vars
  BY <1>1 DEF OnlyPasswordChanges
<1> QED  BY <1>2, InitInv, NextInv, PTL DEF Spec, LostUpdateNeedsARace

--------------------------------------------------------------------------------
(***************************************************************************)
(* The last superuser.                                                     *)
(***************************************************************************)

IsSuperuser(x) == x \in Row /\ x.role = "superuser" /\ x.active

HasSuperuser(t) == \E i \in Ids : IsSuperuser(t[i])

NoRacedDeletion == \A r \in raced : req[r].kind # "delete_user"

(* A request that deletes was allowed to when it began, and only a request *)
(* that has begun is overtaken.                                            *)
Permitted ==
    \A r \in Requests :
        /\ step[r] = "idle" => req[r] = NoRow /\ r \notin raced
        /\ step[r] \in {"check", "write"} =>
              /\ req[r].kind = "delete_user" => IsSuperuser(me[r])
              /\ req[r].kind = "delete_me" => me[r].role # "superuser"

(* As long as nobody changes an account's role or email, what was read of  *)
(* an account that is still there is still true of it, however old.        *)
KeptFor(r) ==
    /\ InProgress(r) /\ req[r].kind \notin {"signup", "reset"} =>
          /\ rows[req[r].caller] # NoRow
          /\ Present(req[r].caller) =>
                 Public(rows[req[r].caller]) = Public(me[r])
    /\ AtWrite(r, {"password_me"}) /\ Present(subject[r]) =>
          Public(rows[subject[r]]) = Public(seen[r])

Kept == \A r \in Requests : KeptFor(r)

SuperInv ==
    Inv /\ Permitted /\ (OnlyDeletions => Kept) /\ SuperuserRemains

(* At first nobody asked for anything.                                     *)
LEMMA InitSuper ==
    ASSUME \A t \in FirstRows : HasSuperuser(t)
    PROVE  Init => SuperInv
<1>1. Init => Permitted /\ Kept
  BY DEF Init, Permitted, Kept, KeptFor, InProgress, AtWrite
<1>2. Init => SuperuserRemains
  BY DEF Init, SuperuserRemains, HasSuperuser, IsSuperuser, Present
<1> QED  BY <1>1, <1>2, InitInv DEF SuperInv

(* What a request asks, whether it may, and who overtook whom.             *)
LEMMA NextPermitted ==
    ASSUME SuperInv, [Next]_vars
    PROVE  /\ Permitted'
           /\ NoRacedDeletion' => NoRacedDeletion
           /\ OnlyDeletions' => OnlyDeletions
<1>0. TypeOK /\ Pointed /\ Permitted
  BY DEF SuperInv, Inv, Typed
<1> USE <1>0 DEF TypeOK, OnlyDeletions, NoRacedDeletion, Goto
<1>1. ASSUME NEW r \in Requests, BeginPublic(r)
      PROVE  /\ Permitted' /\ (NoRacedDeletion' => NoRacedDeletion)
             /\ (OnlyDeletions' => OnlyDeletions)
  BY <1>1 DEF BeginPublic, Permitted
<1>2. ASSUME NEW r \in Requests, BeginUser(r)
      PROVE  /\ Permitted' /\ (NoRacedDeletion' => NoRacedDeletion)
             /\ (OnlyDeletions' => OnlyDeletions)
  BY <1>2 DEF BeginUser, Allowed, Present, IsSuperuser, Permitted
<1>3. ASSUME NEW r \in Requests,
             \/ FindUser(r) \/ CheckInsert(r) \/ CheckUpdate(r)
             \/ CheckPassword(r) \/ CheckDelete(r) \/ CheckReset(r)
      PROVE  Permitted' /\ UNCHANGED <<raced, req>>
  <2>1. /\ UNCHANGED <<raced, req, me>> /\ step[r] \in {"find", "check"}
        /\ \A s \in Requests \ {r} : step'[s] = step[s]
        /\ step'[r] # "idle"
        /\ step[r] = "find" => req[r].kind = "update_user"
    BY <1>3
    DEF FindUser, CheckInsert, CheckUpdate, CheckPassword, CheckDelete,
        CheckReset, Pointed
  <2>2. ASSUME NEW s \in Requests, s # r
        PROVE  /\ step'[s] = "idle" => req'[s] = NoRow /\ s \notin raced'
               /\ step'[s] \in {"check", "write"} =>
                     /\ req'[s].kind = "delete_user" => IsSuperuser(me'[s])
                     /\ req'[s].kind = "delete_me" => me'[s].role # "superuser"
    BY <2>1, <2>2 DEF Permitted, IsSuperuser
  <2>3. /\ req[r].kind = "delete_user" => IsSuperuser(me[r])
        /\ req[r].kind = "delete_me" => me[r].role # "superuser"
    BY <2>1 DEF Permitted
  <2> QED  BY <2>1, <2>2, <2>3 DEF Permitted, IsSuperuser
<1>4. ASSUME NEW r \in Requests, Write(r)
      PROVE  Permitted' /\ raced \subseteq raced' /\ UNCHANGED req
  <2>1. /\ step' \in {[step EXCEPT ![r] = s] : s \in {"done", "failed"}}
        /\ UNCHANGED <<req, me>> /\ raced \subseteq raced'
        /\ \A s \in raced' \ raced : InProgress(s)
    BY <1>4
    DEF Write, Insert, Update, UpdatePassword, ResetPassword, Delete, Log,
        Store, ReliesOn, InProgress
  <2> QED  BY <2>1 DEF InProgress, Permitted, IsSuperuser
<1>5. ASSUME NEW e \in Emails, Recover(e)
      PROVE  Permitted' /\ UNCHANGED <<raced, req>>
  BY <1>5 DEF Recover, Permitted, IsSuperuser
<1>6. ASSUME UNCHANGED vars PROVE Permitted' /\ UNCHANGED <<raced, req>>
  BY <1>6 DEF vars, Permitted, IsSuperuser
<1> QED
  BY <1>1, <1>2, <1>3, <1>4, <1>5, <1>6 DEF Next, Read

(* When nobody changes a role or an email, a row stays what it is until it *)
(* is deleted, but for the password.                                       *)
LEMMA RowsKept ==
    ASSUME SuperInv, OnlyDeletions, [Next]_vars, NEW i \in Ids,
           rows[i] # NoRow
    PROVE  /\ rows'[i] # NoRow
           /\ Present(i)' => Present(i) /\ Public(rows'[i]) = Public(rows[i])
<1> USE DEF SuperInv, Inv, Typed, TypeOK, Present
<1>1. CASE UNCHANGED rows
  BY <1>1
<1>2. ASSUME NEW r \in Requests, Insert(r)
      PROVE  rows'[i] = rows[i]
  BY <1>2 DEF Insert, Store
<1>3. ASSUME NEW r \in Requests, UpdatePassword(r), rows' # rows
      PROVE  /\ rows'[i] # NoRow
             /\ Present(i)' => Present(i) /\ Public(rows'[i]) = Public(rows[i])
  <2>1. /\ subject[r] \in Ids /\ Present(subject[r])
        /\ seen[r] \in Row /\ req[r].new \in Passwords
        /\ Public(rows[subject[r]]) = Public(seen[r])
    BY <1>3, CallFields DEF UpdatePassword, AtWrite, Pointed, Kept, KeptFor
  <2>2. rows' = [rows EXCEPT ![subject[r]] = [seen[r] EXCEPT !.pw = req[r].new]]
    BY <1>3 DEF UpdatePassword, Store
  <2>3. /\ [seen[r] EXCEPT !.pw = req[r].new] \in Row
        /\ Public([seen[r] EXCEPT !.pw = req[r].new]) = Public(seen[r])
    BY <2>1 DEF Row, Public
  <2>4. CASE i = subject[r]
    BY <2>1, <2>2, <2>3, <2>4, ConstantsAssumption
  <2>5. CASE i # subject[r]
    BY <2>2, <2>5
  <2> QED  BY <2>4, <2>5
<1>4. ASSUME NEW r \in Requests, Delete(r), rows' # rows
      PROVE  /\ rows'[i] # NoRow
             /\ Present(i)' => Present(i) /\ Public(rows'[i]) = Public(rows[i])
  <2>1. rows' = [rows EXCEPT ![subject[r]] = Deleted]
    BY <1>4 DEF Delete, Store
  <2> QED  BY <2>1, ConstantsAssumption
<1>5. ASSUME NEW r \in Requests PROVE ~ Update(r) /\ ~ ResetPassword(r)
  <2>1. step[r] = "write" => req[r] # NoRow
    BY ConstantsAssumption DEF Pointed
  <2> QED  BY <2>1 DEF Update, ResetPassword, AtWrite, OnlyDeletions
<1>6. Next \/ UNCHANGED rows
  BY DEF vars
<1> QED
  BY <1>1, <1>2, <1>3, <1>4, <1>5, <1>6, NextIsStep
  DEF Step, BeginPublic, BeginUser, FindUser, CheckInsert, CheckUpdate,
      CheckPassword, CheckDelete, CheckReset, Log, Recover

(* Then what was read stays true of what is there.                         *)
LEMMA NextKept ==
    ASSUME SuperInv, OnlyDeletions, [Next]_vars PROVE Kept'
<1>0. TypeOK /\ Pointed /\ TypeOK' /\ Pointed' /\ Kept
  BY NextTyped DEF SuperInv, Inv, Typed
<1>k. \A i \in Ids : rows[i] # NoRow =>
          /\ rows'[i] # NoRow
          /\ rows'[i] \in Row =>
                rows[i] \in Row /\ Public(rows'[i]) = Public(rows[i])
  BY RowsKept DEF Present
<1> SUFFICES ASSUME NEW r \in Requests PROVE KeptFor(r)'
  BY DEF Kept
<1>h. KeptFor(r)
  BY <1>0 DEF Kept
<1>1. CASE BeginPublic(r)
  BY <1>0, <1>1 DEF KeptFor, BeginPublic, AtWrite, Goto, TypeOK
<1>2. CASE BeginUser(r)
  <2>1. /\ UNCHANGED rows /\ me'[r] = rows[req'[r].caller]
        /\ Present(req'[r].caller)
        /\ step'[r] = "write" => req'[r].kind # "password_me"
    BY <1>0, <1>2 DEF BeginUser, Goto, TypeOK
  <2> QED  BY <2>1, ConstantsAssumption DEF KeptFor, AtWrite, Present
<1>3. CASE CheckPassword(r)
  <2>1. /\ UNCHANGED <<rows, req, me, subject>> /\ step[r] = "check"
        /\ seen'[r] = rows[subject[r]]
    BY <1>0, <1>3 DEF CheckPassword, TypeOK
  <2> QED  BY <1>h, <2>1 DEF KeptFor, InProgress, AtWrite, Present
<1>4. CASE /\ req'[r] = req[r] /\ me'[r] = me[r] /\ seen'[r] = seen[r]
           /\ InProgress(r)' => InProgress(r)
           /\ AtWrite(r, {"password_me"})' =>
                 AtWrite(r, {"password_me"}) /\ subject'[r] = subject[r]
  <2>1. CASE InProgress(r)' /\ req[r].kind \notin {"signup", "reset"}
    <3>1. InProgress(r) /\ req[r].caller \in Ids
      BY <1>0, <1>4, <2>1, CallFields DEF InProgress, Pointed
    <3>2. /\ rows[req[r].caller] # NoRow /\ rows'[req[r].caller] # NoRow
          /\ rows'[req[r].caller] \in Row =>
                Public(rows'[req[r].caller]) = Public(me[r])
      BY <1>h, <1>k, <2>1, <3>1 DEF KeptFor, Present
    <3>3. ASSUME AtWrite(r, {"password_me"})', Present(subject[r])'
          PROVE  Public(rows'[subject'[r]]) = Public(seen'[r])
      <4>1. /\ AtWrite(r, {"password_me"}) /\ subject'[r] = subject[r]
            /\ subject[r] = req[r].caller
        BY <1>0, <1>4, <3>3 DEF AtWrite, Pointed
      <4>2. Present(subject[r])
            /\ Public(rows'[subject[r]]) = Public(rows[subject[r]])
        BY <1>k, <3>1, <3>2, <3>3, <4>1 DEF Present
      <4> QED  BY <1>h, <1>4, <4>1, <4>2 DEF KeptFor
    <3> QED  BY <1>4, <3>2, <3>3 DEF KeptFor, Present
  <2>2. CASE ~ (InProgress(r)' /\ req[r].kind \notin {"signup", "reset"})
    <3>1. ~ AtWrite(r, {"password_me"})'
      BY <1>4, <2>2 DEF AtWrite, InProgress
    <3> QED  BY <1>4, <2>2, <3>1 DEF KeptFor
  <2> QED  BY <2>1, <2>2
<1>5. ASSUME NEW s \in Requests \ {r}, Read(s) \/ Write(s)
      PROVE  /\ step'[r] = step[r] /\ req'[r] = req[r] /\ me'[r] = me[r]
             /\ seen'[r] = seen[r] /\ subject'[r] = subject[r]
  BY <1>0, <1>5 DEF Read, Write, BeginPublic, BeginUser, FindUser, CheckInsert,
     CheckUpdate, CheckPassword, CheckDelete, CheckReset, Insert, Update,
     UpdatePassword, ResetPassword, Delete, Log, Store, Goto, TypeOK
<1>6. ASSUME Read(r)
      PROVE  BeginPublic(r) \/ BeginUser(r) \/ CheckPassword(r)
             \/ (/\ req'[r] = req[r] /\ me'[r] = me[r] /\ seen'[r] = seen[r]
                 /\ InProgress(r) /\ req[r].kind # "password_me")
  BY <1>0, <1>6 DEF Read, FindUser, CheckInsert, CheckUpdate, CheckDelete,
     CheckReset, InProgress, Pointed
<1>7. ASSUME Write(r)
      PROVE  /\ UNCHANGED <<req, me, seen>> /\ ~ InProgress(r)'
  BY <1>0, <1>7 DEF Write, Insert, Update, UpdatePassword, ResetPassword,
     Delete, Log, Store, Goto, TypeOK, InProgress
<1>8. CASE Read(r)
  BY <1>1, <1>2, <1>3, <1>4, <1>6, <1>8 DEF AtWrite
<1>9. CASE Write(r)
  <2>1. ~ AtWrite(r, {"password_me"})'
    BY <1>7, <1>9 DEF AtWrite, InProgress
  <2> QED  BY <1>4, <1>7, <1>9, <2>1
<1>10. CASE \E s \in Requests \ {r} : Read(s) \/ Write(s)
  BY <1>4, <1>5, <1>10 DEF AtWrite, InProgress
<1>11. CASE UNCHANGED <<req, step, me, seen, subject>>
  BY <1>4, <1>11 DEF AtWrite, InProgress
<1> QED
  BY <1>8, <1>9, <1>10, <1>11 DEF Next, Recover, vars

(* As long as there are only deletions, a statement leaves a superuser,    *)
(* unless it is a superuser's deletion of another, and was overtaken.      *)
LEMMA WriteKeepsSuperuser ==
    ASSUME SuperInv, NEW r \in Requests, Write(r), NoRacedDeletion,
           OnlyDeletions, HasSuperuser(rows)
    PROVE  HasSuperuser(rows')
<1> USE DEF SuperInv, Inv, Typed, TypeOK
<1>1. PICK a \in Ids : IsSuperuser(rows[a])
  BY DEF HasSuperuser
<1>2. CASE UNCHANGED rows
  BY <1>2
<1>3. CASE Insert(r)
  <2>1. rows'[a] = rows[a]
    BY <1>1, <1>3, ConstantsAssumption DEF Insert, Store, IsSuperuser
  <2> QED  BY <1>1, <2>1 DEF HasSuperuser
<1>4. CASE UpdatePassword(r) /\ rows' # rows
  <2>1. /\ subject[r] \in Ids /\ Present(subject[r])
        /\ Public(rows[subject[r]]) = Public(seen[r]) /\ seen[r] \in Row
        /\ req[r].new \in Passwords
    BY <1>4, CallFields DEF UpdatePassword, AtWrite, Pointed, Kept, KeptFor
  <2>2. rows' = [rows EXCEPT ![subject[r]] = [seen[r] EXCEPT !.pw = req[r].new]]
    BY <1>4 DEF UpdatePassword, Store
  <2>3. IsSuperuser(rows'[a])
    BY <1>1, <2>1, <2>2 DEF IsSuperuser, Row, Public
  <2> QED  BY <2>3 DEF HasSuperuser
<1>5. CASE Delete(r) /\ rows' # rows
  <2>1. /\ step[r] = "write" /\ req[r].kind \in {"delete_me", "delete_user"}
        /\ rows' = [rows EXCEPT ![subject[r]] = Deleted]
        /\ req[r].caller \in Ids
    BY <1>5, CallFields DEF Delete, AtWrite, Store, Pointed
  <2>2. CASE req[r].kind = "delete_me"
    <3>1. subject[r] = req[r].caller /\ me[r].role # "superuser"
      BY <2>1, <2>2 DEF Pointed, Permitted
    <3>2. Present(subject[r]) => rows[subject[r]].role # "superuser"
      BY <2>1, <2>2, <3>1 DEF Kept, KeptFor, InProgress, Public
    <3>3. rows'[a] = rows[a]
      BY <1>1, <2>1, <3>2 DEF IsSuperuser, Present
    <3> QED  BY <1>1, <3>3 DEF HasSuperuser
  <2>3. CASE req[r].kind = "delete_user"
    <3>1. IsSuperuser(me[r]) /\ r \notin raced
      BY <2>1, <2>3 DEF Permitted, NoRacedDeletion
    <3>2. subject[r] # req[r].caller /\ me[r] = rows[req[r].caller]
      BY <2>1, <2>3, <3>1
      DEF Undisturbed, InProgress, DeletesItself, AtWrite, IsSuperuser
    <3>3. IsSuperuser(rows'[req[r].caller])
      BY <2>1, <3>1, <3>2
    <3> QED  BY <2>1, <3>3 DEF HasSuperuser
  <2> QED  BY <2>1, <2>2, <2>3
<1>6. ~ Update(r) /\ ~ ResetPassword(r)
  <2>1. step[r] = "write" => req[r] # NoRow
    BY ConstantsAssumption DEF Pointed
  <2> QED  BY <2>1 DEF Update, ResetPassword, AtWrite, OnlyDeletions
<1>7. CASE Log(r)
  BY <1>2, <1>7 DEF Log
<1> QED  BY <1>2, <1>3, <1>4, <1>5, <1>6, <1>7 DEF Write

(* Every step keeps the invariant.                                         *)
LEMMA NextSuper == SuperInv /\ [Next]_vars => SuperInv'
<1> SUFFICES ASSUME SuperInv, [Next]_vars PROVE SuperInv'
  OBVIOUS
<1>1. SuperuserRemains <=>
        (OnlyDeletions /\ NoRacedDeletion => HasSuperuser(rows))
  BY DEF SuperuserRemains, NoRacedDeletion, HasSuperuser, IsSuperuser, Present
<1>2. SuperuserRemains' <=>
        (OnlyDeletions' /\ NoRacedDeletion' => HasSuperuser(rows'))
  BY DEF SuperuserRemains, NoRacedDeletion, HasSuperuser, IsSuperuser, Present
<1>3. (\E r \in Requests : Write(r)) \/ UNCHANGED rows
  BY DEF Next, Read, BeginPublic, BeginUser, FindUser, CheckInsert, CheckUpdate,
         CheckPassword, CheckDelete, CheckReset, Recover, vars
<1>4. ASSUME OnlyDeletions', NoRacedDeletion' PROVE HasSuperuser(rows')
  <2>1. NoRacedDeletion /\ OnlyDeletions /\ HasSuperuser(rows)
    BY <1>1, <1>4, NextPermitted DEF SuperInv
  <2>2. CASE UNCHANGED rows
    BY <2>1, <2>2
  <2> QED  BY <1>3, <2>1, <2>2, WriteKeepsSuperuser
<1>5. OnlyDeletions' => Kept'
  BY NextPermitted, NextKept
<1> QED
  BY <1>2, <1>4, <1>5, NextPermitted, NextInv DEF SuperInv

(* If there is a superuser at first, deletions leave one, whatever else    *)
(* overlaps them, as long as no superuser who deletes another is deleted   *)
(* or written meanwhile.                                                   *)
THEOREM SuperuserStays ==
    ASSUME \A t \in FirstRows : HasSuperuser(t)
    PROVE  Spec => []SuperuserRemains
<1>1. SuperInv => SuperuserRemains
  BY DEF SuperInv
<1> QED  BY <1>1, InitSuper, NextSuper, PTL DEF Spec

--------------------------------------------------------------------------------
(***************************************************************************)
(* The table is an AccountTable                                            *)
(***************************************************************************)

(* A request that is to delete a user found one when it looked.            *)
Found ==
    \A r \in Requests :
        AtWrite(r, {"delete_me", "delete_user"}) => rows[subject[r]] # NoRow

(* The row x takes the place of one that is there, or is made under a new  *)
(* id; or the row that is there is deleted.                                *)
Moves(i, x) ==
    /\ rows' = [rows EXCEPT ![i] = x] /\ UniqueEmails(rows')
    /\ \/ rows[i] = NoRow /\ x \in Row /\ x.active
       \/ Present(i) /\ x \in Row \cup {Deleted}

(* However old the row a request read, the one it writes to is there.      *)
LEMMA RowsMove ==
    ASSUME Inv, Found, [Next]_vars, rows' # rows
    PROVE  \E i \in Ids, x \in Row \cup {Deleted} : Moves(i, x)
<1>0. TypeOK /\ Pointed
  BY DEF Inv, Typed
<1>1. ASSUME NEW r \in Requests, Insert(r)
      PROVE  \E i \in Ids, x \in Row \cup {Deleted} : Moves(i, x)
  <2> DEFINE x == [email |-> req[r].email, active |-> TRUE,
                   pw |-> CHOOSE p \in Passwords : TRUE,
                   role |-> IF req[r].kind = "create" THEN req[r].role
                                                      ELSE "user"]
  <2>1. PICK i \in Ids : rows[i] = NoRow /\ Store(r, i, x)
    BY <1>1 DEF Insert
  <2>2. req[r] \in Call
    BY <1>0, <1>1 DEF Insert, AtWrite, Pointed
  <2>3. (CHOOSE p \in Passwords : TRUE) \in Passwords
    BY ConstantsAssumption
  <2>4. x \in Row /\ x.active
    BY <1>1, <2>2, <2>3, CallFields DEF Row, Roles, Insert, AtWrite
  <2>5. rows' = [rows EXCEPT ![i] = x] /\ UniqueEmails(rows')
    BY <2>1 DEF Store
  <2> HIDE DEF x
  <2> QED  BY <2>1, <2>4, <2>5 DEF Moves
<1>2. ASSUME NEW r \in Requests, NEW x \in Row,
             subject[r] \in Ids, Present(subject[r]), Store(r, subject[r], x)
      PROVE  \E i \in Ids, y \in Row \cup {Deleted} : Moves(i, y)
  <2>1. rows' = [rows EXCEPT ![subject[r]] = x] /\ UniqueEmails(rows')
    BY <1>2 DEF Store
  <2> QED  BY <1>2, <2>1 DEF Moves
<1>p. ASSUME NEW r \in Requests, step[r] = "write",
             req[r].kind \notin {"signup", "create"}
      PROVE  subject[r] \in Ids /\ req[r] \in Call
  BY <1>0, <1>p DEF Pointed
<1>3. ASSUME NEW r \in Requests, Update(r)
      PROVE  \E i \in Ids, x \in Row \cup {Deleted} : Moves(i, x)
  <2>1. /\ subject[r] \in Ids /\ req[r] \in Call /\ Present(subject[r])
        /\ Store(r, subject[r], Apply(rows[subject[r]], req[r].change))
        /\ req[r].kind \in {"update_me", "update_user"}
    BY <1>3, <1>p DEF Update, AtWrite
  <2>2. Apply(rows[subject[r]], req[r].change) \in Row
    BY <2>1, CallFields, ApplyType DEF Present
  <2> QED  BY <1>2, <2>1, <2>2
<1>4. ASSUME NEW r \in Requests, UpdatePassword(r)
      PROVE  \E i \in Ids, x \in Row \cup {Deleted} : Moves(i, x)
  <2>1. /\ subject[r] \in Ids /\ req[r] \in Call /\ Present(subject[r])
        /\ Store(r, subject[r], [seen[r] EXCEPT !.pw = req[r].new])
        /\ req[r].kind = "password_me" /\ step[r] = "write"
    BY <1>4, <1>p DEF UpdatePassword, AtWrite
  <2>2. [seen[r] EXCEPT !.pw = req[r].new] \in Row
    BY <1>0, <2>1, CallFields DEF Pointed, Row
  <2> QED  BY <1>2, <2>1, <2>2
<1>5. ASSUME NEW r \in Requests, ResetPassword(r)
      PROVE  \E i \in Ids, x \in Row \cup {Deleted} : Moves(i, x)
  <2>1. /\ subject[r] \in Ids /\ req[r] \in Call /\ Present(subject[r])
        /\ Store(r, subject[r], [rows[subject[r]] EXCEPT !.pw = req[r].new])
        /\ req[r].kind = "reset"
    BY <1>5, <1>p DEF ResetPassword, AtWrite
  <2>2. [rows[subject[r]] EXCEPT !.pw = req[r].new] \in Row
    BY <2>1, CallFields DEF Present, Row
  <2> QED  BY <1>2, <2>1, <2>2
<1>6. ASSUME NEW r \in Requests, Delete(r)
      PROVE  \E i \in Ids, x \in Row \cup {Deleted} : Moves(i, x)
  <2>1. subject[r] \in Ids /\ rows[subject[r]] # NoRow
    BY <1>6, <1>p DEF Delete, AtWrite, Found
  <2>2. /\ rows' = [rows EXCEPT ![subject[r]] = Deleted]
        /\ UniqueEmails(rows')
    BY <1>6 DEF Delete, Store
  <2>3. Present(subject[r])
    BY <1>0, <2>1, <2>2 DEF TypeOK, Present
  <2> QED  BY <2>1, <2>2, <2>3 DEF Moves
<1>7. Next
  BY DEF vars
<1> QED
  BY <1>1, <1>3, <1>4, <1>5, <1>6, <1>7, NextIsStep
  DEF Step, BeginPublic, BeginUser, FindUser, CheckInsert, CheckUpdate,
      CheckPassword, CheckDelete, CheckReset, Log, Recover

(* An id once used stays used, so a deletion still finds it was.           *)
LEMMA NextFound == Inv /\ Found /\ [Next]_vars => Found'
<1> SUFFICES ASSUME Inv, Found, [Next]_vars,
                    NEW r \in Requests, AtWrite(r, {"delete_me", "delete_user"})'
             PROVE  rows'[subject'[r]] # NoRow
  BY DEF Found
<1>0. TypeOK /\ Pointed /\ TypeOK' /\ Pointed'
  BY NextTyped DEF Inv, Typed
<1>1. subject'[r] \in Ids
  BY <1>0 DEF AtWrite, Pointed
<1>2. \A i \in Ids : rows[i] # NoRow => rows'[i] # NoRow
  <2>1. CASE rows' # rows
    <3>1. PICK i \in Ids, x \in Row \cup {Deleted} : Moves(i, x)
      BY <2>1, RowsMove
    <3>2. x # NoRow
      BY ConstantsAssumption
    <3> QED  BY <1>0, <3>1, <3>2 DEF Moves, TypeOK
  <2> QED  BY <2>1
<1>3. CASE AtWrite(r, {"delete_me", "delete_user"}) /\ subject'[r] = subject[r]
  BY <1>1, <1>2, <1>3 DEF Found
<1>4. CASE BeginUser(r)
  <2>1. Present(subject'[r])
    BY <1>0, <1>4 DEF BeginUser, AtWrite, Goto, TypeOK, Allowed
  <2> QED  BY <1>1, <1>2, <2>1, ConstantsAssumption DEF Present
<1>5. CASE CheckDelete(r)
  <2>1. Present(subject'[r])
    BY <1>0, <1>5 DEF CheckDelete, AtWrite, Goto, TypeOK
  <2> QED  BY <1>1, <1>2, <2>1, ConstantsAssumption DEF Present
<1>6. BeginUser(r) \/ CheckDelete(r)
      \/ (AtWrite(r, {"delete_me", "delete_user"}) /\ subject'[r] = subject[r])
  <2>1. ASSUME NEW s \in Requests \ {r}, Read(s) \/ Write(s)
        PROVE  /\ step'[r] = step[r] /\ req'[r] = req[r]
               /\ subject'[r] = subject[r]
    BY <1>0, <2>1 DEF Read, Write, BeginPublic, BeginUser, FindUser,
       CheckInsert, CheckUpdate, CheckPassword, CheckDelete, CheckReset, Insert, Update,
       UpdatePassword, ResetPassword, Delete, Log, Store, Goto, TypeOK
  <2>2. ASSUME Read(r)
        PROVE  BeginUser(r) \/ CheckDelete(r)
    <3>1. req'[r].kind \in {"delete_me", "delete_user"} /\ step'[r] = "write"
      BY DEF AtWrite
    <3> QED
      BY <1>0, <2>2, <3>1 DEF Read, BeginPublic, FindUser, CheckInsert,
         CheckUpdate, CheckPassword, CheckReset, Goto, TypeOK, Pointed
  <2>3. ~ Write(r)
    BY <1>0 DEF AtWrite, Write, Insert, Update, UpdatePassword,
       ResetPassword, Delete, Log, Store, Goto, TypeOK
  <2>4. ASSUME UNCHANGED <<step, req, subject>>
        PROVE  AtWrite(r, {"delete_me", "delete_user"}) /\ subject'[r] = subject[r]
    BY <2>4 DEF AtWrite
  <2> QED
    BY <2>1, <2>2, <2>3, <2>4 DEF Next, Recover, vars, AtWrite
<1> QED  BY <1>3, <1>4, <1>5, <1>6

(* Such a move of the rows is one of the accounts.                         *)
LEMMA MovesAccount ==
    ASSUME TypeOK, TypeOK', NEW i \in Ids, NEW x \in Row \cup {Deleted},
           Moves(i, x)
    PROVE  Table!Next
<1> DEFINE View(t) == [j \in Ids |-> AccountOf(t[j])]
<1>1. Account = Table!Account
  BY DEF Account, Table!Account
<1>2. ASSUME NEW y \in Row \cup {NoRow, Deleted}
      PROVE  /\ AccountOf(y) \in Account <=> y \in Row
             /\ y \in Row => /\ AccountOf(y).email = y.email
                             /\ AccountOf(y).active = y.active
             /\ y \notin Row => AccountOf(y) = y
  BY ConstantsAssumption DEF AccountOf, Account, Row
<1>3. View(rows') = [View(rows) EXCEPT ![i] = AccountOf(x)]
  <2>1. rows' = [rows EXCEPT ![i] = x]
    BY DEF Moves
  <2> QED  BY <2>1 DEF TypeOK
<1>4. Table!UniqueEmails(View(rows'))
  <2>1. \A j \in Ids : rows'[j] \in Row \cup {NoRow, Deleted}
    BY DEF TypeOK
  <2>2. ASSUME NEW j \in Ids, NEW k \in Ids,
               AccountOf(rows'[j]) \in Account,
               AccountOf(rows'[k]) \in Account,
               AccountOf(rows'[j]).email = AccountOf(rows'[k]).email
        PROVE  j = k
    <3>1. rows'[j] \in Row /\ rows'[k] \in Row
      BY <1>2, <2>1, <2>2
    <3>2. rows'[j].email = rows'[k].email
      BY <1>2, <2>2, <3>1
    <3> QED  BY <3>1, <3>2 DEF Moves, UniqueEmails
  <2> QED  BY <1>1, <2>2 DEF Table!UniqueEmails
<1>5. Table!Put(i, AccountOf(x))
  BY <1>3, <1>4 DEF Table!Put
<1>6. rows[i] \in Row \cup {NoRow, Deleted} /\ View(rows)[i] = AccountOf(rows[i])
  BY DEF TypeOK
<1>7. CASE rows[i] = NoRow /\ x \in Row /\ x.active
  <2>1. View(rows)[i] = NoRow /\ AccountOf(x) \in Account /\ AccountOf(x).active
    BY <1>2, <1>6, <1>7, ConstantsAssumption
  <2> QED  BY <1>1, <1>5, <2>1 DEF Table!Next, Table!Create
<1>8. CASE Present(i) /\ x \in Row
  <2>1. View(rows)[i] \in Account /\ AccountOf(x) \in Account
    BY <1>2, <1>6, <1>8 DEF Present
  <2> QED  BY <1>1, <1>5, <2>1 DEF Table!Next, Table!Update, Table!Present
<1>9. CASE Present(i) /\ x = Deleted
  <2>1. View(rows)[i] \in Account /\ AccountOf(x) = Deleted
    BY <1>2, <1>6, <1>9, ConstantsAssumption DEF Present
  <2> QED  BY <1>1, <1>5, <2>1 DEF Table!Next, Table!Delete, Table!Present
<1> QED  BY <1>7, <1>8, <1>9 DEF Moves

(* However the requests overlap, the user table changes as AccountTable    *)
(* says: what was deleted does not come back, and an id is used once.      *)
THEOREM RefinesAccountTable == Spec => ImplementsAccountTable
<1>1. Init => Table!Init
  BY DEF Init, Table!Init
<1>2. Init => Found
  BY DEF Init, Found, AtWrite
<1>3. Inv /\ Inv' /\ Found /\ [Next]_vars
      => [Table!Next]_([i \in Ids |-> AccountOf(rows[i])])
  <2> SUFFICES ASSUME Inv, Inv', Found, [Next]_vars, rows' # rows
               PROVE  Table!Next
    OBVIOUS
  <2>1. TypeOK /\ TypeOK'
    BY DEF Inv, Typed
  <2> QED  BY <2>1, RowsMove, MovesAccount
<1> QED
  BY <1>1, <1>2, <1>3, InitInv, NextInv, NextFound, PTL
  DEF Spec, ImplementsAccountTable, Table!Spec

(* An id is one user's for ever: once its user is deleted no write brings  *)
(* the id back, so what the log says of it (user_id) is never said of      *)
(* another user.                                                           *)
THEOREM DeletedForGood ==
    Spec => [][\A i \in Ids : rows[i] = Deleted => rows'[i] = Deleted]_vars
<1> DEFINE Stays == \A i \in Ids : rows[i] = Deleted => rows'[i] = Deleted
<1>1. Init => Found
  BY DEF Init, Found, AtWrite
<1>2. Inv /\ Found /\ [Next]_vars => [Stays]_vars
  <2> SUFFICES ASSUME Inv, Found, [Next]_vars, rows' # rows
               PROVE  Stays
    OBVIOUS
  <2>1. TypeOK /\ Deleted \notin Row \cup {NoRow}
    BY ConstantsAssumption DEF Inv, Typed
  <2>2. PICK j \in Ids, x \in Row \cup {Deleted} : Moves(j, x)
    BY RowsMove
  <2>3. rows[j] # Deleted /\ rows' = [rows EXCEPT ![j] = x]
    BY <2>1, <2>2 DEF Moves, Present
  <2> QED  BY <2>1, <2>3 DEF TypeOK
<1> QED  BY <1>1, <1>2, InitInv, NextInv, NextFound, PTL DEF Spec
================================================================================
