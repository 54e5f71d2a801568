-------------------------- MODULE AccountTokens_proofs --------------------------
(***************************************************************************)
(* Proofs about AccountTokens, for any users, emails, processes, requests, *)
(* start-ups and lives of the two kinds of token.                          *)
(***************************************************************************)
EXTENDS AccountTokens, FiniteSetTheorems, TLAPS

(* Every action, one disjunct each.                                        *)
Step ==
    \/ \E r \in Requests, w \in Workers : Begin(r, w)
    \/ \E r \in Requests : LookLogin(r)
    \/ \E r \in Requests : LookRecover(r)
    \/ \E r \in Requests : Issue(r)
    \/ \E r \in Requests : LookAccess(r)
    \/ \E r \in Requests : LookReset(r)
    \/ \E r \in Requests : Write(r)
    \/ \E r \in Requests : Finish(r)
    \/ \E s \in StartUps : LookInit(s)
    \/ \E s \in StartUps : Insert(s)
    \/ \E w \in Workers : Restart(w)
    \/ \E i \in Ids, x \in Row : Update(i, x)
    \/ \E i \in Ids : Delete(i)
    \/ \E i \in Ids, e \in Emails, p \in Passwords : Create(i, e, p)
    \/ Tick

(* Next is the disjunction of its actions.                                 *)
LEMMA NextIsStep == Next => Step
  BY DEF Next, Step, Serve, InitDb, Others

--------------------------------------------------------------------------------
(***************************************************************************)
(* Types, and what a request has at each of its statements                 *)
(***************************************************************************)

(* A request in progress has a call and a process; one about to issue a    *)
(* token or to write has found a user.                                     *)
Control ==
    \A r \in Requests :
        /\ step[r] # "idle" => call[r] \in Calls /\ proc[r] \in Workers
        /\ step[r] = "issue" =>
              call[r].kind \in {"login", "recover"} /\ user[r] \in Ids
        /\ step[r] = "write" => call[r].kind = "reset" /\ user[r] \in Ids

Typed == TypeOK /\ Control

(* What a call of each kind carries.                                       *)
LEMMA CallKinds ==
    ASSUME NEW c \in Calls
    PROVE  /\ c.kind \in {"login", "recover", "access", "reset"}
           /\ c.kind \in {"login", "recover"} => c.email \in Emails
           /\ c.kind \in {"access", "reset"} => c.token \in tokens
           /\ c.kind = "reset" => c.new \in Passwords
  BY DEF Calls

(* The numbers the constants give.                                         *)
LEMMA Numbers ==
    /\ AccessLife \in Nat /\ RecoveryLife \in Nat /\ RecoveryLife <= AccessLife
    /\ MaxTime \in Nat /\ MaxKeys \in Nat
    /\ Cardinality(Workers) \in Nat /\ Cardinality(Workers) <= MaxKeys
  BY ConstantsAssumption, FS_CardinalityType

(* Calls may only be made with more tokens as time goes on.                *)
LEMMA CallsStay ==
    ASSUME tokens \subseteq tokens' PROVE Calls \subseteq Calls'
  BY DEF Calls

(* A new token is a token.                                                 *)
LEMMA NewTokenTyped ==
    ASSUME Typed, NEW r \in Requests, step[r] = "issue",
           NEW s \in Ids \cup Emails
    PROVE  NewToken(r, s) \in Token
<1>1. /\ call[r].kind \in {"login", "recover"} /\ user[r] \in Ids
      /\ proc[r] \in Workers /\ keys[proc[r]] \in 0..MaxKeys
      /\ now \in 0..MaxTime
  BY DEF Typed, TypeOK, Control
<1>2. Life(call[r].kind) \in 0..AccessLife
  BY Numbers, <1>1 DEF Life
<1>3. now + Life(call[r].kind) \in 0..(MaxTime + AccessLife)
  BY Numbers, <1>1, <1>2
<1> QED  BY <1>1, <1>3 DEF NewToken, Token

(* What a row is stored as: a row, or the mark of a deleted one.           *)
LEMMA StoreTyped ==
    ASSUME TypeOK, NEW i \in Ids, NEW x \in Row \cup {Deleted}, Store(i, x)
    PROVE  /\ rows' \in [Ids -> Row \cup {NoUser, Deleted}]
           /\ barred' \in [Requests -> SUBSET Ids]
           /\ rows' = [rows EXCEPT ![i] = x]
  BY DEF TypeOK, Store

(* At first everything is typed.                                           *)
LEMMA InitTyped == Init => Typed
<1> SUFFICES ASSUME Init PROVE Typed
  OBVIOUS
<1>1. rows \in [Ids -> Row \cup {NoUser, Deleted}]
  BY ConstantsAssumption DEF Init
<1>2. keys \in [Workers -> 0..MaxKeys] /\ made \in 0..MaxKeys
  BY Numbers DEF Init
<1>3. TakenBy(FirstEmail) \subseteq Ids
  BY DEF TakenBy
<1> QED
  BY <1>1, <1>2, <1>3, Numbers DEF Init, Typed, TypeOK, Control, Steps

(* Every step keeps everything typed.                                      *)
LEMMA NextTyped == Typed /\ [Next]_vars => Typed'
<1> SUFFICES ASSUME Typed, [Next]_vars PROVE Typed'
  OBVIOUS
<1> USE DEF table, server
<1>0. TypeOK /\ Control
  BY DEF Typed
<1>c. ASSUME UNCHANGED tokens
      PROVE  Calls' = Calls
  BY <1>c DEF Calls
<1>1. ASSUME NEW r \in Requests, NEW w \in Workers, Begin(r, w) PROVE Typed'
  <2>1. PICK c \in Calls :
           /\ call' = [call EXCEPT ![r] = c]
           /\ Goto(r, IF c.kind \in {"access", "reset"} /\ ~ Decodes(w, c.token)
                      THEN "invalid" ELSE "look")
    BY <1>1 DEF Begin
  <2>2. call' \in [Requests -> Calls' \cup {NoUser}] /\ Calls' = Calls
    BY <1>0, <1>1, <1>c, <2>1 DEF Begin, TypeOK
  <2>3. step' \in [Requests -> Steps] /\ step'[r] \in {"look", "invalid"}
        /\ \A q \in Requests \ {r} : step'[q] = step[q]
    BY <1>0, <2>1 DEF Goto, TypeOK, Steps
  <2>4. TypeOK'
    BY <1>0, <1>1, <2>2, <2>3 DEF Begin, TypeOK
  <2>5. Control'
    BY <1>0, <1>1, <2>1, <2>2, <2>3 DEF Begin, TypeOK, Control
  <2> QED  BY <2>4, <2>5 DEF Typed
<1>f. ASSUME NEW r \in Requests,
             UNCHANGED <<table, server, now, tokens, call, proc, at, barred>>,
             step[r] = "look",
             \/ \E s \in Steps \ {"issue", "write"} :
                    Ends(r, s) \/ \E i \in Ids : Found(r, i, s)
             \/ /\ call[r].kind \in {"login", "recover"}
                /\ \E i \in Ids : Found(r, i, "issue")
             \/ /\ call[r].kind = "reset"
                /\ \E i \in Ids : Found(r, i, "write")
      PROVE  Typed'
  <2>1. /\ step' \in [Requests -> Steps]
        /\ user' \in [Requests -> Ids \cup {NoUser}]
        /\ \A q \in Requests \ {r} : step'[q] = step[q] /\ user'[q] = user[q]
        /\ step'[r] = "issue" =>
              call[r].kind \in {"login", "recover"} /\ user'[r] \in Ids
        /\ step'[r] = "write" => call[r].kind = "reset" /\ user'[r] \in Ids
    BY <1>0, <1>f DEF Found, Ends, Goto, TypeOK, Steps
  <2>2. TypeOK'
    BY <1>0, <1>f, <1>c, <2>1 DEF TypeOK
  <2>3. Control'
    BY <1>0, <1>f, <1>c, <2>1 DEF Control
  <2> QED  BY <2>2, <2>3 DEF Typed
<1>s. \A e : TakenBy(e) \subseteq Ids
  BY DEF TakenBy
<1>2. ASSUME NEW r \in Requests, LookLogin(r) PROVE Typed'
  BY <1>f, <1>s, <1>2 DEF LookLogin, Steps
<1>3. ASSUME NEW r \in Requests, LookRecover(r) PROVE Typed'
  BY <1>f, <1>s, <1>3 DEF LookRecover, Steps
<1>4. ASSUME NEW r \in Requests, Issue(r) PROVE Typed'
  <2>1. /\ (IF call[r].kind = "login" THEN user[r] ELSE call[r].email)
               \in Ids \cup Emails
        /\ call[r] \in Calls
    BY <1>0, <1>4, CallKinds DEF Issue, Control
  <2>2. tokens \subseteq tokens' /\ tokens' \subseteq Token
    BY <1>0, <1>4, <2>1, NewTokenTyped DEF Issue, Typed, TypeOK
  <2>3. call' \in [Requests -> Calls' \cup {NoUser}] /\ Calls \subseteq Calls'
    BY <1>0, <1>4, <2>2, CallsStay DEF Issue, TypeOK
  <2>4. TypeOK'
    BY <1>0, <1>4, <2>2, <2>3 DEF Issue, Goto, TypeOK, Steps
  <2>5. Control'
    BY <1>0, <1>4, <2>3 DEF Issue, Goto, TypeOK, Control
  <2> QED  BY <2>4, <2>5 DEF Typed
<1>5. ASSUME NEW r \in Requests, LookAccess(r) PROVE Typed'
  BY <1>f, <1>5 DEF LookAccess, Steps
<1>6. ASSUME NEW r \in Requests, LookReset(r) PROVE Typed'
  BY <1>f, <1>s, <1>6 DEF LookReset, Steps
<1>7. ASSUME NEW r \in Requests, Write(r) PROVE Typed'
  <2>1. user[r] \in Ids /\ call[r].new \in Passwords
    BY <1>0, <1>7, CallKinds DEF Write, Control
  <2>2. /\ rows' \in [Ids -> Row \cup {NoUser, Deleted}]
        /\ barred' \in [Requests -> SUBSET Ids]
    <3>1. CASE Present(user[r])
      <4>1. [rows[user[r]] EXCEPT !.pw = call[r].new] \in Row
        BY <2>1, <3>1 DEF Present, Row
      <4> QED  BY <1>0, <1>7, <2>1, <3>1, <4>1, StoreTyped DEF Write
    <3>2. CASE ~ Present(user[r])
      BY <1>0, <1>7, <3>2 DEF Write, TypeOK
    <3> QED  BY <3>1, <3>2
  <2>3. step' \in [Requests -> Steps] /\ step'[r] \in {"done", "failed"}
        /\ \A q \in Requests \ {r} : step'[q] = step[q]
    BY <1>0, <1>7 DEF Write, Goto, TypeOK, Steps
  <2>4. TypeOK'
    BY <1>0, <1>7, <1>c, <2>2, <2>3 DEF Write, TypeOK
  <2>5. Control'
    BY <1>0, <1>7, <1>c, <2>3 DEF Write, Control
  <2> QED  BY <2>4, <2>5 DEF Typed
<1>8. ASSUME NEW r \in Requests, Finish(r) PROVE Typed'
  <2>1. TypeOK'
    BY <1>0, <1>8, <1>c, Numbers DEF Finish, Goto, TypeOK, Steps
  <2>2. Control'
    BY <1>0, <1>8, <1>c DEF Finish, Goto, TypeOK, Control
  <2> QED  BY <2>1, <2>2 DEF Typed
<1>9. ASSUME NEW s \in StartUps, LookInit(s) PROVE Typed'
  <2>1. TypeOK'
    BY <1>0, <1>9, <1>c DEF LookInit, StartGoes, TypeOK
  <2> QED  BY <1>0, <1>9, <1>c, <2>1 DEF LookInit, Typed, Control
<1>10. ASSUME NEW s \in StartUps, Insert(s) PROVE Typed'
  <2>1. First \in Row
    BY ConstantsAssumption DEF First, Row
  <2>2. /\ rows' \in [Ids -> Row \cup {NoUser, Deleted}]
        /\ barred' \in [Requests -> SUBSET Ids] /\ firsts' \subseteq Ids
    <3>1. CASE TakenBy(FirstEmail) = {}
      <4>1. PICK i \in Ids : Store(i, First) /\ firsts' = firsts \cup {i}
        BY <1>10, <3>1 DEF Insert
      <4> QED  BY <1>0, <2>1, <4>1, StoreTyped DEF TypeOK
    <3>2. CASE TakenBy(FirstEmail) # {}
      BY <1>0, <1>10, <3>2 DEF Insert, TypeOK
    <3> QED  BY <3>1, <3>2
  <2>3. start' \in [StartUps -> {"idle", "insert", "ready", "crashed"}]
    BY <1>0, <1>10 DEF Insert, StartGoes, TypeOK
  <2>4. TypeOK'
    BY <1>0, <1>10, <1>c, <2>2, <2>3 DEF Insert, TypeOK
  <2> QED  BY <1>0, <1>10, <1>c, <2>4 DEF Insert, Typed, Control
<1>11. ASSUME NEW w \in Workers, Restart(w) PROVE Typed'
  <2>1. made + 1 \in 0..MaxKeys /\ 0 \in 0..MaxKeys /\ made' = made + 1
    BY <1>0, <1>11, Numbers DEF Restart, TypeOK
  <2>2. keys' \in [Workers -> 0..MaxKeys]
    BY <1>0, <1>11, <2>1 DEF Restart, Key, TypeOK
  <2>3. /\ step' \in [Requests -> Steps]
        /\ call' \in [Requests -> Calls' \cup {NoUser}]
        /\ user' \in [Requests -> Ids \cup {NoUser}]
        /\ at' \in [Requests -> 0..MaxTime]
        /\ barred' \in [Requests -> SUBSET Ids]
        /\ proc' \in [Requests -> Workers \cup {NoUser}]
    BY <1>0, <1>11, <1>c, Numbers DEF Restart, TypeOK, Steps
  <2>4. TypeOK'
    BY <1>0, <1>11, <2>1, <2>2, <2>3 DEF Restart, TypeOK
  <2>5. Control'
    BY <1>0, <1>11, <1>c DEF Restart, Control
  <2> QED  BY <2>4, <2>5 DEF Typed
<1>a. ASSUME NEW i \in Ids, NEW x \in Row \cup {Deleted}, Changes(i, x),
             moved' \subseteq Emails
      PROVE  Typed'
  <2>1. TypeOK'
    BY <1>0, <1>a, <1>c, StoreTyped DEF Changes, TypeOK
  <2> QED  BY <1>0, <1>a, <1>c, <2>1 DEF Changes, Typed, Control
<1>12. ASSUME NEW i \in Ids, NEW x \in Row, Update(i, x) PROVE Typed'
  <2>1. rows[i].email \in Emails
    BY <1>12 DEF Update, Present, Row
  <2> QED  BY <1>0, <1>12, <1>a, <2>1 DEF Update, TypeOK
<1>13. ASSUME NEW i \in Ids, Delete(i) PROVE Typed'
  <2>1. rows[i].email \in Emails
    BY <1>13 DEF Delete, Present, Row
  <2> QED  BY <1>0, <1>13, <1>a, <2>1 DEF Delete, TypeOK
<1>14. ASSUME NEW i \in Ids, NEW e \in Emails, NEW p \in Passwords,
              Create(i, e, p)
       PROVE  Typed'
  <2>1. [email |-> e, active |-> TRUE, pw |-> p] \in Row
    BY DEF Row
  <2> QED  BY <1>0, <1>14, <1>a, <2>1 DEF Create, TypeOK
<1>15. ASSUME Tick PROVE Typed'
  <2>1. now' \in 0..MaxTime
    BY <1>0, <1>15, Numbers DEF Tick, TypeOK
  <2>2. TypeOK'
    BY <1>0, <1>15, <1>c, <2>1 DEF Tick, TypeOK
  <2> QED  BY <1>0, <1>15, <1>c, <2>2 DEF Tick, Typed, Control
<1>16. CASE UNCHANGED vars
  <2>1. TypeOK'
    BY <1>0, <1>16, <1>c DEF vars, TypeOK
  <2> QED  BY <1>0, <1>16, <1>c, <2>1 DEF vars, Typed, Control
<1> QED
  BY <1>1, <1>2, <1>3, <1>4, <1>5, <1>6, <1>7, <1>8, <1>9, <1>10, <1>11,
     <1>12, <1>13, <1>14, <1>15, <1>16, NextIsStep DEF Step

(* The accounts, the tokens and the requests are well typed.               *)
THEOREM TypeCorrect == Spec => []TypeOK
<1>1. Typed => TypeOK
  BY DEF Typed
<1> QED  BY <1>1, InitTyped, NextTyped, PTL DEF Spec

--------------------------------------------------------------------------------
(***************************************************************************)
(* What is true of the accounts and the tokens                             *)
(***************************************************************************)

Known(i) == rows[i] # NoUser

(* An account that had the email has it still, or gave it up.              *)
HasStill(i, e) == e \in moved \/ (Present(i) /\ rows[i].email = e)

(* Nobody is barred who is active; the users that init_db made are those   *)
(* with the first superuser's email, while nobody gave that up.            *)
TableInv ==
    /\ UniqueEmails(rows)
    /\ \A r \in Requests : \A i \in barred[r] : ~ Active(i)
    /\ FirstEmail \notin moved =>
          /\ firsts \subseteq TakenBy(FirstEmail)
          /\ (\E s \in StartUps : start[s] = "ready") => TakenBy(FirstEmail) # {}

(* What a token says of its owner is true, or was until an email moved.    *)
TokenInv ==
    /\ configured => \A w \in Workers : keys[w] = 0
    /\ \A t \in tokens :
          /\ Known(t.owner) /\ t.exp = t.born + Life(t.kind)
          /\ t.kind = "login" => t.sub = t.owner
          /\ t.kind = "recover" => t.sub \in Emails /\ HasStill(t.owner, t.sub)
          /\ configured => t.key = 0

(* What a request r may rely on: it has looked at its token before it      *)
(* looks for the account, and found the account it acts on; then, of the   *)
(* three properties of the requests, what they say of r.                   *)
Good(r) ==
    /\ step[r] = "look" /\ call[r].kind \in {"access", "reset"} =>
          at[r] < call[r].token.exp
    /\ step[r] = "issue" =>
          /\ Known(user[r])
          /\ call[r].kind = "recover" => HasStill(user[r], call[r].email)
    /\ step[r] = "granted" =>
          /\ call[r].kind = "access" /\ call[r].token.kind = "login"
          /\ user[r] = call[r].token.owner
          /\ at[r] < call[r].token.born + AccessLife
          /\ user[r] \notin barred[r]
    /\ step[r] \in {"write", "done"} /\ call[r].kind = "reset" =>
          /\ call[r].token.kind = "recover"
          /\ user[r] = call[r].token.owner \/ call[r].token.sub \in moved
          /\ at[r] < call[r].token.born + RecoveryLife
          /\ user[r] \notin barred[r]
    /\ step[r] = "invalid" =>
          \/ at[r] >= call[r].token.born + Life(call[r].token.kind)
          \/ ~ configured /\ call[r].token.key # keys[proc[r]]
    /\ step[r] = "absent" /\ call[r].kind = "access" =>
          rows[call[r].token.owner] = Deleted
    /\ step[r] = "absent" /\ call[r].kind = "reset" =>
          \/ call[r].token.kind = "login"
          \/ call[r].token.sub \in moved

Inv == Typed /\ TableInv /\ TokenInv /\ \A r \in Requests : Good(r)

(* At first there is nothing but the accounts.                             *)
LEMMA InitInv == Init => Inv
<1> SUFFICES ASSUME Init PROVE Inv
  OBVIOUS
<1>1. UniqueEmails(rows)
  BY ConstantsAssumption DEF Init
<1>2. TableInv
  BY <1>1 DEF Init, TableInv
<1>3. TokenInv
  BY DEF Init, TokenInv
<1>4. \A r \in Requests : Good(r)
  BY DEF Init, Good
<1> QED  BY <1>2, <1>3, <1>4, InitTyped DEF Inv

--------------------------------------------------------------------------------
(***************************************************************************)
(* Steps of the table, as the tokens and the requests see them             *)
(***************************************************************************)

(* No account comes back or is forgotten, and an email only leaves its     *)
(* account by being given up.                                              *)
Moves ==
    /\ moved \subseteq moved'
    /\ \A i \in Ids :
          /\ Known(i) => Known(i)'
          /\ rows[i] = Deleted => rows'[i] = Deleted
          /\ \A e \in Emails : HasStill(i, e) => HasStill(i, e)'

(* Nothing moves in a table that stays.                                    *)
LEMMA Still ==
    ASSUME UNCHANGED <<rows, moved>> PROVE Moves
  BY DEF Moves, Known, HasStill, Present

(* A row that is stored moves nothing but what it says it moves, and       *)
(* nobody active is barred afterwards.                                     *)
LEMMA StoreMoves ==
    ASSUME Typed, TableInv, NEW i \in Ids, NEW x \in Row \cup {Deleted},
           Store(i, x), moved \subseteq moved', rows[i] # Deleted,
           Present(i) => \/ rows[i].email \in moved'
                         \/ x \in Row /\ x.email = rows[i].email
    PROVE  /\ Moves
           /\ \A r \in Requests :
                 /\ barred'[r] \subseteq barred[r]
                 /\ \A j \in barred'[r] : ~ Active(j)'
<1>1. /\ rows \in [Ids -> Row \cup {NoUser, Deleted}]
      /\ barred \in [Requests -> SUBSET Ids]
  BY DEF Typed, TypeOK
<1>2. rows'[i] = x /\ \A j \in Ids \ {i} : rows'[j] = rows[j]
  BY <1>1 DEF Store
<1>3. NoUser \notin Row /\ Deleted \notin Row /\ Deleted # NoUser
  BY ConstantsAssumption
<1>4. \A r \in Requests :
          barred'[r] = IF x \in Row /\ x.active THEN barred[r] \ {i} ELSE barred[r]
  BY DEF Store
<1>5. Moves
  <2>1. \A j \in Ids : /\ Known(j) => Known(j)'
                       /\ rows[j] = Deleted => rows'[j] = Deleted
    BY <1>2, <1>3 DEF Known
  <2>2. ASSUME NEW j \in Ids, NEW e \in Emails, HasStill(j, e)
        PROVE  HasStill(j, e)'
    BY <1>2, <2>2 DEF HasStill, Present
  <2> QED  BY <2>1, <2>2 DEF Moves
<1>6. ASSUME NEW r \in Requests, NEW j \in barred'[r] PROVE ~ Active(j)'
  <2>1. j \in barred[r] /\ j \in Ids /\ ~ Active(j)
    BY <1>1, <1>4, <1>6 DEF TableInv
  <2>2. CASE j = i
    BY <1>2, <1>4, <1>6, <2>1, <2>2 DEF Active, Present
  <2>3. CASE j # i
    BY <1>2, <2>1, <2>3 DEF Active, Present
  <2> QED  BY <2>2, <2>3
<1> QED  BY <1>4, <1>5, <1>6

(* What a step leaves alone of the first superuser is kept.                *)
LEMMA FirstKept ==
    ASSUME TableInv, Moves, UNCHANGED <<firsts, start>>
    PROVE  FirstEmail \notin moved' =>
              /\ firsts' \subseteq TakenBy(FirstEmail)'
              /\ (\E s \in StartUps : start'[s] = "ready") =>
                     TakenBy(FirstEmail)' # {}
<1> SUFFICES ASSUME FirstEmail \notin moved'
             PROVE  TakenBy(FirstEmail) \subseteq TakenBy(FirstEmail)'
  BY DEF TableInv, Moves
<1>1. ASSUME NEW i \in TakenBy(FirstEmail) PROVE i \in TakenBy(FirstEmail)'
  <2>1. i \in Ids /\ HasStill(i, FirstEmail)
    BY DEF TakenBy, HasStill
  <2>2. HasStill(i, FirstEmail)'
    BY <2>1, ConstantsAssumption DEF Moves
  <2> QED  BY <2>1, <2>2 DEF HasStill, TakenBy
<1> QED  BY <1>1

(* What is said of the tokens stays true when no more are made.            *)
LEMMA TokensKept ==
    ASSUME Typed, TokenInv, Moves, UNCHANGED <<configured, tokens>>,
           configured => \A w \in Workers : keys'[w] = 0
    PROVE  TokenInv'
<1>1. ASSUME NEW t \in tokens
      PROVE  /\ Known(t.owner)' /\ t.exp = t.born + Life(t.kind)
             /\ t.kind = "login" => t.sub = t.owner
             /\ t.kind = "recover" => t.sub \in Emails /\ HasStill(t.owner, t.sub)'
             /\ configured => t.key = 0
  <2>1. t.owner \in Ids
    BY DEF Typed, TypeOK, Token
  <2> QED  BY <2>1 DEF TokenInv, Moves
<1> QED  BY <1>1 DEF TokenInv

(* A request that a step leaves alone, but for its users who are active    *)
(* again.                                                                  *)
Kept(r) ==
    /\ step'[r] = step[r] /\ call'[r] = call[r] /\ proc'[r] = proc[r]
    /\ user'[r] = user[r] /\ at'[r] = at[r] /\ barred'[r] \subseteq barred[r]
    /\ configured' = configured
    /\ step[r] # "idle" => keys'[proc[r]] = keys[proc[r]]

(* It may rely on the same afterwards.                                     *)
LEMMA KeptGood ==
    ASSUME Inv, Moves, NEW r \in Requests, Kept(r)
    PROVE  Good(r)'
<1>0. Good(r) /\ moved \subseteq moved'
  BY DEF Inv, Moves
<1>1. ASSUME step[r] = "issue"
      PROVE  /\ Known(user[r])'
             /\ call[r].kind = "recover" => HasStill(user[r], call[r].email)'
  <2>1. user[r] \in Ids /\ (call[r].kind = "recover" => call[r].email \in Emails)
    BY <1>1, CallKinds DEF Inv, Typed, Control
  <2> QED  BY <1>0, <1>1, <2>1 DEF Kept, Good, Moves, Known, HasStill
<1>2. ASSUME step[r] = "absent", call[r].kind = "access"
      PROVE  rows'[call[r].token.owner] = Deleted
  <2>1. call[r].token \in Token
    BY <1>2, CallKinds DEF Inv, Typed, TypeOK, Control
  <2>2. call[r].token.owner \in Ids
    BY <2>1 DEF Token
  <2> QED  BY <1>0, <1>2, <2>2 DEF Good, Moves
<1> QED
  BY <1>0, <1>1, <1>2 DEF Kept, Good, Known, HasStill, Present, Moves

(* A request that is over relies on nothing.                               *)
LEMMA IdleGood ==
    ASSUME NEW r \in Requests, step'[r] = "idle" PROVE Good(r)'
  BY DEF Good

--------------------------------------------------------------------------------
(***************************************************************************)
(* The steps                                                               *)
(***************************************************************************)

(* A step of one request that reads the table and makes no token.          *)
LEMMA OneReads ==
    ASSUME Inv, Typed', NEW r \in Requests, UNCHANGED <<table, server, tokens>>,
           \A q \in Requests \ {r} : Kept(q),
           \A j \in barred'[r] : ~ Active(j),
           Good(r)'
    PROVE  Inv'
<1>1. Moves
  BY Still DEF table
<1>2. \A q \in Requests : Good(q)'
  BY <1>1, KeptGood
<1>3. TokenInv'
  BY <1>1, TokensKept DEF Inv, TokenInv, server
<1>4. \A q \in Requests : \A j \in barred'[q] : ~ Active(j)'
  BY DEF Inv, TableInv, Kept, table, Active, Present
<1>5. UniqueEmails(rows)'
  BY DEF Inv, TableInv, table, UniqueEmails
<1>6. TableInv'
  BY <1>1, <1>4, <1>5, FirstKept DEF Inv, TableInv, table
<1> QED  BY <1>2, <1>3, <1>6 DEF Inv

(* The look at the table of a request that is then at s, with the user i.  *)
LEMMA LookReads ==
    ASSUME Inv, Typed', NEW r \in Requests,
           UNCHANGED <<table, server, now, tokens, call, proc, at, barred>>,
           \A q \in Requests \ {r} : step'[q] = step[q] /\ user'[q] = user[q],
           Good(r)'
    PROVE  Inv'
<1>1. \A q \in Requests \ {r} : Kept(q)
  BY DEF Kept, server
<1>2. \A j \in barred'[r] : ~ Active(j)
  BY DEF Inv, TableInv
<1> QED  BY <1>1, <1>2, OneReads

(* jwt.decode lets the request in or tells why not.                        *)
LEMMA BeginInv ==
    ASSUME Inv, Typed', NEW r \in Requests, NEW w \in Workers, Begin(r, w)
    PROVE  Inv'
<1>0. /\ TypeOK /\ now \in Nat
  BY Numbers DEF Inv, Typed, TypeOK
<1>1. PICK c \in Calls :
         /\ call' = [call EXCEPT ![r] = c]
         /\ Goto(r, IF c.kind \in {"access", "reset"} /\ ~ Decodes(w, c.token)
                    THEN "invalid" ELSE "look")
  BY DEF Begin
<1>2. /\ call'[r] = c /\ at'[r] = now /\ proc'[r] = w
      /\ step'[r] = IF c.kind \in {"access", "reset"} /\ ~ Decodes(w, c.token)
                    THEN "invalid" ELSE "look"
      /\ barred'[r] = {i \in Ids : ~ Active(i)}
  BY <1>0, <1>1 DEF Begin, Goto, TypeOK
<1>3. \A q \in Requests \ {r} : Kept(q)
  BY <1>0, <1>1 DEF Begin, Goto, TypeOK, Kept, server
<1>4. \A j \in barred'[r] : ~ Active(j)
  BY <1>2
<1>5. Good(r)'
  <2>1. CASE step'[r] = "look"
    <3>1. c.kind \in {"access", "reset"} => now < c.token.exp
      BY <1>2, <2>1 DEF Decodes
    <3> QED  BY <1>2, <2>1, <3>1 DEF Good
  <2>2. CASE step'[r] = "invalid"
    <3>1. c.kind \in {"access", "reset"} /\ ~ Decodes(w, c.token)
      BY <1>2, <2>2
    <3>2. c.token \in tokens /\ c.token \in Token
      BY <1>0, <3>1, CallKinds DEF TypeOK
    <3>3. /\ c.token.exp = c.token.born + Life(c.token.kind)
          /\ configured => c.token.key = 0 /\ keys[w] = 0
      BY <3>2 DEF Inv, TokenInv
    <3>4. c.token.exp \in Nat
      BY <3>2, Numbers DEF Token
    <3>5. \/ now >= c.token.exp
          \/ ~ configured /\ c.token.key # keys[w]
      BY <1>0, <3>1, <3>3, <3>4 DEF Decodes
    <3>6. keys' = keys /\ configured' = configured
      BY DEF Begin, server
    <3> QED  BY <1>2, <2>2, <3>3, <3>5, <3>6 DEF Good
  <2> QED  BY <1>2, <2>1, <2>2
<1> QED  BY <1>3, <1>4, <1>5, OneReads DEF Begin

(* Whoever is found by an email has it.                                    *)
LEMMA TakenFacts ==
    ASSUME Typed, NEW e, NEW i \in TakenBy(e)
    PROVE  i \in Ids /\ Present(i) /\ Known(i) /\ HasStill(i, e) /\ e \in Emails
<1>1. i \in Ids /\ rows[i] \in Row /\ rows[i].email = e
  BY DEF TakenBy, Present
<1> QED  BY <1>1, ConstantsAssumption DEF Present, Known, HasStill, Row

(* A login that found its account is about to get its token.               *)
LEMMA LookLoginInv ==
    ASSUME Inv, Typed', NEW r \in Requests, LookLogin(r)
    PROVE  Inv'
<1>0. TypeOK /\ call[r].kind = "login"
  BY DEF Inv, Typed, LookLogin
<1>1. \A q \in Requests \ {r} : step'[q] = step[q] /\ user'[q] = user[q]
  BY <1>0 DEF LookLogin, Found, Ends, Goto, TypeOK
<1>2. \/ step'[r] \in {"absent", "inactive"}
      \/ step'[r] = "issue" /\ user'[r] \in TakenBy(call[r].email)
  BY <1>0 DEF LookLogin, Found, Ends, Goto, TypeOK
<1>3. call' = call /\ rows' = rows
  BY DEF LookLogin, table
<1>4. step'[r] = "issue" => Known(user[r])'
  BY <1>2, <1>3, TakenFacts DEF Inv, Known
<1>5. Good(r)'
  BY <1>0, <1>2, <1>3, <1>4 DEF Good
<1> QED  BY <1>1, <1>5, LookReads DEF LookLogin

(* A recovery that found the account of its email is about to get its      *)
(* token.                                                                  *)
LEMMA LookRecoverInv ==
    ASSUME Inv, Typed', NEW r \in Requests, LookRecover(r)
    PROVE  Inv'
<1>0. TypeOK /\ call[r].kind = "recover"
  BY DEF Inv, Typed, LookRecover
<1>1. \A q \in Requests \ {r} : step'[q] = step[q] /\ user'[q] = user[q]
  BY <1>0 DEF LookRecover, Found, Ends, Goto, TypeOK
<1>2. \/ step'[r] = "absent"
      \/ step'[r] = "issue" /\ user'[r] \in TakenBy(call[r].email)
  BY <1>0 DEF LookRecover, Found, Ends, Goto, TypeOK
<1>3. call' = call /\ rows' = rows /\ moved' = moved
  BY DEF LookRecover, table
<1>4. step'[r] = "issue" => Known(user[r])' /\ HasStill(user[r], call[r].email)'
  BY <1>2, <1>3, TakenFacts DEF Inv, Known, HasStill, Present
<1>5. Good(r)'
  BY <1>0, <1>2, <1>3, <1>4 DEF Good
<1> QED  BY <1>1, <1>5, LookReads DEF LookRecover

(* A request with a login of i acts as i, if i is there and active.        *)
LEMMA LookAccessInv ==
    ASSUME Inv, Typed', NEW r \in Requests, LookAccess(r)
    PROVE  Inv'
<1> DEFINE t == call[r].token
<1>0. /\ TypeOK /\ call[r].kind = "access" /\ step[r] = "look"
      /\ call[r] \in Calls
  BY DEF Inv, Typed, Control, LookAccess
<1>1. \A q \in Requests \ {r} : step'[q] = step[q] /\ user'[q] = user[q]
  BY <1>0 DEF LookAccess, Found, Ends, Goto, TypeOK
<1>2. \/ step'[r] \in {"failed", "inactive"}
      \/ step'[r] = "absent" /\ t.sub \in Ids /\ ~ Present(t.sub)
      \/ step'[r] = "granted" /\ user'[r] = t.sub /\ t.sub \in Ids
         /\ Active(t.sub)
  BY <1>0 DEF LookAccess, Found, Ends, Goto, TypeOK
<1>3. call' = call /\ rows' = rows /\ at' = at /\ barred' = barred
  BY DEF LookAccess, table
<1>4. t \in tokens /\ t \in Token
  BY <1>0, CallKinds DEF TypeOK
<1>5. /\ Known(t.owner) /\ t.exp = t.born + Life(t.kind)
      /\ t.kind = "login" => t.sub = t.owner
      /\ t.kind = "recover" => t.sub \in Emails
  BY <1>4 DEF Inv, TokenInv
<1>6. t.kind \in {"login", "recover"} /\ t.owner \in Ids
  BY <1>4 DEF Token
<1>7. t.sub \in Ids => t.kind = "login" /\ t.sub = t.owner
  BY <1>5, <1>6, ConstantsAssumption
<1>8. at[r] < t.exp
  BY <1>0 DEF Inv, Good
<1>9. step'[r] = "absent" => rows[t.owner] = Deleted
  BY <1>0, <1>2, <1>5, <1>6, <1>7 DEF TypeOK, Known, Present
<1>10. step'[r] = "granted" =>
          /\ t.kind = "login" /\ user'[r] = t.owner
          /\ at[r] < t.born + AccessLife /\ user'[r] \notin barred[r]
  BY <1>2, <1>5, <1>7, <1>8 DEF Inv, TableInv, Life
<1>11. Good(r)'
  BY <1>0, <1>2, <1>3, <1>9, <1>10 DEF Good
<1> QED  BY <1>1, <1>11, LookReads DEF LookAccess

(* A reset finds the account its token was mailed for, or one that has     *)
(* taken an email that was given up.                                       *)
LEMMA LookResetInv ==
    ASSUME Inv, Typed', NEW r \in Requests, LookReset(r)
    PROVE  Inv'
<1> DEFINE t == call[r].token
<1>0. /\ TypeOK /\ call[r].kind = "reset" /\ step[r] = "look"
      /\ call[r] \in Calls
  BY DEF Inv, Typed, Control, LookReset
<1>1. \A q \in Requests \ {r} : step'[q] = step[q] /\ user'[q] = user[q]
  BY <1>0 DEF LookReset, Found, Ends, Goto, TypeOK
<1>2. \/ step'[r] = "inactive"
      \/ step'[r] = "absent" /\ TakenBy(t.sub) = {}
      \/ step'[r] = "write" /\ user'[r] \in TakenBy(t.sub) /\ Active(user'[r])
  BY <1>0 DEF LookReset, Found, Ends, Goto, TypeOK
<1>3. call' = call /\ rows' = rows /\ at' = at /\ barred' = barred /\ moved' = moved
  BY DEF LookReset, table
<1>4. t \in tokens /\ t \in Token
  BY <1>0, CallKinds DEF TypeOK
<1>5. /\ t.exp = t.born + Life(t.kind)
      /\ t.kind = "login" => t.sub = t.owner
      /\ t.kind = "recover" => HasStill(t.owner, t.sub)
  BY <1>4 DEF Inv, TokenInv
<1>6. t.kind \in {"login", "recover"} /\ t.owner \in Ids
  BY <1>4 DEF Token
<1>7. at[r] < t.exp
  BY <1>0 DEF Inv, Good
<1>8. step'[r] = "absent" => t.kind = "login" \/ t.sub \in moved
  BY <1>2, <1>5, <1>6 DEF HasStill, TakenBy
<1>9. ASSUME step'[r] = "write"
      PROVE  /\ t.kind = "recover" /\ at[r] < t.born + RecoveryLife
             /\ user'[r] = t.owner \/ t.sub \in moved
             /\ user'[r] \notin barred[r]
  <2>1. user'[r] \in TakenBy(t.sub) /\ Active(user'[r])
    BY <1>2, <1>9
  <2>2. user'[r] \in Ids /\ Present(user'[r]) /\ rows[user'[r]].email = t.sub
    BY <2>1 DEF TakenBy
  <2>3. t.sub \in Emails
    BY <2>1, TakenFacts DEF Inv
  <2>4. t.kind = "recover"
    BY <1>5, <1>6, <2>3, ConstantsAssumption
  <2>5. t.sub \notin moved => user'[r] = t.owner
    BY <1>5, <1>6, <2>2, <2>4
    DEF Inv, TableInv, UniqueEmails, HasStill, Present
  <2>6. user'[r] \notin barred[r]
    BY <2>1 DEF Inv, TableInv
  <2>7. Life(t.kind) = RecoveryLife
    BY <2>4 DEF Life
  <2> QED  BY <1>5, <1>7, <2>4, <2>5, <2>6, <2>7
<1>10. Good(r)'
  BY <1>0, <1>2, <1>3, <1>8, <1>9 DEF Good
<1> QED  BY <1>1, <1>10, LookReads DEF LookReset

(* A new token names its owner, or the email its owner had or gave up.     *)
LEMMA IssueInv ==
    ASSUME Inv, Typed', NEW r \in Requests, Issue(r)
    PROVE  Inv'
<1> DEFINE s == IF call[r].kind = "login" THEN user[r] ELSE call[r].email
           n == NewToken(r, s)
<1>0. /\ TypeOK /\ step[r] = "issue" /\ call[r] \in Calls
      /\ call[r].kind \in {"login", "recover"} /\ user[r] \in Ids
      /\ proc[r] \in Workers
  BY DEF Inv, Typed, Control, Issue
<1>1. /\ tokens' = tokens \cup {n} /\ step'[r] = "done"
      /\ \A q \in Requests \ {r} : step'[q] = step[q]
  BY <1>0 DEF Issue, Goto, TypeOK
<1>2. Moves
  BY Still DEF Issue, table
<1>3. \A q \in Requests \ {r} : Kept(q)
  BY <1>1 DEF Kept, Issue, server
<1>4. Good(r)'
  BY <1>0, <1>1 DEF Good, Issue
<1>5. \A q \in Requests : Good(q)'
  BY <1>2, <1>3, <1>4, KeptGood
<1>6. /\ n.owner = user[r] /\ n.kind = call[r].kind /\ n.sub = s
      /\ n.exp = n.born + Life(n.kind) /\ n.key = keys[proc[r]]
  BY DEF NewToken
<1>7. /\ Known(n.owner)
      /\ n.kind = "login" => n.sub = n.owner
      /\ n.kind = "recover" => n.sub \in Emails /\ HasStill(n.owner, n.sub)
      /\ configured => n.key = 0
  BY <1>0, <1>6, CallKinds DEF Inv, TokenInv, Good
<1>8. UNCHANGED <<rows, moved, configured, keys>>
  BY DEF Issue, table, server
<1>9. TokenInv'
  BY <1>1, <1>6, <1>7, <1>8
  DEF Inv, TokenInv, Known, HasStill, Present
<1>10. TableInv'
  BY <1>2, FirstKept DEF Issue, table, Inv, TableInv, UniqueEmails, Active, Present
<1> QED  BY <1>5, <1>9, <1>10 DEF Inv

(* A step that stores x as the row i and at most ends requests well.       *)
LEMMA StoreInv ==
    ASSUME Inv, Typed', NEW i \in Ids, NEW x \in Row \cup {Deleted},
           Store(i, x), moved \subseteq moved', rows[i] # Deleted,
           Present(i) => \/ rows[i].email \in moved'
                         \/ x \in Row /\ x.email = rows[i].email,
           UniqueEmails(rows'),
           UNCHANGED <<server, tokens, firsts, start, call, proc, user, at>>,
           \A q \in Requests : step'[q] = step[q] \/ Good(q)'
    PROVE  Inv'
<1>1. /\ Moves
      /\ \A q \in Requests : /\ barred'[q] \subseteq barred[q]
                             /\ \A j \in barred'[q] : ~ Active(j)'
  BY StoreMoves DEF Inv
<1>3. \A q \in Requests : Good(q)'
  BY <1>1, KeptGood DEF Kept, server
<1>4. TokenInv'
  BY <1>1, TokensKept DEF Inv, TokenInv, server
<1>5. TableInv'
  BY <1>1, FirstKept DEF Inv, TableInv
<1> QED  BY <1>3, <1>4, <1>5 DEF Inv

(* A password is written for the account that was found.                   *)
LEMMA WriteInv ==
    ASSUME Inv, Typed', NEW r \in Requests, Write(r)
    PROVE  Inv'
<1> DEFINE x == [rows[user[r]] EXCEPT !.pw = call[r].new]
<1>0. /\ TypeOK /\ step[r] = "write" /\ call[r] \in Calls
      /\ call[r].kind = "reset" /\ user[r] \in Ids
  BY DEF Inv, Typed, Control, Write
<1>1. CASE Present(user[r])
  <2>1. /\ Store(user[r], x) /\ step'[r] = "done"
        /\ \A q \in Requests \ {r} : step'[q] = step[q]
    BY <1>0, <1>1 DEF Write, Goto, TypeOK
  <2>2. rows[user[r]] \in Row /\ call[r].new \in Passwords
    BY <1>0, <1>1, CallKinds DEF Present
  <2>3. x \in Row /\ x.email = rows[user[r]].email /\ rows[user[r]] # Deleted
    BY <2>2, ConstantsAssumption DEF Row
  <2>4. \A j \in Ids : rows'[j] = IF j = user[r] THEN x ELSE rows[j]
    BY <1>0, <2>1 DEF Store, TypeOK
  <2>5. UniqueEmails(rows')
    BY <2>2, <2>3, <2>4 DEF Inv, TableInv, UniqueEmails
  <2>6. barred'[r] \subseteq barred[r]
    BY <2>1 DEF Store
  <2>7. Good(r)'
    BY <1>0, <2>1, <2>6 DEF Inv, Good, Write
  <2> QED
    BY <1>0, <2>1, <2>3, <2>5, <2>7, StoreInv DEF Write
<1>2. CASE ~ Present(user[r])
  <2>1. /\ step'[r] = "failed" /\ UNCHANGED <<rows, barred>>
        /\ \A q \in Requests \ {r} : step'[q] = step[q]
    BY <1>0, <1>2 DEF Write, Goto, TypeOK
  <2>2. Good(r)'
    BY <1>0, <2>1 DEF Good
  <2>3. UNCHANGED <<table, server, now, tokens, call, proc, at, barred, user>>
    BY <2>1 DEF Write, table, server
  <2> QED
    BY <2>1, <2>2, <2>3, LookReads
<1> QED  BY <1>1, <1>2

(* The first superuser is made when its email is nobody's.                 *)
LEMMA InsertInv ==
    ASSUME Inv, Typed', NEW s \in StartUps, Insert(s)
    PROVE  Inv'
<1>0. TypeOK
  BY DEF Inv, Typed
<1>1. CASE TakenBy(FirstEmail) = {}
  <2>1. PICK i \in Ids : /\ rows[i] = NoUser /\ Store(i, First)
                         /\ firsts' = firsts \cup {i}
    BY <1>1 DEF Insert
  <2>2. First \in Row /\ First.email = FirstEmail /\ ~ Present(i)
        /\ rows[i] # Deleted
    BY <2>1, ConstantsAssumption DEF First, Row, Present
  <2>3. \A j \in Ids : rows'[j] = IF j = i THEN First ELSE rows[j]
    BY <1>0, <2>1 DEF Store, TypeOK
  <2>4. \A j \in Ids : Present(j) => rows[j].email # FirstEmail
    BY <1>1 DEF TakenBy
  <2>5. UniqueEmails(rows')
    BY <2>2, <2>3, <2>4 DEF Inv, TableInv, UniqueEmails, Present
  <2>6. /\ Moves
        /\ \A q \in Requests : /\ barred'[q] \subseteq barred[q]
                               /\ \A j \in barred'[q] : ~ Active(j)'
    BY <2>1, <2>2, StoreMoves DEF Inv, Insert
  <2>7. \A q \in Requests : Good(q)'
    BY <2>6, KeptGood DEF Kept, server, Insert
  <2>8. TokenInv'
    BY <2>6, TokensKept DEF Inv, TokenInv, server, Insert
  <2>9. i \in TakenBy(FirstEmail)'
    BY <2>2, <2>3 DEF TakenBy, Present
  <2>10. FirstEmail \notin moved => firsts = {}
    BY <1>1 DEF Inv, TableInv
  <2>11. TableInv'
    BY <2>1, <2>5, <2>6, <2>9, <2>10 DEF TableInv, Insert
  <2> QED  BY <2>7, <2>8, <2>11 DEF Inv
<1>2. CASE TakenBy(FirstEmail) # {}
  <2>1. UNCHANGED <<rows, barred, firsts, moved, server, tokens>>
    BY <1>2 DEF Insert
  <2>2. Moves
    BY <2>1, Still
  <2>3. \A q \in Requests : Good(q)'
    BY <2>1, <2>2, KeptGood DEF Kept, server, Insert
  <2>4. TokenInv'
    BY <2>1, <2>2, TokensKept DEF Inv, TokenInv, server
  <2>5. TakenBy(FirstEmail)' = TakenBy(FirstEmail)
    BY <2>1 DEF TakenBy, Present
  <2>6. TableInv'
    BY <1>2, <2>1, <2>5 DEF Inv, TableInv, UniqueEmails, Active, Present
  <2> QED  BY <2>3, <2>4, <2>6 DEF Inv
<1> QED  BY <1>1, <1>2

(* A start-up that finds the email taken is through.                       *)
LEMMA LookInitInv ==
    ASSUME Inv, Typed', NEW s \in StartUps, LookInit(s)
    PROVE  Inv'
<1>1. UNCHANGED <<rows, barred, firsts, moved, server, tokens>>
  BY DEF LookInit
<1>2. Moves
  BY <1>1, Still
<1>3. \A q \in Requests : Good(q)'
  BY <1>1, <1>2, KeptGood DEF Kept, server, LookInit
<1>4. TokenInv'
  BY <1>1, <1>2, TokensKept DEF Inv, TokenInv, server
<1>5. TakenBy(FirstEmail)' = TakenBy(FirstEmail)
  BY <1>1 DEF TakenBy, Present
<1>6. \A u \in StartUps : start'[u] = "ready" =>
          start[u] = "ready" \/ TakenBy(FirstEmail) # {}
  BY DEF LookInit, StartGoes, Inv, Typed, TypeOK
<1>7. TableInv'
  BY <1>1, <1>5, <1>6 DEF Inv, TableInv, UniqueEmails, Active, Present
<1> QED  BY <1>3, <1>4, <1>7 DEF Inv

(* The requests of a process that dies end; its key is only that of        *)
(* others when it is configured.                                           *)
LEMMA RestartInv ==
    ASSUME Inv, Typed', NEW w \in Workers, Restart(w)
    PROVE  Inv'
<1>0. TypeOK
  BY DEF Inv, Typed
<1>1. UNCHANGED <<rows, firsts, moved, start, tokens, configured>>
  BY DEF Restart, table
<1>2. Moves
  BY <1>1, Still
<1>3. \A v \in Workers :
         keys'[v] = IF v = w THEN (IF configured THEN 0 ELSE made + 1) ELSE keys[v]
  BY <1>0 DEF Restart, Key, TypeOK
<1>4. ASSUME NEW q \in Requests PROVE Good(q)'
  <2>1. CASE proc[q] = w
    BY <2>1, IdleGood DEF Restart
  <2>2. CASE proc[q] # w
    <3>1. step[q] # "idle" => proc[q] \in Workers
      BY DEF Inv, Typed, Control
    <3>2. Kept(q)
      BY <1>1, <1>3, <2>2, <3>1 DEF Kept, Restart
    <3> QED  BY <1>2, <3>2, KeptGood
  <2> QED  BY <2>1, <2>2
<1>5. TokenInv'
  BY <1>1, <1>2, <1>3, TokensKept DEF Inv, TokenInv
<1>6. \A q \in Requests : barred'[q] \subseteq barred[q]
  BY DEF Restart
<1>7. TableInv'
  BY <1>1, <1>2, <1>6, FirstKept DEF Inv, TableInv, UniqueEmails, Active, Present
<1> QED  BY <1>4, <1>5, <1>7 DEF Inv

(* Every step keeps all of it.                                             *)
LEMMA NextInv == Inv /\ [Next]_vars => Inv'
<1> SUFFICES ASSUME Inv, [Next]_vars PROVE Inv'
  OBVIOUS
<1>t. Typed'
  BY NextTyped DEF Inv
<1>0. TypeOK
  BY DEF Inv, Typed
<1>1. ASSUME NEW r \in Requests, NEW w \in Workers, Begin(r, w) PROVE Inv'
  BY <1>t, <1>1, BeginInv
<1>2. ASSUME NEW r \in Requests, LookLogin(r) PROVE Inv'
  BY <1>t, <1>2, LookLoginInv
<1>3. ASSUME NEW r \in Requests, LookRecover(r) PROVE Inv'
  BY <1>t, <1>3, LookRecoverInv
<1>4. ASSUME NEW r \in Requests, Issue(r) PROVE Inv'
  BY <1>t, <1>4, IssueInv
<1>5. ASSUME NEW r \in Requests, LookAccess(r) PROVE Inv'
  BY <1>t, <1>5, LookAccessInv
<1>6. ASSUME NEW r \in Requests, LookReset(r) PROVE Inv'
  BY <1>t, <1>6, LookResetInv
<1>7. ASSUME NEW r \in Requests, Write(r) PROVE Inv'
  BY <1>t, <1>7, WriteInv
<1>8. ASSUME NEW r \in Requests, Finish(r) PROVE Inv'
  <2>1. step'[r] = "idle" /\ barred'[r] = {}
    BY <1>0, <1>8 DEF Finish, Goto, TypeOK
  <2>2. \A q \in Requests \ {r} : Kept(q)
    BY <1>0, <1>8 DEF Finish, Goto, TypeOK, Kept, server
  <2> QED  BY <1>t, <1>8, <2>1, <2>2, IdleGood, OneReads DEF Finish
<1>9. ASSUME NEW s \in StartUps, LookInit(s) PROVE Inv'
  BY <1>t, <1>9, LookInitInv
<1>10. ASSUME NEW s \in StartUps, Insert(s) PROVE Inv'
  BY <1>t, <1>10, InsertInv
<1>11. ASSUME NEW w \in Workers, Restart(w) PROVE Inv'
  BY <1>t, <1>11, RestartInv
<1>a. ASSUME NEW i \in Ids, NEW x \in Row \cup {Deleted}, Changes(i, x),
             moved \subseteq moved', rows[i] # Deleted,
             Present(i) => \/ rows[i].email \in moved'
                           \/ x \in Row /\ x.email = rows[i].email
      PROVE  Inv'
  BY <1>t, <1>a, StoreInv DEF Changes
<1>12. ASSUME NEW i \in Ids, NEW x \in Row, Update(i, x) PROVE Inv'
  <2>1. /\ rows[i] # Deleted /\ moved \subseteq moved'
        /\ rows[i].email \in moved' \/ x.email = rows[i].email
    BY <1>12, ConstantsAssumption DEF Update, Present
  <2> QED  BY <1>12, <1>a, <2>1 DEF Update
<1>13. ASSUME NEW i \in Ids, Delete(i) PROVE Inv'
  <2>1. /\ rows[i] # Deleted /\ rows[i].email \in moved'
        /\ moved \subseteq moved'
    BY <1>13, ConstantsAssumption DEF Delete, Present, Row
  <2> QED  BY <1>13, <1>a, <2>1 DEF Delete
<1>14. ASSUME NEW i \in Ids, NEW e \in Emails, NEW p \in Passwords,
              Create(i, e, p)
       PROVE  Inv'
  <2>1. /\ [email |-> e, active |-> TRUE, pw |-> p] \in Row
        /\ ~ Present(i) /\ rows[i] # Deleted /\ moved' = moved
    BY <1>14, ConstantsAssumption DEF Create, Present, Row
  <2> QED  BY <1>14, <1>a, <2>1 DEF Create
<1>k. ASSUME UNCHANGED <<table, server, tokens, call, proc, step, user, at,
                         barred>>
      PROVE  Inv'
  <2>1. Moves
    BY <1>k, Still DEF table
  <2>2. \A q \in Requests : Good(q)'
    BY <1>k, <2>1, KeptGood DEF Kept, server
  <2>3. TokenInv'
    BY <1>k, <2>1, TokensKept DEF Inv, TokenInv, server
  <2>4. TableInv'
    BY <1>k, <2>1, FirstKept
    DEF Inv, TableInv, table, UniqueEmails, Active, Present
  <2> QED  BY <1>t, <2>2, <2>3, <2>4 DEF Inv
<1>15. CASE Tick \/ UNCHANGED vars
  BY <1>15, <1>k DEF Tick, vars, table, server
<1> QED
  BY <1>1, <1>2, <1>3, <1>4, <1>5, <1>6, <1>7, <1>8, <1>9, <1>10, <1>11,
     <1>12, <1>13, <1>14, <1>15, NextIsStep DEF Step

--------------------------------------------------------------------------------
(***************************************************************************)
(* The properties                                                          *)
(***************************************************************************)

(* The invariant is always true.                                           *)
LEMMA AlwaysInv == Spec => []Inv
  BY InitInv, NextInv, PTL DEF Spec

(* Nobody acts as a user without a login of that user in its life, or as   *)
(* a user who was inactive throughout the request.                         *)
THEOREM AccessCorrect == Spec => []ActsForItsUser
<1>1. Inv => ActsForItsUser
  BY DEF Inv, Good, ActsForItsUser
<1> QED  BY <1>1, AlwaysInv, PTL

(* A password is reset for the account whose owner asked for the mail, or  *)
(* the email was given up since.                                           *)
THEOREM ResetCorrect == Spec => []ResetReachesItsUser
<1>1. Inv => ResetReachesItsUser
  BY DEF Inv, Good, ResetReachesItsUser
<1> QED  BY <1>1, AlwaysInv, PTL

(* A token that is refused was too old or made with another key; an        *)
(* account that is not found was deleted or gave its email up.             *)
THEOREM TokensCorrect == Spec => []TokensAreHonoured
<1>1. Inv => TokensAreHonoured
  BY DEF Inv, Good, TokensAreHonoured
<1> QED  BY <1>1, AlwaysInv, PTL

(* Start-ups make the first superuser once and leave one, however many of  *)
(* them overlap.                                                           *)
THEOREM FirstSuperuserCorrect == Spec => []FirstSuperuserOnce
<1>1. ASSUME Inv PROVE FirstSuperuserOnce
  <2> SUFFICES ASSUME FirstEmail \notin moved PROVE Cardinality(firsts) <= 1
    BY <1>1 DEF FirstSuperuserOnce, Inv, TableInv
  <2>1. \A i, j \in firsts : i = j
    BY <1>1 DEF Inv, TableInv, TakenBy, UniqueEmails, Present
  <2>2. CASE firsts = {}
    BY <2>2, FS_EmptySet
  <2>3. CASE firsts # {}
    <3>1. PICK i : i \in firsts
      BY <2>3
    <3>2. firsts = {i}
      BY <2>1, <3>1
    <3> QED  BY <3>2, FS_Singleton
  <2> QED  BY <2>2, <2>3
<1> QED  BY <1>1, AlwaysInv, PTL

--------------------------------------------------------------------------------
(***************************************************************************)
(* The table is an AccountTable                                            *)
(***************************************************************************)

(* A step that leaves the table alone, or stores a row as AccountTable     *)
(* has it: in place of one that is there, or under a new id.               *)
LEMMA TableStep == Inv /\ Inv' /\ [Next]_vars => [Table!Next]_rows
<1> SUFFICES ASSUME Inv, Inv', [Next]_vars, rows' # rows PROVE Table!Next
  OBVIOUS
<1>0. /\ TypeOK /\ Control /\ Row = Table!Account
      /\ Table!UniqueEmails(rows')
  BY DEF Inv, Typed, TableInv, UniqueEmails, Row, Table!Account,
     Table!UniqueEmails
<1>c. ASSUME NEW i \in Ids, NEW x \in Row, x.active,
             rows' = [rows EXCEPT ![i] = x], rows[i] = NoUser
      PROVE  Table!Next
  BY <1>0, <1>c DEF Table!Next, Table!Create, Table!Put
<1>u. ASSUME NEW i \in Ids, NEW x \in Row,
             rows' = [rows EXCEPT ![i] = x], Present(i)
      PROVE  Table!Next
  BY <1>0, <1>u DEF Table!Next, Table!Update, Table!Put, Table!Present, Present
<1>1. ASSUME NEW r \in Requests, Write(r) PROVE Table!Next
  <2> DEFINE x == [rows[user[r]] EXCEPT !.pw = call[r].new]
  <2>1. /\ user[r] \in Ids /\ call[r] \in Calls /\ call[r].kind = "reset"
        /\ Present(user[r]) /\ rows' = [rows EXCEPT ![user[r]] = x]
    BY <1>0, <1>1 DEF Control, Write, Store
  <2>2. x \in Row
    BY <2>1, CallKinds DEF Present, Row
  <2> QED  BY <1>u, <2>1, <2>2
<1>2. ASSUME NEW s \in StartUps, Insert(s) PROVE Table!Next
  <2>1. PICK i \in Ids : rows[i] = NoUser /\ rows' = [rows EXCEPT ![i] = First]
    BY <1>2 DEF Insert, Store
  <2>2. First \in Row /\ First.active
    BY ConstantsAssumption DEF First, Row
  <2> QED  BY <1>c, <2>1, <2>2
<1>3. ASSUME NEW i \in Ids, NEW x \in Row, Update(i, x) PROVE Table!Next
  BY <1>3, <1>u DEF Update, Changes, Store
<1>4. ASSUME NEW i \in Ids, Delete(i) PROVE Table!Next
  BY <1>0, <1>4 DEF Delete, Changes, Store, Present, Table!Next, Table!Delete,
     Table!Put, Table!Present
<1>5. ASSUME NEW i \in Ids, NEW e \in Emails, NEW p \in Passwords,
             Create(i, e, p)
      PROVE  Table!Next
  <2>1. [email |-> e, active |-> TRUE, pw |-> p] \in Row
    BY DEF Row
  <2> QED  BY <1>5, <1>c, <2>1 DEF Create, Changes, Store
<1>6. Next
  BY DEF vars
<1> QED
  BY <1>1, <1>2, <1>3, <1>4, <1>5, <1>6, NextIsStep
  DEF Step, Begin, LookLogin, LookRecover, Issue, LookAccess, LookReset,
      Finish, LookInit, Restart, Tick, table

(* Whatever the requests, start-ups and other endpoints do, and whichever  *)
(* processes restart, the user table changes as AccountTable says.         *)
THEOREM RefinesAccountTable == Spec => ImplementsAccountTable
<1>1. Init => Table!Init
  BY DEF Init, Table!Init
<1> QED
  BY <1>1, AlwaysInv, TableStep, PTL
  DEF Spec, ImplementsAccountTable, Table!Spec
================================================================================
