--------------------------- MODULE AuditTrail_proofs ---------------------------
(***************************************************************************)
(* Proofs about AuditTrail, for any users, requests, pages and sizes.      *)
(***************************************************************************)
EXTENDS AuditTrail, FiniteSetTheorems, TLAPS

(* Every action, one disjunct each.                                        *)
Step ==
    \/ \E a \in Actions : Begin(a)
    \/ \E a \in Actions : TakeEffect(a)
    \/ \E a \in Actions : Succeed(a)
    \/ \E a \in Actions : Fail(a)
    \/ \E a \in Actions : Enter(a)
    \/ \E a \in Actions : Insert(a)
    \/ \E dead \in SUBSET InFlight : WorkerDies(dead)
    \/ \E u \in Users : DeleteUser(u)
    \/ \E h \in Readers : BeginHistory(h)
    \/ \E h \in Readers : Count(h)
    \/ \E h \in Readers : Page(h)

(* Next is the disjunction of its actions.                                 *)
LEMMA NextIsStep == Next => Step
  BY DEF Next, Step, ActionStep, ReaderStep

--------------------------------------------------------------------------------
(***************************************************************************)
(* Types.  Whatever was begun is known.                                    *)
(***************************************************************************)

(* A request or reader that began has its arguments.                       *)
Known ==
    /\ \A a \in Actions : step[a] # "idle" => act[a] \in Act
    /\ \A h \in Readers : state[h] # "idle" => ask[h] \in Ask

Typed == TypeOK /\ Known

(* The rows that match are rows, and finitely many.                        *)
LEMMA MatchesFinite ==
    ASSUME TypeOK, NEW x
    PROVE  /\ Matches(x) \subseteq Actions
           /\ IsFiniteSet(Matches(x))
           /\ Cardinality(Matches(x)) \in Nat
<1>1. Matches(x) \subseteq Actions
  BY DEF Matches, TypeOK
<1> QED  BY <1>1, ConstantsAssumption, FS_Subset, FS_CardinalityType

(* Well typed initially.                                                   *)
LEMMA InitTyped == Init => Typed
  BY ConstantsAssumption DEF Init, Typed, TypeOK, Known

(* Every step keeps the types.                                             *)
LEMMA NextTyped == Typed /\ [Next]_vars => Typed'
<1> SUFFICES ASSUME Typed, [Next]_vars PROVE Typed'
  OBVIOUS
<1>0. TypeOK /\ Known
  BY DEF Typed
<1>1. ASSUME NEW a \in Actions, Begin(a) PROVE Typed'
  BY <1>0, <1>1 DEF Begin, Goto, readVars, Typed, TypeOK, Known
<1>2. ASSUME NEW a \in Actions, TakeEffect(a) PROVE Typed'
  BY <1>0, <1>2 DEF TakeEffect, readVars, Typed, TypeOK, Known
<1>3. ASSUME NEW a \in Actions, Succeed(a) PROVE Typed'
  BY <1>0, <1>3 DEF Succeed, Goto, readVars, Typed, TypeOK, Known
<1>4. ASSUME NEW a \in Actions, Fail(a) PROVE Typed'
  BY <1>0, <1>4 DEF Fail, Goto, readVars, Typed, TypeOK, Known
<1>5. ASSUME NEW a \in Actions, Enter(a) PROVE Typed'
  BY <1>0, <1>5 DEF Enter, Goto, readVars, Typed, TypeOK, Known
<1>6. ASSUME NEW a \in Actions, Insert(a) PROVE Typed'
  BY <1>0, <1>6 DEF Insert, Goto, readVars, Typed, TypeOK, Known
<1>7. ASSUME NEW dead \in SUBSET InFlight, WorkerDies(dead) PROVE Typed'
  BY <1>0, <1>7 DEF WorkerDies, InFlight, readVars, Typed, TypeOK, Known
<1>8. ASSUME NEW u \in Users, DeleteUser(u) PROVE Typed'
  BY <1>0, <1>8 DEF DeleteUser, actVars, readVars, Typed, TypeOK, Known
<1>9. ASSUME NEW h \in Readers, BeginHistory(h) PROVE Typed'
  BY <1>0, <1>9 DEF BeginHistory, actVars, Typed, TypeOK, Known
<1>10. ASSUME NEW h \in Readers, Count(h) PROVE Typed'
  <2>1. Cardinality(Matches(ask[h])) \in Nat
    BY <1>0, MatchesFinite
  <2> QED  BY <1>0, <1>10, <2>1 DEF Count, actVars, Typed, TypeOK, Known
<1>11. ASSUME NEW h \in Readers, Page(h) PROVE Typed'
  <2>1. UNCHANGED <<present, actVars, table, ask, total, raced>>
    BY <1>11 DEF Page
  <2>2. \/ state' = [state EXCEPT ![h] = "failed"] /\ UNCHANGED shown
        \/ /\ state' = [state EXCEPT ![h] = "answered"]
           /\ \E rows \in SUBSET Actions : shown' = [shown EXCEPT ![h] = rows]
    BY <1>0, <1>11, MatchesFinite DEF Page
  <2>3. state[h] = "counted"
    BY <1>11 DEF Page
  <2> QED  BY <1>0, <2>1, <2>2, <2>3 DEF actVars, Typed, TypeOK, Known
<1>12. ASSUME UNCHANGED vars PROVE Typed'
  BY <1>0, <1>12 DEF vars, Typed, TypeOK, Known
<1> QED
  BY <1>1, <1>2, <1>3, <1>4, <1>5, <1>6, <1>7, <1>8, <1>9, <1>10, <1>11,
     <1>12, NextIsStep DEF Step

(* The trail and its readers are well typed.                               *)
THEOREM TypeCorrect == Spec => []TypeOK
<1>1. Typed => TypeOK
  BY DEF Typed
<1> QED  BY <1>1, InitTyped, NextTyped, PTL DEF Spec

--------------------------------------------------------------------------------
(***************************************************************************)
(* The trail.  An action's step says which parts of the trail it may be in *)
(* and why it is missing from one it should be in.                         *)
(***************************************************************************)

(* A request that was answered took effect, unless nothing looks at that.  *)
AnsweredHappened ==
    \A a \in Actions : step[a] \in {"answered", "entered"} =>
        a \in happened \/ act[a].kind = "set_zonemaster"

(* A request whose task is past the file is in it, or could not be.        *)
EnteredIsEntered ==
    \A a \in Actions : step[a] = "entered" =>
        a \in entries \cup lost /\ act[a].address # "many"

(* The trail holds requests that were begun; a row ends its request.       *)
TrailBegan ==
    /\ \A a \in entries \cup table : step[a] # "idle"
    /\ \A a \in table : step[a] = "ended"

Inv ==
    /\ Typed /\ AnsweredHappened /\ EnteredIsEntered /\ TrailBegan
    /\ LoggedHappened /\ RowsAreEntered /\ UnloggedNeedsACause
    /\ HistoryShowsOwnLinks

(* The trail is correct initially.                                         *)
LEMMA InitInv == Init => Inv
  BY InitTyped
  DEF Init, Inv, AnsweredHappened, EnteredIsEntered, TrailBegan,
      LoggedHappened, RowsAreEntered, UnloggedNeedsACause, HistoryShowsOwnLinks

(* Every step keeps the trail correct.                                     *)
LEMMA NextInv == Inv /\ [Next]_vars => Inv'
<1> SUFFICES ASSUME Inv, [Next]_vars PROVE Inv'
  OBVIOUS
<1> USE DEF Inv, AnsweredHappened, EnteredIsEntered, TrailBegan,
            LoggedHappened, RowsAreEntered, UnloggedNeedsACause,
            HistoryShowsOwnLinks
<1>0. Typed' /\ TypeOK /\ Known
  BY NextTyped DEF Typed
<1>1. ASSUME NEW a \in Actions, Begin(a) PROVE Inv'
  BY <1>0, <1>1 DEF Begin, Goto, readVars, TypeOK
<1>2. ASSUME NEW a \in Actions, TakeEffect(a) PROVE Inv'
  BY <1>0, <1>2 DEF TakeEffect, readVars, TypeOK
<1>3. ASSUME NEW a \in Actions, Succeed(a) PROVE Inv'
  BY <1>0, <1>3 DEF Succeed, Goto, readVars, TypeOK
<1>4. ASSUME NEW a \in Actions, Fail(a) PROVE Inv'
  BY <1>0, <1>4 DEF Fail, Goto, readVars, TypeOK
<1>5. ASSUME NEW a \in Actions, Enter(a) PROVE Inv'
  BY <1>0, <1>5 DEF Enter, Goto, readVars, TypeOK
<1>6. ASSUME NEW a \in Actions, Insert(a) PROVE Inv'
  <2>1. act[a] \in Act /\ act[a].address \in {"short", "long"}
    BY <1>0, <1>6 DEF Insert, Known, Act, Addresses
  <2> QED  BY <1>0, <1>6, <2>1 DEF Insert, Goto, readVars, TypeOK
<1>7. ASSUME NEW dead \in SUBSET InFlight, WorkerDies(dead) PROVE Inv'
  BY <1>0, <1>7 DEF WorkerDies, InFlight, readVars, TypeOK
<1>8. ASSUME NEW u \in Users, DeleteUser(u) PROVE Inv'
  BY <1>0, <1>8 DEF DeleteUser, actVars, readVars, TypeOK
<1>9. ASSUME NEW h \in Readers, BeginHistory(h) PROVE Inv'
  BY <1>0, <1>9 DEF BeginHistory, actVars, TypeOK
<1>10. ASSUME NEW h \in Readers, Count(h) PROVE Inv'
  BY <1>0, <1>10 DEF Count, actVars, TypeOK
<1>11. ASSUME NEW h \in Readers, Page(h) PROVE Inv'
  <2>1. UNCHANGED <<present, actVars, table, ask, total, raced>>
    BY <1>11 DEF Page
  <2>2. CASE state' = [state EXCEPT ![h] = "failed"] /\ UNCHANGED shown
    BY <1>0, <2>1, <2>2 DEF actVars, TypeOK
  <2>3. ASSUME NEW rows \in SUBSET Matches(ask[h]), Readable(rows),
               state' = [state EXCEPT ![h] = "answered"],
               shown' = [shown EXCEPT ![h] = rows]
        PROVE  Inv'
    <3>1. \A a \in rows : /\ a \in table
                          /\ act[a].user = ask[h].user
                          /\ act[a].kind = "login_link"
      BY <2>3 DEF Matches, Readable
    <3> QED  BY <1>0, <2>1, <2>3, <3>1 DEF actVars, TypeOK
  <2> QED  BY <1>11, <2>2, <2>3 DEF Page
<1>12. ASSUME UNCHANGED vars PROVE Inv'
  BY <1>0, <1>12 DEF vars
<1> QED
  BY <1>1, <1>2, <1>3, <1>4, <1>5, <1>6, <1>7, <1>8, <1>9, <1>10, <1>11,
     <1>12, NextIsStep DEF Step

(* What is logged happened, file before table; what was answered is logged *)
(* or there is a cause; a history shows its user's own login links.        *)
THEOREM TrailCorrect ==
    Spec => [](/\ LoggedHappened /\ RowsAreEntered /\ UnloggedNeedsACause
               /\ HistoryShowsOwnLinks)
<1>1. Inv => /\ LoggedHappened /\ RowsAreEntered /\ UnloggedNeedsACause
             /\ HistoryShowsOwnLinks
  BY DEF Inv
<1> QED  BY <1>1, InitInv, NextInv, PTL DEF Spec

(* Nothing is logged that did not happen.                                  *)
THEOREM LoggedCorrect == Spec => []LoggedHappened
  BY TrailCorrect, PTL

(* What is in the table is in the file.                                    *)
THEOREM RowsCorrect == Spec => []RowsAreEntered
  BY TrailCorrect, PTL

(* What was answered and has no row has a cause.                           *)
THEOREM GapsExplained == Spec => []UnloggedNeedsACause
  BY TrailCorrect, PTL

(* A user's history shows its own login links and nothing else.            *)
THEOREM HistoryCorrect == Spec => []HistoryShowsOwnLinks
  BY TrailCorrect, PTL

--------------------------------------------------------------------------------
(***************************************************************************)
(* The pages.  Between its queries a reader's total can only fall behind   *)
(* the number of rows that match.                                          *)
(***************************************************************************)

(* The number of pages of n rows, s to a page: a page begins before the    *)
(* last row exactly if it is one of them, and is full if one follows it.   *)
LEMMA PageArithmetic ==
    ASSUME NEW n \in Nat, NEW s \in Nat \ {0}, NEW p \in Int
    PROVE  /\ p <= (n + s - 1) \div s <=> (p - 1) * s < n
           /\ p < (n + s - 1) \div s => n - (p - 1) * s > s
<1> DEFINE q == (n + s - 1) \div s
<1>1. q \in Int /\ q * s <= n + s - 1 /\ n + s - 1 < q * s + s
  OBVIOUS
<1> HIDE DEF q
<1>2. CASE p <= q
  <2>1. p * s <= q * s
    BY <1>1, <1>2
  <2>2. p < q => (p + 1) * s <= q * s
    BY <1>1
  <2>3. (p - 1) * s = p * s - s /\ (p + 1) * s = p * s + s
    OBVIOUS
  <2> QED  BY <1>1, <1>2, <2>1, <2>2, <2>3 DEF q
<1>3. CASE p >= q + 1
  <2>1. (p - 1) * s >= q * s
    BY <1>1, <1>3
  <2> QED  BY <1>1, <1>3, <2>1 DEF q
<1> QED  BY <1>1, <1>2, <1>3

(* The total of a reader between its queries.                              *)
TotalIsFresh ==
    \A h \in Readers : state[h] = "counted" =>
        /\ total[h] <= Cardinality(Matches(ask[h]))
        /\ h \in raced \/ total[h] = Cardinality(Matches(ask[h]))

PageInv == Inv /\ TotalIsFresh /\ PagesMatchTheirNumber

(* What the page of a reader holds.                                        *)
LEMMA PageRows ==
    ASSUME PageInv, NEW h \in Readers, Page(h),
           state' = [state EXCEPT ![h] = "answered"]
    PROVE  /\ ask[h].page <= PageCount(h) => shown'[h] # {}
           /\ ask[h].page < PageCount(h) =>
                 Cardinality(shown'[h]) = ask[h].size
           /\ ask[h].page > PageCount(h) => shown'[h] = {} \/ h \in raced
<1> DEFINE n == total[h]
           m == Cardinality(Matches(ask[h]))
           p == ask[h].page
           s == ask[h].size
<1>1. state[h] = "counted" /\ TypeOK /\ ask[h] \in Ask
  BY DEF Page, PageInv, Inv, Typed, Known
<1>2. n \in Nat /\ p \in Int /\ s \in Nat \ {0}
  <2>1. n \in Nat
    BY <1>1 DEF TypeOK
  <2>2. p \in Pages /\ s \in Sizes
    BY <1>1 DEF Ask
  <2>3. s \in 1 .. 100 /\ p \in Int
    BY <2>2, ConstantsAssumption
  <2> HIDE DEF n, p, s
  <2> QED  BY <2>1, <2>3
<1>3. /\ m \in Nat /\ n <= m /\ (h \in raced \/ n = m)
      /\ IsFiniteSet(Matches(ask[h]))
  BY <1>1, MatchesFinite DEF PageInv, TotalIsFresh
<1>4. PICK rows \in SUBSET Matches(ask[h]) :
         /\ shown' = [shown EXCEPT ![h] = rows]
         /\ Cardinality(rows) = IF m - (p - 1) * s < 0 THEN 0
                                ELSE Lesser(m - (p - 1) * s, s)
  <2>1. state'[h] = "answered"
    BY <1>1 DEF TypeOK
  <2>2. state' # [state EXCEPT ![h] = "failed"]
    BY <1>1, <2>1 DEF TypeOK
  <2> QED  BY <2>2 DEF Page, Offset
<1>5. shown'[h] = rows
  BY <1>1, <1>4 DEF TypeOK
<1>6. IsFiniteSet(rows)
  BY <1>3, FS_Subset
<1>7. rows # {} <=> Cardinality(rows) # 0
  BY <1>6, FS_EmptySet
<1>8. /\ p <= (n + s - 1) \div s <=> (p - 1) * s < n
      /\ p < (n + s - 1) \div s => n - (p - 1) * s > s
  BY <1>2, PageArithmetic
<1>9. (p - 1) * s \in Int
  BY <1>2
<1>p. (n + s - 1) \div s \in Int
  BY <1>2
<1> HIDE DEF n, m, p, s
<1>10. rows # {} <=> (p - 1) * s < m
  BY <1>2, <1>3, <1>4, <1>7, <1>9 DEF Lesser
<1>11. m - (p - 1) * s > s => Cardinality(rows) = s
  BY <1>2, <1>3, <1>4, <1>9 DEF Lesser
<1>12. p <= (n + s - 1) \div s => rows # {}
  BY <1>2, <1>3, <1>8, <1>9, <1>10
<1>13. p < (n + s - 1) \div s => Cardinality(rows) = s
  BY <1>2, <1>3, <1>8, <1>9, <1>11
<1>14. p > (n + s - 1) \div s => rows = {} \/ h \in raced
  BY <1>2, <1>3, <1>p, <1>8, <1>9, <1>10
<1> QED  BY <1>5, <1>12, <1>13, <1>14 DEF PageCount, n, p, s

(* The pages are right initially.                                          *)
LEMMA InitPages == Init => PageInv
  BY InitInv DEF Init, PageInv, TotalIsFresh, PagesMatchTheirNumber

(* Every step keeps the pages right.                                       *)
LEMMA NextPages == PageInv /\ [Next]_vars => PageInv'
<1> SUFFICES ASSUME PageInv, [Next]_vars
             PROVE  (TotalIsFresh /\ PagesMatchTheirNumber)'
  BY NextInv DEF PageInv
<1> USE DEF TotalIsFresh, PagesMatchTheirNumber, PageCount
<1>0. TypeOK /\ Known /\ TrailBegan /\ TotalIsFresh /\ PagesMatchTheirNumber
  BY DEF PageInv, Inv, Typed
<1> DEFINE P == (TotalIsFresh /\ PagesMatchTheirNumber)'
<1>1. ASSUME NEW a \in Actions, Begin(a) PROVE P
  <2>1. a \notin table
    BY <1>0, <1>1 DEF Begin, TrailBegan
  <2>2. \A x : Matches(x)' = Matches(x)
    BY <1>0, <1>1, <2>1 DEF Begin, Matches, TypeOK
  <2> QED  BY <1>0, <1>1, <2>2 DEF Begin, readVars
<1>2. ASSUME NEW a \in Actions, TakeEffect(a) PROVE P
  BY <1>0, <1>2 DEF TakeEffect, readVars, Matches
<1>3. ASSUME NEW a \in Actions, Succeed(a) PROVE P
  BY <1>0, <1>3 DEF Succeed, readVars, Matches
<1>4. ASSUME NEW a \in Actions, Fail(a) PROVE P
  BY <1>0, <1>4 DEF Fail, readVars, Matches
<1>5. ASSUME NEW a \in Actions, Enter(a) PROVE P
  BY <1>0, <1>5 DEF Enter, readVars, Matches
<1>6. ASSUME NEW a \in Actions, Insert(a) PROVE P
  <2>1. CASE UNCHANGED <<table, raced>>
    BY <1>0, <1>6, <2>1 DEF Insert, readVars, Matches
  <2>2. CASE /\ raced' = raced \cup {h \in Readers : state[h] = "counted"}
             /\ table' = table \cup {a}
    <3>1. UNCHANGED <<act, ask, state, total, shown>>
      BY <1>6 DEF Insert, readVars
    <3>2. TypeOK'
      BY NextInv DEF PageInv, Inv, Typed
    <3>3. ASSUME NEW h \in Readers, state'[h] = "counted"
          PROVE  /\ total'[h] <= Cardinality(Matches(ask[h]))'
                 /\ h \in raced'
      <4>1. Matches(ask[h]) \subseteq Matches(ask[h])'
        BY <2>2, <3>1 DEF Matches
      <4>2. IsFiniteSet(Matches(ask[h]))' /\ Cardinality(Matches(ask[h])) \in Nat
            /\ Cardinality(Matches(ask[h]))' \in Nat
        <5>1. (Matches(ask[h]) \subseteq Actions)'
          BY <3>2 DEF Matches, TypeOK
        <5>2. IsFiniteSet(Matches(ask[h]))'
          BY <5>1, ConstantsAssumption, FS_Subset
        <5>3. Cardinality(Matches(ask[h]))' \in Nat
          BY <5>2, FS_CardinalityType
        <5> QED  BY <1>0, <5>2, <5>3, MatchesFinite
      <4>3. Cardinality(Matches(ask[h])) <= Cardinality(Matches(ask[h]))'
        BY <4>1, <4>2, FS_Subset
      <4>4. total[h] \in Nat /\ total[h] <= Cardinality(Matches(ask[h]))
        BY <1>0, <3>1, <3>3 DEF TypeOK
      <4> QED  BY <2>2, <3>1, <3>3, <4>2, <4>3, <4>4
    <3>4. TotalIsFresh'
      BY <3>3
    <3>5. PagesMatchTheirNumber'
      BY <1>0, <2>2, <3>1
    <3> QED  BY <3>4, <3>5
  <2> QED  BY <1>6, <2>1, <2>2 DEF Insert
<1>7. ASSUME NEW dead \in SUBSET InFlight, WorkerDies(dead) PROVE P
  BY <1>0, <1>7 DEF WorkerDies, readVars, Matches
<1>8. ASSUME NEW u \in Users, DeleteUser(u) PROVE P
  BY <1>0, <1>8 DEF DeleteUser, actVars, readVars, Matches
<1>9. ASSUME NEW h \in Readers, BeginHistory(h) PROVE P
  BY <1>0, <1>9 DEF BeginHistory, actVars, Matches, TypeOK
<1>10. ASSUME NEW h \in Readers, Count(h) PROVE P
  <2>1. /\ UNCHANGED <<table, act, ask, shown, raced>>
        /\ total' = [total EXCEPT ![h] = Cardinality(Matches(ask[h]))]
        /\ \/ state' = [state EXCEPT ![h] = "failed"]
           \/ state' = [state EXCEPT ![h] = "counted"]
    BY <1>10 DEF Count, actVars
  <2>2. \A x : Matches(x)' = Matches(x)
    BY <2>1 DEF Matches
  <2>3. TotalIsFresh'
    <3>1. Cardinality(Matches(ask[h])) \in Nat
      BY <1>0, MatchesFinite
    <3> QED  BY <1>0, <2>1, <2>2, <3>1 DEF TypeOK
  <2>4. PagesMatchTheirNumber'
    BY <1>0, <2>1 DEF TypeOK
  <2> QED  BY <2>3, <2>4
<1>11. ASSUME NEW h \in Readers, Page(h) PROVE P
  <2>1. UNCHANGED <<table, act, ask, total, raced>>
    BY <1>11 DEF Page, actVars
  <2>2. \/ state' = [state EXCEPT ![h] = "failed"] /\ UNCHANGED shown
        \/ /\ state' = [state EXCEPT ![h] = "answered"]
           /\ \E rows : shown' = [shown EXCEPT ![h] = rows]
    BY <1>11 DEF Page
  <2>3. state' = [state EXCEPT ![h] = "answered"] =>
           /\ ask[h].page <= PageCount(h) => shown'[h] # {}
           /\ ask[h].page < PageCount(h) =>
                 Cardinality(shown'[h]) = ask[h].size
           /\ ask[h].page > PageCount(h) => shown'[h] = {} \/ h \in raced
    BY <1>11, PageRows
  <2> QED  BY <1>0, <2>1, <2>2, <2>3 DEF Matches, TypeOK
<1>12. ASSUME UNCHANGED vars PROVE P
  BY <1>0, <1>12 DEF vars, Matches
<1> QED
  BY <1>1, <1>2, <1>3, <1>4, <1>5, <1>6, <1>7, <1>8, <1>9, <1>10, <1>11,
     <1>12, NextIsStep DEF Step, PageInv

(* total_pages says which pages have rows and which are full, and no row   *)
(* is beyond it unless it came between the two queries.                    *)
THEOREM PagesCorrect == Spec => []PagesMatchTheirNumber
<1>1. PageInv => PagesMatchTheirNumber
  BY DEF PageInv
<1> QED  BY <1>1, InitPages, NextPages, PTL DEF Spec
================================================================================
