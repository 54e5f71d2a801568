------------------------- MODULE ExecutorRequest_proofs -------------------------
(***************************************************************************)
(* Proofs about ExecutorRequest, for any number of servers and permits and *)
(* any limits with SizeAssumption.                                         *)
(***************************************************************************)
EXTENDS ExecutorRequest, AdaptiveTimeout, FiniteSetTheorems, TLAPS

(* Every action, one disjunct each.                                        *)
Step ==
    \/ \E i \in Asked : Begin(i)
    \/ \E i \in Asked : Connected(i)
    \/ \E i \in Asked : ConnectFails(i)
    \/ \E i \in Asked : RunReplies(i)
    \/ \E i \in Asked : RunFails(i)
    \/ Tick
    \/ CannotAnswer
    \/ AnswerInfo
    \/ AnswerLink
    \/ AnswerMail

(* Next is the disjunction of its actions.                                 *)
LEMMA NextIsStep == Next => Step
  BY DEF Next, Step, WorkerStep, ConnectEnds, RunEnds, AnswerStep

(* The operation goes to servers of the list.                              *)
LEMMA AskedAreServers == Asked \subseteq Servers
  BY ConstantsAssumption DEF Asked, Servers

--------------------------------------------------------------------------------
(***************************************************************************)
(* Types                                                                   *)
(***************************************************************************)

(* Whatever a worker may end with is a result.                             *)
LEMMA ResultsTyped ==
    /\ Faults \subseteq Results /\ ConnectFaults \subseteq Faults
    /\ Without("none") \in Results
    /\ \A i : \A s \in {"value", "words"} :
           Reply([says |-> Truth(i), spelled |-> s], TruePayload(i)) \in Results
<1>1. NoText \in Texts
  BY DEF NoText, Texts, Statuses
<1>2. \A k \in {"none", "raised", "empty", "notjson"} : Without(k) \in Results
  BY <1>1 DEF Without, Results, Payloads
<1>3. \A t \in Texts, p \in Payloads : Reply(t, p) \in Results
  BY DEF Reply, Results
<1>4. ConnectFaults \subseteq Results /\ ConnectFaults \subseteq Faults
  BY <1>2 DEF ConnectFaults, Faults
<1>5. /\ [says |-> "NOT_FOUND", spelled |-> "otherwise"] \in Texts
      /\ [says |-> "OK", spelled |-> "value"] \in Texts
      /\ \A i : \A s \in {"value", "words"} :
            [says |-> Truth(i), spelled |-> s] \in Texts
  BY DEF Texts, Statuses, Truth
<1>6. \A i : TruePayload(i) \in Payloads
  BY DEF TruePayload, Payloads
<1>7. "none" \in Payloads /\ "misfit" \in Payloads
  BY DEF Payloads
<1>8. Faults \subseteq Results
  BY <1>2, <1>3, <1>4, <1>5, <1>7 DEF Faults
<1> QED  BY <1>2, <1>3, <1>4, <1>5, <1>6, <1>8

(* Well typed initially.                                                   *)
LEMMA InitTyped == Init => TypeOK
  BY ResultsTyped DEF Init, TypeOK

(* Every step keeps the types.                                             *)
LEMMA NextTyped == TypeOK /\ [Next]_vars => TypeOK'
<1> SUFFICES ASSUME TypeOK, [Next]_vars PROVE TypeOK'
  OBVIOUS
<1> USE AskedAreServers DEF TypeOK, callVars
<1>1. ASSUME NEW i \in Asked, Begin(i) PROVE TypeOK'
  BY <1>1 DEF Begin
<1>2. ASSUME NEW i \in Asked, Connected(i) PROVE TypeOK'
  BY <1>2 DEF Connected
<1>3. ASSUME NEW i \in Asked, ConnectFails(i) PROVE TypeOK'
  BY <1>3, ResultsTyped DEF ConnectFails, End
<1>4. ASSUME NEW i \in Asked, RunReplies(i) PROVE TypeOK'
  <2>1. PICK s \in {"value", "words"} :
            End(i, Reply([says |-> Truth(i), spelled |-> s], TruePayload(i)))
    BY <1>4 DEF RunReplies
  <2>2. Reply([says |-> Truth(i), spelled |-> s], TruePayload(i)) \in Results
    BY ResultsTyped
  <2>3. \A r \in Results : End(i, r) /\ UNCHANGED faulty => TypeOK'
    BY DEF End
  <2> QED  BY <1>4, <2>1, <2>2, <2>3 DEF RunReplies
<1>5. ASSUME NEW i \in Asked, RunFails(i) PROVE TypeOK'
  BY <1>5, ResultsTyped DEF RunFails, End
<1>6. CASE Tick
  BY <1>6 DEF Tick
<1>7. CASE CannotAnswer
  BY <1>7 DEF CannotAnswer, Answer
<1>8. CASE AnswerInfo
  BY <1>8 DEF AnswerInfo, Answer, Fitting, Succeeded
<1>9. CASE AnswerLink
  <2>1. \E o \in {"found", "notfound", "failed"}, l \in {{}, {1}} : Answer(o, l)
    BY <1>9 DEF AnswerLink
  <2>2. 1 \in Servers
    BY ConstantsAssumption DEF Servers
  <2> QED  BY <2>1, <2>2 DEF Answer
<1>10. CASE AnswerMail
  <2>1. \E o \in {"found", "notfound", "failed"}, l \in {{}, {1}} : Answer(o, l)
    BY <1>10 DEF AnswerMail
  <2>2. 1 \in Servers
    BY ConstantsAssumption DEF Servers
  <2> QED  BY <2>1, <2>2 DEF Answer
<1>11. CASE UNCHANGED vars
  BY <1>11 DEF vars
<1> QED  BY NextIsStep, <1>1, <1>2, <1>3, <1>4, <1>5, <1>6, <1>7, <1>8, <1>9,
            <1>10, <1>11 DEF Step

(* The request is well-typed for any number of servers.                    *)
THEOREM TypeCorrect == Spec => []TypeOK
  BY InitTyped, NextTyped, PTL DEF Spec

--------------------------------------------------------------------------------
(***************************************************************************)
(* Freshness.  Servers are served in rounds of Permits; each round takes   *)
(* at most one connection timeout and one execution timeout, because a     *)
(* worker that waits for a permit waits for all of Permits others, of      *)
(* which one began a round earlier or before that.                         *)
(***************************************************************************)

Round == MaxConnect + MaxRun
LatestBegin(i) == ((i - 1) \div Permits) * Round

(* Quotients grow with the dividend, and by one with a divisor.            *)
LEMMA Quotients ==
    ASSUME NEW a \in Nat, NEW b \in Nat, NEW d \in Nat \ {0}
    PROVE  /\ a \div d \in Nat
           /\ a <= b => a \div d <= b \div d
           /\ a + d <= b => (a \div d) + 1 <= b \div d
<1> DEFINE q == a \div d
           r == b \div d
<1>1. /\ q \in Nat /\ q * d <= a /\ a < q * d + d
      /\ r \in Nat /\ r * d <= b /\ b < r * d + d
  OBVIOUS
<1> HIDE DEF q, r
<1>2. ASSUME a <= b, r < q PROVE FALSE
  <2>1. (r + 1) * d <= q * d
    BY <1>1, <1>2
  <2>2. (r + 1) * d = r * d + d
    BY <1>1
  <2> QED  BY <1>1, <1>2, <2>1, <2>2
<1>3. ASSUME a + d <= b, r < q + 1 PROVE FALSE
  <2>1. r * d <= q * d
    BY <1>1, <1>3
  <2> QED  BY <1>1, <1>3, <2>1
<1>4. q \in Nat /\ (a <= b => q <= r) /\ (a + d <= b => q + 1 <= r)
  BY <1>1, <1>2, <1>3
<1> QED  BY <1>4 DEF q, r

(* The last server of the list begins early enough.                        *)
LEMMA LatestIsFresh ==
    ASSUME NEW i \in Servers
    PROVE  LatestBegin(i) \in Nat /\ LatestBegin(i) + MaxConnect < Expiry
<1> DEFINE q == (i - 1) \div Permits
           z == (N - 1) \div Permits
<1>1. i - 1 \in Nat /\ N - 1 \in Nat /\ i - 1 <= N - 1 /\ Round \in Nat
  BY ConstantsAssumption DEF Servers, Round
<1>2. q \in Nat /\ z \in Nat /\ q <= z
  BY <1>1, ConstantsAssumption, Quotients
<1>3. z * Round + MaxConnect < Expiry
  BY SizeAssumption DEF Round
<1> HIDE DEF q, z
<1>4. q * Round \in Nat /\ z * Round \in Nat /\ q * Round <= z * Round
  BY <1>1, <1>2
<1>5. LatestBegin(i) = q * Round
  BY DEF LatestBegin, q
<1> QED  BY <1>3, <1>4, <1>5, ConstantsAssumption

(* Server j is a round or more ahead of server i.                          *)
LEMMA RoundAhead ==
    ASSUME NEW i \in Servers, NEW j \in Servers, j + Permits <= i
    PROVE  LatestBegin(j) + Round <= LatestBegin(i)
<1> DEFINE q == (j - 1) \div Permits
           z == (i - 1) \div Permits
<1>1. i - 1 \in Nat /\ j - 1 \in Nat /\ (j - 1) + Permits <= i - 1
      /\ Round \in Nat /\ Permits \in Nat \ {0}
  BY ConstantsAssumption DEF Servers, Round
<1>2. q \in Nat /\ z \in Nat /\ q + 1 <= z
  BY <1>1, Quotients
<1>3. LatestBegin(j) = q * Round /\ LatestBegin(i) = z * Round
  BY DEF LatestBegin, q, z
<1> HIDE DEF q, z
<1>4. (q + 1) * Round <= z * Round /\ (q + 1) * Round = q * Round + Round
  BY <1>1, <1>2
<1> QED  BY <1>1, <1>2, <1>3, <1>4

(* All permits taken by servers before i: one of them is a round ahead.    *)
LEMMA OneIsAhead ==
    ASSUME NEW i \in Servers, NEW S \in SUBSET (1..(i - 1)),
           Cardinality(S) >= Permits
    PROVE  \E j \in S : j + Permits <= i
<1> SUFFICES ASSUME \A j \in S : j + Permits > i PROVE FALSE
  BY ConstantsAssumption DEF Servers
<1> DEFINE low == i - Permits + 1
<1>1. i \in Int /\ Permits \in Nat \ {0} /\ low \in Int /\ i - 1 \in Int
  BY ConstantsAssumption DEF Servers
<1>2. S \subseteq low..(i - 1)
  BY <1>1
<1>3. IsFiniteSet(low..(i - 1))
      /\ Cardinality(low..(i - 1)) =
            (IF low > i - 1 THEN 0 ELSE (i - 1) - low + 1)
  BY <1>1, FS_Interval
<1>4. Cardinality(S) <= Cardinality(low..(i - 1)) /\ IsFiniteSet(S)
  BY <1>2, <1>3, FS_Subset
<1>5. Cardinality(S) \in Nat
  BY <1>4, FS_CardinalityType
<1>6. Cardinality(low..(i - 1)) < Permits
  BY <1>1, <1>3
<1> QED  BY <1>1, <1>3, <1>4, <1>5, <1>6

(***************************************************************************)
(* The clock.                                                              *)
(***************************************************************************)

(* Workers begin in the order of the list.                                 *)
InOrder ==
    \A i, j \in Asked : phase[i] = "queued" /\ phase[j] # "queued" => j < i

(* Nobody begins, sends or ends late.                                      *)
OnTime(i) ==
    /\ phase[i] = "queued" => now <= LatestBegin(i)
    /\ phase[i] # "queued" => began[i] <= LatestBegin(i)
    /\ phase[i] = "connecting" => now <= began[i] + MaxConnect
    /\ phase[i] = "running" =>
           sentAt[i] <= began[i] + MaxConnect /\ now <= sentAt[i] + MaxRun

SentInTime(i) == sentAt[i] <= LatestBegin(i) + MaxConnect

TimeInv ==
    /\ TypeOK /\ InOrder
    /\ \A i \in Asked : OnTime(i) /\ SentInTime(i)

(* What every step needs of the numbers.                                   *)
LEMMA Numbers ==
    ASSUME TypeOK, NEW i \in Asked
    PROVE  /\ i \in Servers /\ LatestBegin(i) \in Nat
           /\ now \in Nat /\ began[i] \in Nat /\ sentAt[i] \in Nat
           /\ MaxConnect \in Nat /\ MaxRun \in Nat
           /\ phase[i] \in {"queued", "connecting", "running", "done"}
  BY AskedAreServers, LatestIsFresh, ConstantsAssumption DEF TypeOK

(* On time initially.                                                      *)
LEMMA InitTime == Init => TimeInv
<1> SUFFICES ASSUME Init PROVE TimeInv
  OBVIOUS
<1>1. TypeOK /\ InOrder
  BY InitTyped, AskedAreServers DEF Init, InOrder
<1>2. ASSUME NEW i \in Asked PROVE OnTime(i) /\ SentInTime(i)
  BY <1>1, Numbers, AskedAreServers DEF Init, OnTime, SentInTime
<1> QED  BY <1>1, <1>2 DEF TimeInv

(* When time passes, a server that still waits for a permit has time left: *)
(* all permits are taken by servers before it, one of them a round ahead,  *)
(* whose limit has not come.                                               *)
LEMMA TickInTime ==
    ASSUME TimeInv, Tick, NEW i \in Asked, phase[i] = "queued"
    PROVE  now + 1 <= LatestBegin(i)
<1>1. TypeOK /\ InOrder
  BY DEF TimeInv
<1>2. Cardinality(Holders) >= Permits
  <2>1. IsFiniteSet(Holders)
    <3>1. IsFiniteSet(Servers)
      BY ConstantsAssumption, FS_Interval DEF Servers
    <3>2. Holders \subseteq Servers
      BY AskedAreServers DEF Holders
    <3> QED  BY <3>1, <3>2, FS_Subset
  <2>2. Cardinality(Holders) \in Nat
    BY <2>1, FS_CardinalityType
  <2> QED  BY <2>2, ConstantsAssumption DEF Tick, PermitFree
<1>3. Holders \in SUBSET (1..(i - 1))
  <2>1. ASSUME NEW j \in Holders PROVE j \in 1..(i - 1)
    <3>1. j \in Asked /\ phase[j] # "queued"
      BY DEF Holders, Waiting
    <3>2. j < i
      BY <1>1, <3>1 DEF InOrder
    <3> QED  BY <3>1, <3>2, AskedAreServers, ConstantsAssumption DEF Servers
  <2> QED  BY <2>1
<1>4. i \in Servers
  BY AskedAreServers
<1>5. PICK j \in Holders : j + Permits <= i
  BY <1>2, <1>3, <1>4, OneIsAhead
<1>6. j \in Asked /\ Waiting(j)
  BY <1>5 DEF Holders
<1>7. LatestBegin(j) + Round <= LatestBegin(i)
  BY <1>4, <1>5, <1>6, AskedAreServers, RoundAhead
<1>8. OnTime(j) /\ ~ AtLimit(j)
  BY <1>6 DEF TimeInv, Tick
<1>9. now + 1 <= LatestBegin(j) + MaxConnect + MaxRun
  BY <1>1, <1>6, <1>8, Numbers DEF OnTime, AtLimit, Waiting
<1> QED  BY <1>1, <1>6, <1>7, <1>9, Numbers DEF Round

(* Every step keeps everybody on time.                                     *)
LEMMA NextTime == TimeInv /\ [Next]_vars => TimeInv'
<1> SUFFICES ASSUME TimeInv, [Next]_vars PROVE TimeInv'
  OBVIOUS
<1>0. TypeOK /\ TypeOK' /\ InOrder /\ \A j \in Asked : OnTime(j) /\ SentInTime(j)
  BY NextTyped DEF TimeInv
<1> SUFFICES ASSUME Asked' = Asked
             PROVE  InOrder' /\ \A j \in Asked : OnTime(j)' /\ SentInTime(j)'
  <2>1. op' = op
    BY NextIsStep DEF Step, Begin, Connected, ConnectFails, RunReplies,
       RunFails, End, Tick, CannotAnswer, AnswerInfo, AnswerLink, AnswerMail,
       Answer, callVars, vars
  <2> QED  BY <1>0, <2>1 DEF TimeInv, Asked
<1> DEFINE Q == InOrder' /\ \A j \in Asked : OnTime(j)' /\ SentInTime(j)'
<1> USE DEF OnTime, SentInTime
<1>n. \A j \in Asked :
        /\ j \in Servers /\ LatestBegin(j) \in Nat
        /\ now \in Nat /\ began[j] \in Nat /\ sentAt[j] \in Nat
        /\ MaxConnect \in Nat /\ MaxRun \in Nat
        /\ phase[j] \in {"queued", "connecting", "running", "done"}
  BY <1>0, Numbers
<1>l. \A j \in Asked : LatestBegin(j)' = LatestBegin(j)
  BY DEF LatestBegin, Round
<1>1. ASSUME NEW i \in Asked, Begin(i) PROVE Q
  <2>1. InOrder'
    BY <1>0, <1>1, <1>n DEF Begin, InOrder, TypeOK, Servers
  <2>2. ASSUME NEW j \in Asked PROVE OnTime(j)' /\ SentInTime(j)'
    BY <1>0, <1>1, <1>n, <1>l DEF Begin, TypeOK
  <2> QED  BY <2>1, <2>2
<1>2. ASSUME NEW i \in Asked, Connected(i) PROVE Q
  <2>1. InOrder'
    BY <1>0, <1>2, <1>n DEF Connected, InOrder, TypeOK
  <2>2. ASSUME NEW j \in Asked PROVE OnTime(j)' /\ SentInTime(j)'
    BY <1>0, <1>2, <1>n, <1>l DEF Connected, TypeOK
  <2> QED  BY <2>1, <2>2
<1>3. ASSUME NEW i \in Asked, NEW r, phase[i] # "queued", End(i, r) PROVE Q
  <2>1. InOrder'
    BY <1>0, <1>3, <1>n DEF End, InOrder, TypeOK
  <2>2. ASSUME NEW j \in Asked PROVE OnTime(j)' /\ SentInTime(j)'
    BY <1>0, <1>3, <1>n, <1>l DEF End, TypeOK
  <2> QED  BY <2>1, <2>2
<1>4. CASE Tick
  <2>1. InOrder'
    BY <1>0, <1>4 DEF Tick, InOrder
  <2>2. ASSUME NEW j \in Asked PROVE OnTime(j)' /\ SentInTime(j)'
    <3>1. phase[j] = "queued" => now + 1 <= LatestBegin(j)
      BY <1>4, TickInTime
    <3>2. ~ AtLimit(j)
      BY <1>4 DEF Tick
    <3> QED  BY <1>0, <1>4, <1>n, <1>l, <3>1, <3>2 DEF Tick, AtLimit
  <2> QED  BY <2>1, <2>2
<1>5. ASSUME UNCHANGED <<now, phase, began, sentAt>> PROVE Q
  BY <1>0, <1>5, <1>l DEF InOrder
<1>6. ASSUME NEW i \in Asked, ConnectFails(i) \/ RunReplies(i) \/ RunFails(i)
      PROVE  Q
  BY <1>3, <1>6 DEF ConnectFails, RunReplies, RunFails
<1>7. ASSUME CannotAnswer \/ AnswerInfo \/ AnswerLink \/ AnswerMail PROVE Q
  BY <1>5, <1>7 DEF CannotAnswer, AnswerInfo, AnswerLink, AnswerMail, Answer
<1>8. CASE UNCHANGED vars
  BY <1>5, <1>8 DEF vars
<1> QED  BY NextIsStep, <1>1, <1>2, <1>4, <1>6, <1>7, <1>8 DEF Step

(* A token is signed once for all servers, and fresh when the last of them *)
(* is sent the command.                                                    *)
THEOREM TokenFresh == Spec => []TokenFreshWhenSent
<1>1. TimeInv => TokenFreshWhenSent
  <2> SUFFICES ASSUME TimeInv, NEW i \in Asked PROVE sentAt[i] < Expiry
    BY DEF TokenFreshWhenSent
  <2> QED  BY Numbers, AskedAreServers, LatestIsFresh, ConstantsAssumption
           DEF TimeInv, SentInTime
<1> QED  BY InitTime, NextTime, <1>1, PTL DEF Spec

--------------------------------------------------------------------------------
(***************************************************************************)
(* Answers                                                                 *)
(***************************************************************************)

(* What the result of a worker that ended says of its server.              *)
Settled(i) ==
    /\ i \notin faulty =>
           /\ result[i].kind = "reply"
           /\ Status(result[i]) = IF has[i] THEN "OK" ELSE "NOT_FOUND"
           /\ result[i].payload = IF has[i] THEN "fits" ELSE "none"
    /\ i \in faulty =>
           result[i].payload # "fits" /\ Status(result[i]) # "NOT_FOUND"

AnswerInv ==
    /\ TimeInv
    /\ \A i \in Asked : phase[i] = "done" => Settled(i)
    /\ \A i \in Servers : phase[i] # "done" => i \notin faulty
    /\ outcome # "waiting" => \A i \in Asked : phase[i] = "done"
    /\ BatchAnswerIsTrue /\ SingleAnswerIsTrue

(* No fault looks like an answer.                                          *)
LEMMA FaultsShow ==
    ASSUME NEW r \in Faults
    PROVE  r.payload # "fits" /\ Status(r) # "NOT_FOUND"
<1>1. CASE r \in ConnectFaults \cup {Without("notjson")}
  BY <1>1 DEF ConnectFaults, Without, Status
<1>2. CASE r = Reply([says |-> "NOT_FOUND", spelled |-> "otherwise"], "none")
  BY <1>2 DEF Reply, Status, FromString
<1>3. CASE \E p \in {"none", "misfit"} :
               r = Reply([says |-> "OK", spelled |-> "value"], p)
  BY <1>3 DEF Reply, Status, FromString
<1> QED  BY <1>1, <1>2, <1>3 DEF Faults

(* A server that replies in time says what is true.                        *)
LEMMA RepliesAreTrue ==
    ASSUME NEW i, sentAt[i] \in Nat, sentAt[i] < Expiry,
           NEW s \in {"value", "words"}, has[i] \in BOOLEAN,
           NEW r, r = Reply([says |-> Truth(i), spelled |-> s], TruePayload(i))
    PROVE  /\ r.kind = "reply"
           /\ Status(r) = IF has[i] THEN "OK" ELSE "NOT_FOUND"
           /\ r.payload = IF has[i] THEN "fits" ELSE "none"
<1>1. Truth(i) = IF has[i] THEN "OK" ELSE "NOT_FOUND"
  BY ConstantsAssumption DEF Truth
<1>2. TruePayload(i) = IF has[i] THEN "fits" ELSE "none"
  BY <1>1 DEF TruePayload
<1>3. r.kind = "reply" /\ Status(r) = Truth(i) /\ r.payload = TruePayload(i)
  BY DEF Reply, Status, FromString
<1> QED  BY <1>1, <1>2, <1>3

(* True initially.                                                         *)
LEMMA InitAnswer == Init => AnswerInv
  BY InitTime, AskedAreServers
  DEF Init, AnswerInv, BatchAnswerIsTrue, SingleAnswerIsTrue

(* What is answered of a batch is true.                                    *)
LEMMA InfoIsTrue ==
    ASSUME AnswerInv, Gathered, op = "info", \A i \in Asked : ~ Raises(i)
    PROVE  /\ Succeeded = {} => \A i \in Servers : i \in faulty \/ ~ has[i]
           /\ \A i \in Succeeded : result[i].payload = "misfit" => i \in faulty
           /\ Fitting = {i \in Servers : has[i] /\ i \notin faulty}
<1>1. Asked = Servers /\ \A i \in Servers : Settled(i)
  BY DEF AnswerInv, Gathered, Asked
<1>2. \A i \in Servers : has[i] \in BOOLEAN
  BY DEF AnswerInv, TimeInv, TypeOK
<1> QED  BY <1>1, <1>2 DEF Settled, Succeeded, Fitting

(* Every step keeps the answers true.                                      *)
LEMMA NextAnswer == AnswerInv /\ [Next]_vars => AnswerInv'
<1> SUFFICES ASSUME AnswerInv, [Next]_vars PROVE AnswerInv'
  OBVIOUS
<1>0. /\ TimeInv /\ TimeInv' /\ TypeOK
      /\ \A i \in Asked : phase[i] = "done" => Settled(i)
      /\ \A i \in Servers : phase[i] # "done" => i \notin faulty
      /\ outcome # "waiting" => \A i \in Asked : phase[i] = "done"
      /\ BatchAnswerIsTrue /\ SingleAnswerIsTrue
  BY NextTime DEF AnswerInv, TimeInv
<1> USE AskedAreServers DEF callVars
<1>1. ASSUME NEW i \in Asked, Begin(i) \/ Connected(i) PROVE AnswerInv'
  <2>1. outcome = "waiting" /\ outcome' = outcome /\ phase[i] # "done"
    BY <1>0, <1>1 DEF Begin, Connected
  <2>2. /\ UNCHANGED <<op, has, result, faulty>>
        /\ phase' = [phase EXCEPT ![i] = phase'[i]] /\ phase'[i] # "done"
    BY <1>0, <1>1 DEF Begin, Connected, TypeOK
  <2> QED  BY <1>0, <2>1, <2>2
           DEF AnswerInv, Asked, Settled, BatchAnswerIsTrue,
               SingleAnswerIsTrue, TypeOK
<1>2. ASSUME NEW i \in Asked, phase[i] # "done", NEW r, End(i, r),
             faulty' \in {faulty, faulty \cup {i}}, Settled(i)'
      PROVE  AnswerInv'
  <2>1. outcome = "waiting" /\ outcome' = outcome
    BY <1>0, <1>2 DEF End
  <2>2. \A j \in Servers \ {i} :
            /\ phase'[j] = phase[j] /\ result'[j] = result[j]
            /\ j \in faulty' <=> j \in faulty
    BY <1>0, <1>2 DEF End, TypeOK
  <2>3. phase'[i] = "done" /\ op' = op /\ has' = has /\ Asked' = Asked
    BY <1>0, <1>2 DEF End, TypeOK, Asked
  <2>4. \A j \in Asked \ {i} : Settled(j)' <=> Settled(j)
    BY <2>2, <2>3 DEF Settled
  <2> QED  BY <1>0, <1>2, <2>1, <2>2, <2>3, <2>4
           DEF AnswerInv, BatchAnswerIsTrue, SingleAnswerIsTrue
<1>3. ASSUME NEW i \in Asked, ConnectFails(i) \/ RunFails(i) PROVE AnswerInv'
  <2>1. PICK r \in Faults : End(i, r)
    BY <1>3, ResultsTyped DEF ConnectFails, RunFails
  <2>2. phase[i] # "done" /\ faulty' = faulty \cup {i}
    BY <1>3 DEF ConnectFails, RunFails
  <2>3. result'[i] = r
    BY <1>0, <2>1 DEF End, TypeOK
  <2>4. Settled(i)'
    BY <2>2, <2>3, FaultsShow DEF Settled
  <2> QED  BY <1>2, <2>1, <2>2, <2>4
<1>4. ASSUME NEW i \in Asked, RunReplies(i) PROVE AnswerInv'
  <2>1. PICK s \in {"value", "words"} :
          End(i, Reply([says |-> Truth(i), spelled |-> s], TruePayload(i)))
    BY <1>4 DEF RunReplies
  <2> DEFINE r == Reply([says |-> Truth(i), spelled |-> s], TruePayload(i))
  <2>2. phase[i] = "running" /\ faulty' = faulty /\ i \notin faulty
    BY <1>0, <1>4 DEF RunReplies
  <2>3. result'[i] = r /\ has' = has
    BY <1>0, <2>1 DEF End, TypeOK
  <2>4. sentAt[i] \in Nat /\ sentAt[i] < Expiry /\ has[i] \in BOOLEAN
    BY <1>0, Numbers, LatestIsFresh, ConstantsAssumption
    DEF TimeInv, SentInTime, TypeOK
  <2>5. /\ r.kind = "reply"
        /\ Status(r) = IF has[i] THEN "OK" ELSE "NOT_FOUND"
        /\ r.payload = IF has[i] THEN "fits" ELSE "none"
    BY <2>4, RepliesAreTrue
  <2> HIDE DEF r
  <2>6. Settled(i)'
    BY <2>2, <2>3, <2>5 DEF Settled
  <2> QED  BY <1>2, <2>1, <2>2, <2>6 DEF r
<1>5. ASSUME UNCHANGED <<op, has, phase, result, outcome, listed, faulty>>
      PROVE  AnswerInv'
  BY <1>0, <1>5 DEF AnswerInv, Asked, Settled, BatchAnswerIsTrue,
     SingleAnswerIsTrue
<1>6. ASSUME NEW o, NEW l, Gathered, Answer(o, l),
             BatchAnswerIsTrue', SingleAnswerIsTrue'
      PROVE  AnswerInv'
  BY <1>0, <1>6 DEF AnswerInv, Asked, Settled, Gathered, Answer
<1>a. ASSUME Gathered, NEW i \in Asked, result[i].kind # "reply"
      PROVE  i \in faulty
  BY <1>0, <1>a DEF Gathered, Settled
<1>7. CASE CannotAnswer
  <2>1. PICK i \in Asked : Raises(i)
    BY <1>7 DEF CannotAnswer
  <2>2. i \in faulty /\ (op = "info" => result[i].kind = "notjson")
    BY <1>7, <1>a, <2>1 DEF CannotAnswer, Raises
  <2>3. op # "info" => i = 1
    BY DEF Asked
  <2>4. BatchAnswerIsTrue' /\ SingleAnswerIsTrue'
    BY <1>7, <2>2, <2>3
    DEF CannotAnswer, Answer, BatchAnswerIsTrue, SingleAnswerIsTrue
  <2> QED  BY <1>6, <1>7, <2>4 DEF CannotAnswer
<1>8. CASE AnswerInfo
  <2>1. /\ Succeeded = {} => \A i \in Servers : i \in faulty \/ ~ has[i]
        /\ \A i \in Succeeded : result[i].payload = "misfit" => i \in faulty
        /\ Fitting = {i \in Servers : has[i] /\ i \notin faulty}
    BY <1>8, InfoIsTrue DEF AnswerInfo
  <2>2. CASE Answer("notfound", {}) /\ Succeeded = {}
    <3>1. BatchAnswerIsTrue' /\ SingleAnswerIsTrue'
      BY <1>8, <2>1, <2>2
      DEF AnswerInfo, Answer, BatchAnswerIsTrue, SingleAnswerIsTrue, Servers
    <3> QED  BY <1>6, <1>8, <2>2, <3>1 DEF AnswerInfo
  <2>3. CASE Answer("failed", {})
             /\ \E i \in Succeeded : result[i].payload = "misfit"
    <3>1. BatchAnswerIsTrue' /\ SingleAnswerIsTrue'
      BY <1>8, <2>1, <2>3
      DEF AnswerInfo, Answer, BatchAnswerIsTrue, SingleAnswerIsTrue
    <3> QED  BY <1>6, <1>8, <2>3, <3>1 DEF AnswerInfo
  <2>4. CASE Answer("found", Fitting)
    <3>1. BatchAnswerIsTrue' /\ SingleAnswerIsTrue'
      BY <1>8, <2>1, <2>4
      DEF AnswerInfo, Answer, BatchAnswerIsTrue, SingleAnswerIsTrue, Servers
    <3> QED  BY <1>6, <1>8, <2>4, <3>1 DEF AnswerInfo
  <2> QED  BY <1>8, <2>2, <2>3, <2>4 DEF AnswerInfo
<1>s. ASSUME Gathered, op # "info" PROVE Settled(1) /\ has[1] \in BOOLEAN
  BY <1>0, <1>s, ConstantsAssumption DEF Gathered, Asked, TypeOK, Servers
<1>9. CASE AnswerLink
  <2>1. PICK o, l : Answer(o, l) /\ o \in {"found", "notfound", "failed"}
        /\ (o = "notfound" <=> Status(result[1]) = "NOT_FOUND")
        /\ (o = "failed" => result[1].payload # "fits")
        /\ (o = "found" => result[1].payload = "fits")
    BY <1>9 DEF AnswerLink
  <2>2. BatchAnswerIsTrue' /\ SingleAnswerIsTrue'
    BY <1>9, <1>s, <2>1
    DEF AnswerLink, Answer, BatchAnswerIsTrue, SingleAnswerIsTrue, Settled
  <2> QED  BY <1>6, <1>9, <2>1, <2>2 DEF AnswerLink
<1>10. CASE AnswerMail
  <2>1. PICK o, l : Answer(o, l) /\ o \in {"found", "notfound", "failed"}
        /\ (o = "notfound" <=> result[1].payload = "none")
        /\ (o = "failed" <=> result[1].payload = "misfit")
    BY <1>10 DEF AnswerMail
  <2>2. result[1].payload \in {"none", "fits", "misfit"}
    BY <1>0, ConstantsAssumption DEF TypeOK, Results, Payloads, Servers
  <2>3. BatchAnswerIsTrue' /\ SingleAnswerIsTrue'
    BY <1>10, <1>s, <2>1, <2>2
    DEF AnswerMail, Answer, BatchAnswerIsTrue, SingleAnswerIsTrue, Settled
  <2> QED  BY <1>6, <1>10, <2>1, <2>3 DEF AnswerMail
<1>11. CASE Tick \/ UNCHANGED vars
  BY <1>5, <1>11 DEF Tick, vars
<1> QED  BY NextIsStep, <1>1, <1>3, <1>4, <1>7, <1>8, <1>9, <1>10, <1>11 DEF Step

(* What a user is told of a batch is true, whatever fails on the way.      *)
THEOREM BatchCorrect == Spec => []BatchAnswerIsTrue
<1>1. AnswerInv => BatchAnswerIsTrue
  BY DEF AnswerInv
<1> QED  BY InitAnswer, NextAnswer, <1>1, PTL DEF Spec

(* What a user is told of one server is true.                              *)
THEOREM SingleCorrect == Spec => []SingleAnswerIsTrue
<1>1. AnswerInv => SingleAnswerIsTrue
  BY DEF AnswerInv
<1> QED  BY InitAnswer, NextAnswer, <1>1, PTL DEF Spec

--------------------------------------------------------------------------------
(***************************************************************************)
(* The wait for a connection, for any arguments of                         *)
(* run_with_adaptive_timeout: what MaxConnect stands for                   *)
(***************************************************************************)

(* The time a waiting call may still lose: the current attempt, then every *)
(* attempt left at the cap.                                                *)
InBudget ==
    state = "waiting" /\ args.retries # Unlimited =>
        /\ attempt <= args.retries
        /\ elapsed + timeout + (args.retries - attempt) * args.cap
               <= args.base + args.retries * args.cap

CallInv ==
    /\ ATTypeOK
    /\ args.base <= args.cap
    /\ timeout <= args.cap
    /\ NeverFallsThrough
    /\ InBudget
    /\ WithinBudget

(* Exchanging the timeouts puts them in order and keeps the rest.          *)
LEMMA SwappedOrder ==
    ASSUME NEW a \in Args
    PROVE  Swapped(a) \in Args /\ Swapped(a).base <= Swapped(a).cap
<1>0. /\ a = [base |-> a.base, cap |-> a.cap, factor |-> a.factor,
               retries |-> a.retries]
      /\ a.base \in Nat \ {0} /\ a.cap \in Nat \ {0}
      /\ a.factor \in Nat \ {0} /\ a.retries \in Nat \cup {Unlimited}
  BY DEF Args
<1>1. CASE a.base > a.cap
  <2>1. Swapped(a) = [base |-> a.cap, cap |-> a.base, factor |-> a.factor,
                      retries |-> a.retries]
    BY <1>0, <1>1 DEF Swapped, Args
  <2> QED  BY <1>0, <1>1, <2>1 DEF Args
<1>2. CASE ~ (a.base > a.cap)
  BY <1>0, <1>2 DEF Swapped
<1> QED  BY <1>1, <1>2

(* A product with one factor fewer, and its sign.                          *)
LEMMA OneLess ==
    ASSUME NEW n \in Nat \ {0}, NEW c \in Nat
    PROVE  /\ (n - 1) * c = n * c - c
           /\ n * c \in Nat
           /\ (n - 1) * c \in Nat
  OBVIOUS

(* The next timeout is positive and within the cap.                        *)
LEMMA NextTimeoutCapped ==
    ASSUME NEW t \in Nat \ {0}, NEW a \in Args
    PROVE  NextTimeout(t, a) \in Nat \ {0} /\ NextTimeout(t, a) <= a.cap
<1>1. a.factor \in Nat \ {0} /\ a.cap \in Nat \ {0}
  BY DEF Args
<1>2. t * a.factor \in Nat \ {0}
  BY <1>1
<1> QED  BY <1>1, <1>2 DEF NextTimeout, Lesser

(* The call starts within its budget.                                      *)
LEMMA InitCall == ATInit => CallInv
<1> SUFFICES ASSUME ATInit PROVE CallInv
  OBVIOUS
<1>1. args \in Args /\ args.base <= args.cap
  BY SwappedOrder, ArgSetAssumption DEF ATInit
<1>2. /\ args.base \in Nat \ {0} /\ args.cap \in Nat \ {0}
      /\ args.retries \in Nat \cup {Unlimited}
  BY <1>1 DEF Args
<1>3. state = "waiting"
  BY <1>1, <1>2 DEF ATInit, LoopHead
<1>4. ATTypeOK /\ NeverFallsThrough /\ timeout <= args.cap
  BY <1>1, <1>2, <1>3
  DEF ATInit, ATTypeOK, States, NeverFallsThrough
<1>5. ASSUME args.retries # Unlimited PROVE args.retries * args.cap \in Nat
  BY <1>2, <1>5
<1>6. InBudget /\ WithinBudget
  BY <1>2, <1>5 DEF ATInit, InBudget, WithinBudget
<1> QED  BY <1>1, <1>4, <1>6 DEF CallInv

(* Every step keeps the call within its budget.                            *)
LEMMA NextCall == CallInv /\ [ATNext]_atVars => CallInv'
<1> SUFFICES ASSUME CallInv, [ATNext]_atVars PROVE CallInv'
  OBVIOUS
<1>0. /\ args.base \in Nat \ {0} /\ args.cap \in Nat \ {0}
      /\ args.retries \in Nat \cup {Unlimited}
      /\ args \in Args /\ timeout \in Nat \ {0} /\ timeout <= args.cap
      /\ attempt \in Nat /\ elapsed \in Nat /\ args.base <= args.cap
  BY DEF CallInv, ATTypeOK, Args
<1>1. ASSUME CoroutineEnds PROVE CallInv'
  <2>1. PICK d \in 0 .. timeout : elapsed' = elapsed + d
    BY <1>1 DEF CoroutineEnds
  <2>2. d \in Nat /\ d <= timeout /\ elapsed' \in Nat
    BY <1>0, <2>1
  <2>3. /\ ATTypeOK' /\ NeverFallsThrough' /\ (args.base <= args.cap)'
        /\ (timeout <= args.cap)' /\ InBudget'
    BY <1>0, <1>1, <2>2
    DEF CoroutineEnds, CallInv, ATTypeOK, NeverFallsThrough,
        States, InBudget
  <2>4. WithinBudget'
    <3> SUFFICES ASSUME args.retries # Unlimited
                 PROVE  elapsed + d <= args.base + args.retries * args.cap
      BY <1>1, <2>1 DEF CoroutineEnds, WithinBudget
    <3>1. /\ args.retries - attempt \in Nat
          /\ elapsed + timeout + (args.retries - attempt) * args.cap
                 <= args.base + args.retries * args.cap
      BY <1>0, <1>1 DEF CoroutineEnds, CallInv, InBudget
    <3>2. /\ (args.retries - attempt) * args.cap \in Nat
          /\ args.retries * args.cap \in Nat
      BY <1>0, <3>1
    <3> QED  BY <1>0, <2>2, <3>1, <3>2
  <2> QED  BY <2>3, <2>4 DEF CallInv
<1>2. ASSUME TimeoutUncounted PROVE CallInv'
  <2>1. timeout' \in Nat \ {0} /\ timeout' <= args.cap
    BY <1>0, <1>2, NextTimeoutCapped DEF TimeoutUncounted
  <2>2. state' = "waiting"
    BY <1>0, <1>2, <2>1 DEF TimeoutUncounted, LoopHead
  <2> QED
    BY <1>0, <1>2, <2>1, <2>2
    DEF TimeoutUncounted, CallInv, ATTypeOK, NeverFallsThrough,
        States, InBudget, WithinBudget
<1>3. ASSUME TimeoutCounted PROVE CallInv'
  <2>1. /\ timeout' \in Nat \ {0} /\ timeout' <= args.cap
        /\ state' \in {"waiting", "gaveUp"}
        /\ state' = "waiting" => attempt' <= args.retries
        /\ args.retries \in Nat /\ args' = args
        /\ attempt' = attempt + 1 /\ elapsed' = elapsed + timeout
        /\ state = "waiting" /\ args.retries # Unlimited
    <3>1. NextTimeout(timeout, args) \in Nat \ {0}
          /\ NextTimeout(timeout, args) <= args.cap
      BY <1>0, NextTimeoutCapped
    <3> QED  BY <1>0, <1>3, <3>1 DEF TimeoutCounted, LoopHead
  <2>2. /\ attempt <= args.retries
        /\ elapsed + timeout + (args.retries - attempt) * args.cap
               <= args.base + args.retries * args.cap
    BY <2>1 DEF CallInv, InBudget
  <2>3. args.retries * args.cap \in Nat
    BY <1>0, <2>1
  <2>4. (args.retries - attempt) * args.cap \in Nat
    BY <1>0, <2>1, <2>2
  <2>5. ATTypeOK' /\ NeverFallsThrough' /\ (args.base <= args.cap)'
        /\ (timeout <= args.cap)'
    BY <1>0, <2>1 DEF ATTypeOK, NeverFallsThrough, States
  <2>6. WithinBudget'
    BY <1>0, <2>1, <2>2, <2>3, <2>4 DEF WithinBudget
  <2>7. ASSUME state' = "waiting"
        PROVE  elapsed' + timeout' + (args.retries - attempt') * args.cap
                   <= args.base + args.retries * args.cap
    <3>1. args.retries - attempt \in Nat \ {0}
      BY <1>0, <2>1, <2>7
    <3>2. (args.retries - attempt - 1) * args.cap
              = (args.retries - attempt) * args.cap - args.cap
      BY <1>0, <3>1, OneLess
    <3>3. args.retries - attempt' = args.retries - attempt - 1
      BY <1>0, <2>1
    <3> QED  BY <1>0, <2>1, <2>2, <2>3, <2>4, <3>2, <3>3
  <2>8. InBudget'
    BY <2>1, <2>7 DEF InBudget
  <2> QED  BY <2>5, <2>6, <2>8 DEF CallInv
<1>4. ASSUME UNCHANGED atVars PROVE CallInv'
  BY <1>4 DEF atVars, CallInv, ATTypeOK, NeverFallsThrough,
              InBudget, WithinBudget
<1> QED  BY <1>1, <1>2, <1>3, <1>4 DEF ATNext

(* The call never returns None and never waits longer than its budget,     *)
(* whatever its arguments.                                                 *)
THEOREM TimeoutCorrect ==
    ATSpec => [](ATTypeOK /\ NeverFallsThrough /\ WithinBudget)
<1>1. CallInv => ATTypeOK /\ NeverFallsThrough /\ WithinBudget
  BY DEF CallInv
<1> QED  BY <1>1, InitCall, NextCall, PTL DEF ATSpec

(* The call is well typed.                                                 *)
THEOREM CallTyped == ATSpec => []ATTypeOK
  BY TimeoutCorrect, PTL

(* The loop is left by an answer or an exception: None never comes out.    *)
THEOREM NeverNone == ATSpec => []NeverFallsThrough
  BY TimeoutCorrect, PTL

(* The wait is bounded by the sum of the timeouts.                         *)
THEOREM BudgetKept == ATSpec => []WithinBudget
  BY TimeoutCorrect, PTL

(* The arguments of _create_connection, in seconds.                        *)
PoolArgs == [base |-> 15, cap |-> 30, factor |-> 2, retries |-> 3]

(* A connection is waited for no longer than 105 s: the value of           *)
(* MaxConnect.                                                             *)
THEOREM ConnectLimit == args = PoolArgs /\ ATSpec => [](elapsed <= 105)
<1> DEFINE P == args = PoolArgs
<1>1. P /\ [ATNext]_atVars => P'
  BY DEF ATNext, CoroutineEnds, TimeoutUncounted, TimeoutCounted, atVars
<1>2. P /\ WithinBudget => elapsed <= 105
  BY ArgSetAssumption DEF PoolArgs, WithinBudget
<1> HIDE DEF P
<1>3. args = PoolArgs => P
  BY DEF P
<1> QED  BY <1>1, <1>2, <1>3, BudgetKept, PTL DEF ATSpec

(* With the 100 permits, the timeouts of 105 s and 5 s and the expiry of   *)
(* 900 s in the code, SizeAssumption is that there are at most 800 servers *)
(* in PLESK_SERVER_LIST.                                                   *)
THEOREM EightHundredServers ==
    ASSUME NEW n \in Nat \ {0}
    PROVE  ((n - 1) \div 100) * (105 + 5) + 105 < 900 <=> n <= 800
  OBVIOUS
================================================================================
