----------------------------- MODULE SshPool_proofs -----------------------------
(***************************************************************************)
(* Proofs about SshPool, for any hosts, connections, commands, start-up    *)
(* list, semaphore and number of retries.                                  *)
(***************************************************************************)
EXTENDS SshPool, DomainMapper, TLAPS

(* Every action, one disjunct each.                                        *)
Step ==
    \/ \E s \in Starters : StartConnecting(s)
    \/ \E s \in Starters : StarterConnected(s)
    \/ \E t \in Tasks : ConnectTimeout(t)
    \/ \E t \in Tasks : ConnectError(t)
    \/ \E c \in Calls : CallReuses(c)
    \/ \E c \in Calls : CallCreates(c)
    \/ \E c \in Calls : CallConnected(c)
    \/ \E c \in Calls : RunReply(c)
    \/ \E c \in Calls : RunTimeout(c)
    \/ \E c \in Calls : RunLost(c)
    \/ \E c \in Calls : RunRefused(c)
    \/ \E c \in Calls : RemoteExecute(c)
    \/ \E c \in Calls : LoseRequest(c)
    \/ \E c \in Conns : ConnectionLost(c)
    \/ StartupDone
    \/ Shutdown

(* Next is the disjunction of its actions.                                 *)
LEMMA NextIsStep == Next => Step
  BY DEF Next, Step, StarterStep, Connecting, CallStep, WireStep

--------------------------------------------------------------------------------
(* What the constants give the proofs.                                     *)
LEMMA ConstantFacts ==
    /\ \A s \in Starters : StartList[s] \in Hosts
    /\ StartList[1] \in Hosts
    /\ Starters \cap Calls = {}
    /\ NoConn \notin Conns
  BY ConstantsAssumption DEF Starters

(* Type correctness holds initially.                                       *)
LEMMA InitType == Init => TypeOK
  BY ConstantFacts DEF Init, TypeOK, PCs, Tasks

(* Type correctness is inductive on its own.                               *)
LEMMA NextType == TypeOK /\ [Next]_vars => TypeOK'
<1> SUFFICES ASSUME TypeOK, Step PROVE TypeOK'
  <2>1. TypeOK /\ UNCHANGED vars => TypeOK'
    BY DEF TypeOK, vars
  <2> QED  BY <2>1, NextIsStep
<1> USE DEF TypeOK, PCs, connVars, wireVars
<1>1. ASSUME NEW s \in Starters, StartConnecting(s) PROVE TypeOK'
  BY <1>1 DEF StartConnecting
<1>2. ASSUME NEW s \in Starters, StarterConnected(s) PROVE TypeOK'
  BY <1>2 DEF StarterConnected, Store, Tasks
<1>3. ASSUME NEW t \in Tasks, ConnectTimeout(t) PROVE TypeOK'
  BY <1>3 DEF ConnectTimeout
<1>4. ASSUME NEW t \in Tasks, ConnectError(t) PROVE TypeOK'
  BY <1>4 DEF ConnectError
<1>5. ASSUME NEW c \in Calls, CallReuses(c) PROVE TypeOK'
  BY <1>5 DEF CallReuses, Send, IsOpen
<1>6. ASSUME NEW c \in Calls, CallCreates(c) PROVE TypeOK'
  BY <1>6 DEF CallCreates, Tasks
<1>7. ASSUME NEW c \in Calls, CallConnected(c) PROVE TypeOK'
  BY <1>7 DEF CallConnected, Store, Send, Tasks
<1>8. ASSUME NEW c \in Calls, RunReply(c) PROVE TypeOK'
  BY <1>8 DEF RunReply
<1>9. ASSUME NEW c \in Calls, RunTimeout(c) PROVE TypeOK'
  BY <1>9 DEF RunTimeout
<1>10. ASSUME NEW c \in Calls, RunLost(c) PROVE TypeOK'
  BY <1>10 DEF RunLost
<1>11. ASSUME NEW c \in Calls, RunRefused(c) PROVE TypeOK'
  BY <1>11 DEF RunRefused
<1>12. ASSUME NEW c \in Calls, RemoteExecute(c) PROVE TypeOK'
  BY <1>12 DEF RemoteExecute
<1>13. ASSUME NEW c \in Calls, LoseRequest(c) PROVE TypeOK'
  BY <1>13 DEF LoseRequest
<1>14. ASSUME NEW c \in Conns, ConnectionLost(c) PROVE TypeOK'
  BY <1>14 DEF ConnectionLost
<1>15. ASSUME StartupDone PROVE TypeOK'
  BY <1>15 DEF StartupDone
<1>16. ASSUME Shutdown PROVE TypeOK'
  BY <1>16 DEF Shutdown
<1> QED
  BY <1>1, <1>2, <1>3, <1>4, <1>5, <1>6, <1>7, <1>8, <1>9, <1>10, <1>11,
     <1>12, <1>13, <1>14, <1>15, <1>16 DEF Step

(* Every state of the program is well typed.                               *)
THEOREM TypeCorrect == Spec => []TypeOK
  BY InitType, NextType, PTL DEF Spec

--------------------------------------------------------------------------------
(***************************************************************************)
(* The pool.  OpenIsPooled is not inductive: that storing a connection     *)
(* leaks none needs to know of every coroutine that will still store one.  *)
(***************************************************************************)

(* The start-up is over before the first command begins.                   *)
Staged ==
    /\ \A s \in Starters :
          pc[s] \in {"queued", "connecting", "connected", "failed"}
    /\ phase = "starting" => \A c \in Calls : pc[c] = "idle"
    /\ phase # "starting" =>
          \A s \in Starters : pc[s] \in {"connected", "failed"}
    /\ phase = "stopped" => \A c \in Calls : ~ InFlight(c)
    /\ \A c \in Calls : pc[c] # "queued"

(* Two coroutines creating for one host have contested it, and so has one  *)
(* that creates although the pool holds an open connection.                *)
CreatorsContest ==
    /\ \A t, u \in Tasks :
          t # u /\ Creating(t) /\ Creating(u) /\ host[t] = host[u] =>
              host[t] \in contested
    /\ \A t \in Tasks :
          Creating(t) /\ IsOpen(pool[host[t]]) => host[t] \in contested

(* The pool holds each connection under the host it was made to.           *)
PoolKeys ==
    \A h \in Hosts : pool[h] # NoConn =>
        owner[pool[h]] = h /\ status[pool[h]] # "unused"

PoolInv == TypeOK /\ Staged /\ CreatorsContest /\ PoolKeys /\ OpenIsPooled

(* Initially the pool is empty and only starters create.                   *)
LEMMA InitPool == Init => PoolInv
<1> SUFFICES ASSUME Init PROVE PoolInv
  OBVIOUS
<1>1. Staged
  BY ConstantFacts DEF Init, Staged, InFlight, Tasks
<1>2. CreatorsContest
  BY ConstantFacts DEF Init, CreatorsContest, Creating, IsOpen, Tasks
<1>3. PoolKeys /\ OpenIsPooled
  BY DEF Init, PoolKeys, OpenIsPooled, IsOpen
<1> QED  BY <1>1, <1>2, <1>3, InitType DEF PoolInv

(* A step that neither creates nor stores nor ends the application leaves  *)
(* the pool invariant alone.                                               *)
LEMMA QuietPool ==
    ASSUME PoolInv, TypeOK',
           UNCHANGED <<phase, pool, owner, host, contested>>,
           \A c \in Conns : status'[c] = status[c]
                            \/ (IsOpen(c) /\ status'[c] = "closed"),
           \A t \in Tasks : Creating(t)' => Creating(t),
           Staged'
    PROVE  PoolInv'
<1>1. \A c : IsOpen(c)' => IsOpen(c)
  BY DEF IsOpen, PoolInv, TypeOK
<1>2. CreatorsContest'
  BY <1>1 DEF PoolInv, CreatorsContest
<1>3. PoolKeys'
  BY DEF PoolInv, PoolKeys, TypeOK, IsOpen
<1>4. OpenIsPooled'
  BY <1>1 DEF PoolInv, OpenIsPooled
<1> QED  BY <1>2, <1>3, <1>4 DEF PoolInv

(* Storing a connection: if the pool held an open one, the host is already *)
(* contested, and so is it if another coroutine still creates for it.      *)
LEMMA StorePool ==
    ASSUME PoolInv, TypeOK', NEW t \in Tasks, NEW k \in Conns, Store(t, k),
           UNCHANGED <<phase, host, contested>>, ~ Creating(t)',
           \A u \in Tasks \ {t} : pc'[u] = pc[u],
           Staged'
    PROVE  PoolInv'
<1> USE DEF PoolInv
<1>1. /\ \A c \in Conns \ {k} : status'[c] = status[c] /\ owner'[c] = owner[c]
      /\ status'[k] = "open" /\ owner'[k] = host[t] /\ pool'[host[t]] = k
      /\ \A h \in Hosts \ {host[t]} : pool'[h] = pool[h]
      /\ host[t] \in Hosts
      /\ status[k] = "unused"
      /\ Creating(t)
  BY DEF TypeOK, Store, Creating
<1>2. \A u \in Tasks : Creating(u)' => u # t /\ Creating(u)
  BY DEF Creating
<1>3. \A h \in Hosts : pool[h] # k
  BY <1>1, ConstantFacts DEF PoolKeys, TypeOK
<1>4. CreatorsContest'
  <2>1. ASSUME NEW u \in Tasks, Creating(u)', IsOpen(pool[host[u]])'
        PROVE  host[u] \in contested
    <3>1. CASE host[u] = host[t]
      BY <1>1, <1>2, <2>1, <3>1 DEF CreatorsContest
    <3>2. CASE host[u] # host[t]
      <4>1. host[u] \in Hosts
        BY DEF TypeOK
      <4>2. IsOpen(pool[host[u]])
        BY <1>1, <1>3, <2>1, <3>2, <4>1 DEF IsOpen
      <4> QED  BY <1>2, <2>1, <4>2 DEF CreatorsContest
    <3> QED  BY <3>1, <3>2
  <2> QED  BY <1>2, <2>1 DEF CreatorsContest
<1>5. PoolKeys'
  BY <1>1, <1>3 DEF PoolKeys, TypeOK
<1>6. OpenIsPooled'
  <2> SUFFICES ASSUME NEW c \in Conns, IsOpen(c)', c # k
               PROVE  pool'[owner[c]] = c \/ owner[c] \in contested
    BY <1>1 DEF OpenIsPooled
  <2>1. IsOpen(c)
    BY <1>1 DEF IsOpen
  <2>2. pool[owner[c]] = c \/ owner[c] \in contested
    BY <2>1 DEF OpenIsPooled
  <2>3. CASE owner[c] = host[t]
    BY <1>1, <2>1, <2>2, <2>3 DEF CreatorsContest
  <2>4. CASE owner[c] # host[t]
    BY <1>1, <2>2, <2>4 DEF TypeOK
  <2> QED  BY <2>3, <2>4
<1> QED  BY <1>4, <1>5, <1>6

(* Every step keeps the pool invariant.                                    *)
LEMMA NextPool == PoolInv /\ [Next]_vars => PoolInv'
<1> SUFFICES ASSUME PoolInv, [Next]_vars PROVE PoolInv'
  OBVIOUS
<1>0. TypeOK'
  BY NextType DEF PoolInv
<1> USE DEF connVars, wireVars
<1>1. ASSUME NEW s \in Starters, StartConnecting(s) PROVE PoolInv'
  <2>1. Staged'
    BY <1>1, ConstantFacts
    DEF StartConnecting, Staged, PoolInv, InFlight, TypeOK, Tasks
  <2>2. /\ UNCHANGED <<phase, pool, owner, host, contested>>
        /\ \A k \in Conns : status'[k] = status[k]
                             \/ (IsOpen(k) /\ status'[k] = "closed")
        /\ \A u \in Tasks : Creating(u)' => Creating(u)
    BY <1>1 DEF StartConnecting, Creating, PoolInv, TypeOK
  <2> QED  BY <1>0, <2>1, <2>2, QuietPool
<1>2. ASSUME NEW s \in Starters, StarterConnected(s) PROVE PoolInv'
  <2>1. Staged'
    BY <1>2, ConstantFacts
    DEF StarterConnected, Store, Staged, PoolInv, InFlight, TypeOK, Tasks
  <2>2. /\ s \in Tasks
        /\ ~ Creating(s)'
        /\ \A u \in Tasks \ {s} : pc'[u] = pc[u]
    BY <1>2 DEF StarterConnected, Creating, PoolInv, TypeOK, Tasks
  <2> QED
    BY <1>0, <1>2, <2>1, <2>2, StorePool DEF StarterConnected
<1>3. ASSUME NEW t \in Tasks, ConnectTimeout(t) PROVE PoolInv'
  <2>1. Staged'
    BY <1>3, ConstantFacts
    DEF ConnectTimeout, Staged, PoolInv, InFlight, TypeOK, Tasks
  <2>2. /\ UNCHANGED <<phase, pool, owner, host, contested>>
        /\ \A k \in Conns : status'[k] = status[k]
                             \/ (IsOpen(k) /\ status'[k] = "closed")
        /\ \A u \in Tasks : Creating(u)' => Creating(u)
    BY <1>3 DEF ConnectTimeout, Creating, PoolInv, TypeOK
  <2> QED  BY <1>0, <2>1, <2>2, QuietPool
<1>4. ASSUME NEW t \in Tasks, ConnectError(t) PROVE PoolInv'
  <2>1. Staged'
    BY <1>4, ConstantFacts
    DEF ConnectError, Staged, PoolInv, InFlight, TypeOK, Tasks
  <2>2. /\ UNCHANGED <<phase, pool, owner, host, contested>>
        /\ \A k \in Conns : status'[k] = status[k]
                             \/ (IsOpen(k) /\ status'[k] = "closed")
        /\ \A u \in Tasks : Creating(u)' => Creating(u)
    BY <1>4 DEF ConnectError, Creating, PoolInv, TypeOK
  <2> QED  BY <1>0, <2>1, <2>2, QuietPool
<1>5. ASSUME NEW c \in Calls, CallReuses(c) PROVE PoolInv'
  <2>1. Staged'
    BY <1>5, ConstantFacts
    DEF CallReuses, Send, Staged, PoolInv, InFlight, TypeOK, Tasks
  <2>2. /\ UNCHANGED <<phase, pool, owner, host, contested>>
        /\ \A k \in Conns : status'[k] = status[k]
                             \/ (IsOpen(k) /\ status'[k] = "closed")
        /\ \A u \in Tasks : Creating(u)' => Creating(u)
    BY <1>5 DEF CallReuses, Send, Creating, PoolInv, TypeOK
  <2> QED  BY <1>0, <2>1, <2>2, QuietPool
<1>6. ASSUME NEW c \in Calls, CallCreates(c) PROVE PoolInv'
  <2> USE <1>6 DEF CallCreates, PoolInv
  <2>1. Staged'
    BY ConstantFacts DEF Staged, InFlight, TypeOK, Tasks
  <2>2. /\ c \in Tasks
        /\ contested \subseteq contested'
        /\ \A t \in Tasks : Creating(t)' => t = c \/ Creating(t)
        /\ \A t \in Tasks : Creating(t) /\ host[t] = host[c] =>
              host[c] \in contested'
    BY DEF Creating, TypeOK, Tasks
  <2>3. CreatorsContest'
    <3>1. ~ IsOpen(pool[host[c]])'
      BY DEF IsOpen
    <3>2. ASSUME NEW t \in Tasks, NEW u \in Tasks, t # u, Creating(t)',
                 Creating(u)', host[t] = host[u]
          PROVE  host[t] \in contested'
      BY <2>2, <3>2 DEF CreatorsContest
    <3>3. ASSUME NEW t \in Tasks, Creating(t)', IsOpen(pool[host[t]])'
          PROVE  host[t] \in contested'
      BY <2>2, <3>1, <3>3 DEF CreatorsContest, IsOpen
    <3> QED  BY <3>2, <3>3 DEF CreatorsContest
  <2>4. PoolKeys' /\ OpenIsPooled'
    BY <2>2 DEF PoolKeys, OpenIsPooled, IsOpen
  <2> QED  BY <1>0, <2>1, <2>3, <2>4
<1>7. ASSUME NEW c \in Calls, CallConnected(c) PROVE PoolInv'
  <2>1. Staged'
    BY <1>7, ConstantFacts
    DEF CallConnected, Store, Send, Staged, PoolInv, InFlight, TypeOK, Tasks
  <2>2. /\ c \in Tasks
        /\ ~ Creating(c)'
        /\ \A u \in Tasks \ {c} : pc'[u] = pc[u]
    BY <1>7 DEF CallConnected, Send, Creating, PoolInv, TypeOK, Tasks
  <2> QED
    BY <1>0, <1>7, <2>1, <2>2, StorePool DEF CallConnected
<1>8. ASSUME NEW c \in Calls, RunReply(c) PROVE PoolInv'
  <2>1. Staged'
    BY <1>8, ConstantFacts
    DEF RunReply, Staged, PoolInv, InFlight, TypeOK, Tasks
  <2>2. /\ UNCHANGED <<phase, pool, owner, host, contested>>
        /\ \A k \in Conns : status'[k] = status[k]
                             \/ (IsOpen(k) /\ status'[k] = "closed")
        /\ \A u \in Tasks : Creating(u)' => Creating(u)
    BY <1>8 DEF RunReply, Creating, IsOpen, PoolInv, TypeOK
  <2> QED  BY <1>0, <2>1, <2>2, QuietPool
<1>9. ASSUME NEW c \in Calls, RunTimeout(c) PROVE PoolInv'
  <2>1. Staged'
    BY <1>9, ConstantFacts
    DEF RunTimeout, Staged, PoolInv, InFlight, TypeOK, Tasks
  <2>2. /\ UNCHANGED <<phase, pool, owner, host, contested>>
        /\ \A k \in Conns : status'[k] = status[k]
                             \/ (IsOpen(k) /\ status'[k] = "closed")
        /\ \A u \in Tasks : Creating(u)' => Creating(u)
    BY <1>9 DEF RunTimeout, Creating, IsOpen, PoolInv, TypeOK
  <2> QED  BY <1>0, <2>1, <2>2, QuietPool
<1>10. ASSUME NEW c \in Calls, RunLost(c) PROVE PoolInv'
  <2>1. Staged'
    BY <1>10, ConstantFacts
    DEF RunLost, Staged, PoolInv, InFlight, TypeOK, Tasks
  <2>2. /\ UNCHANGED <<phase, pool, owner, host, contested>>
        /\ \A k \in Conns : status'[k] = status[k]
                             \/ (IsOpen(k) /\ status'[k] = "closed")
        /\ \A u \in Tasks : Creating(u)' => Creating(u)
    BY <1>10 DEF RunLost, Creating, IsOpen, PoolInv, TypeOK
  <2> QED  BY <1>0, <2>1, <2>2, QuietPool
<1>11. ASSUME NEW c \in Calls, RunRefused(c) PROVE PoolInv'
  <2>1. Staged'
    BY <1>11, ConstantFacts
    DEF RunRefused, Staged, PoolInv, InFlight, TypeOK, Tasks
  <2>2. /\ UNCHANGED <<phase, pool, owner, host, contested>>
        /\ \A k \in Conns : status'[k] = status[k]
                             \/ (IsOpen(k) /\ status'[k] = "closed")
        /\ \A u \in Tasks : Creating(u)' => Creating(u)
    BY <1>11 DEF RunRefused, Creating, IsOpen, PoolInv, TypeOK
  <2> QED  BY <1>0, <2>1, <2>2, QuietPool
<1>12. ASSUME NEW c \in Calls, RemoteExecute(c) PROVE PoolInv'
  <2>1. Staged'
    BY <1>12, ConstantFacts
    DEF RemoteExecute, Staged, PoolInv, InFlight, TypeOK, Tasks
  <2>2. /\ UNCHANGED <<phase, pool, owner, host, contested>>
        /\ \A k \in Conns : status'[k] = status[k]
                             \/ (IsOpen(k) /\ status'[k] = "closed")
        /\ \A u \in Tasks : Creating(u)' => Creating(u)
    BY <1>12 DEF RemoteExecute, Creating, IsOpen, PoolInv, TypeOK
  <2> QED  BY <1>0, <2>1, <2>2, QuietPool
<1>13. ASSUME NEW c \in Calls, LoseRequest(c) PROVE PoolInv'
  <2>1. Staged'
    BY <1>13, ConstantFacts
    DEF LoseRequest, Staged, PoolInv, InFlight, TypeOK, Tasks
  <2>2. /\ UNCHANGED <<phase, pool, owner, host, contested>>
        /\ \A k \in Conns : status'[k] = status[k]
                             \/ (IsOpen(k) /\ status'[k] = "closed")
        /\ \A u \in Tasks : Creating(u)' => Creating(u)
    BY <1>13 DEF LoseRequest, Creating, IsOpen, PoolInv, TypeOK
  <2> QED  BY <1>0, <2>1, <2>2, QuietPool
<1>14. ASSUME NEW c \in Conns, ConnectionLost(c) PROVE PoolInv'
  <2>1. Staged'
    BY <1>14, ConstantFacts
    DEF ConnectionLost, Staged, PoolInv, InFlight, TypeOK, Tasks
  <2>2. /\ UNCHANGED <<phase, pool, owner, host, contested>>
        /\ \A k \in Conns : status'[k] = status[k]
                             \/ (IsOpen(k) /\ status'[k] = "closed")
        /\ \A u \in Tasks : Creating(u)' => Creating(u)
    BY <1>14 DEF ConnectionLost, Creating, IsOpen, PoolInv, TypeOK
  <2> QED  BY <1>0, <2>1, <2>2, QuietPool
<1>15. ASSUME StartupDone PROVE PoolInv'
  <2>1. Staged'
    BY <1>15 DEF StartupDone, Staged, PoolInv, InFlight, TypeOK, Tasks
  <2>2. CreatorsContest' /\ PoolKeys' /\ OpenIsPooled'
    BY <1>15 DEF StartupDone, PoolInv, CreatorsContest, PoolKeys, OpenIsPooled,
                 Creating, IsOpen
  <2> QED  BY <1>0, <2>1, <2>2 DEF PoolInv
<1>16. ASSUME Shutdown PROVE PoolInv'
  <2> USE <1>16 DEF Shutdown, PoolInv
  <2>1. Staged'
    BY DEF Staged, InFlight
  <2>2. CreatorsContest' /\ PoolKeys'
    BY ConstantFacts DEF CreatorsContest, PoolKeys, IsOpen, Creating, TypeOK
  <2>3. OpenIsPooled'
    BY DEF OpenIsPooled, IsOpen, TypeOK
  <2> QED  BY <1>0, <2>1, <2>2, <2>3
<1>17. ASSUME UNCHANGED vars PROVE PoolInv'
  BY <1>17 DEF vars, PoolInv, TypeOK, Staged, CreatorsContest, PoolKeys,
               OpenIsPooled, Creating, IsOpen, InFlight
<1> QED
  BY <1>1, <1>2, <1>3, <1>4, <1>5, <1>6, <1>7, <1>8, <1>9, <1>10, <1>11,
     <1>12, <1>13, <1>14, <1>15, <1>16, <1>17, NextIsStep DEF Step

(* No connection is leaked unless two coroutines created one for its host. *)
THEOREM PoolCorrect == Spec => []OpenIsPooled
<1>1. PoolInv => OpenIsPooled
  BY DEF PoolInv
<1> QED  BY <1>1, InitPool, NextPool, PTL DEF Spec

(* No live connection is dropped from the pool, except by a host's         *)
(* coroutines racing each other or by the end of the application.          *)
THEOREM LiveConnectionsKept == Spec => LiveIsKept
<1>1. ASSUME PoolInv, [Next]_vars, NEW h \in Hosts,
             IsOpen(pool[h]), pool'[h] # pool[h]
      PROVE  phase' = "stopped" \/ h \in contested
  <2>1. ASSUME NEW t \in Tasks, NEW k \in Conns, Store(t, k)
        PROVE  h \in contested
    <3>1. host[t] = h /\ Creating(t)
      BY <1>1, <2>1 DEF Store, Creating, PoolInv, TypeOK
    <3> QED  BY <1>1, <3>1 DEF PoolInv, CreatorsContest
  <2>2. CASE UNCHANGED pool
    BY <1>1, <2>2
  <2>3. \/ UNCHANGED pool
        \/ \E t \in Tasks, k \in Conns : Store(t, k)
        \/ phase' = "stopped"
    <3>1. CASE Step
      BY <3>1 DEF Step, StartConnecting, StarterConnected, ConnectTimeout,
           ConnectError, CallReuses, CallCreates, CallConnected, RunReply,
           RunTimeout, RunLost, RunRefused, RemoteExecute, LoseRequest,
           ConnectionLost, StartupDone, Shutdown, connVars, Tasks
    <3> QED  BY <1>1, <3>1, NextIsStep DEF vars
  <2> QED  BY <2>1, <2>2, <2>3
<1>2. PoolInv /\ [Next]_vars =>
        [\A h \in Hosts :
            IsOpen(pool[h]) /\ pool'[h] # pool[h] =>
                phase' = "stopped" \/ h \in contested]_vars
  BY <1>1
<1> QED  BY <1>2, InitPool, NextPool, PTL DEF Spec, LiveIsKept

--------------------------------------------------------------------------------
(***************************************************************************)
(* The commands.  At most one execution follows from where a command can   *)
(* be: on the wire only after it was sent and until it is executed.        *)
(***************************************************************************)

Sent ==
    \A c \in Calls :
        /\ pc[c] \in {"idle", "connecting"} => via[c] = NoConn
        /\ pc[c] \in {"running", "answered"} => via[c] # NoConn
        /\ c \in wire => via[c] # NoConn /\ executed[c] = 0
        /\ executed[c] # 0 => via[c] # NoConn /\ executed[c] = 1
        /\ pc[c] = "answered" => executed[c] = 1

(* The connection of a command is one that was opened to its host.         *)
ViaOwnHost ==
    \A c \in Calls : via[c] # NoConn =>
        owner[via[c]] = host[c] /\ status[via[c]] # "unused"

CallInv == PoolInv /\ Sent /\ ViaOwnHost

(* Nothing is sent initially.                                              *)
LEMMA InitCall == Init => CallInv
<1>1. Init => Sent /\ ViaOwnHost
  BY ConstantFacts DEF Init, Sent, ViaOwnHost, Tasks
<1> QED  BY <1>1, InitPool DEF CallInv

(* Every step keeps the invariant of the commands.                         *)
LEMMA NextCall == CallInv /\ [Next]_vars => CallInv'
<1> SUFFICES ASSUME CallInv, [Next]_vars PROVE CallInv'
  OBVIOUS
<1>0. PoolInv' /\ TypeOK' /\ TypeOK /\ PoolKeys
  BY NextPool DEF CallInv, PoolInv
<1> SUFFICES Sent' /\ ViaOwnHost'
  BY <1>0 DEF CallInv
<1> USE DEF connVars, wireVars
<1>1. ASSUME NEW s \in Starters, StartConnecting(s)
      PROVE  Sent' /\ ViaOwnHost'
  <2>1. Sent'
    BY <1>0, <1>1, ConstantFacts
    DEF StartConnecting, CallInv, Sent, TypeOK, Tasks
  <2>2. ViaOwnHost'
    BY <1>0, <1>1, ConstantFacts
    DEF StartConnecting, CallInv, ViaOwnHost, PoolKeys, TypeOK, Tasks
  <2> QED  BY <2>1, <2>2
<1>2. ASSUME NEW s \in Starters, StarterConnected(s)
      PROVE  Sent' /\ ViaOwnHost'
  <2>1. Sent'
    BY <1>0, <1>2, ConstantFacts
    DEF StarterConnected, Store, CallInv, Sent, TypeOK, Tasks
  <2>2. ViaOwnHost'
    BY <1>0, <1>2, ConstantFacts
    DEF StarterConnected, Store, CallInv, ViaOwnHost, PoolKeys, TypeOK, Tasks
  <2> QED  BY <2>1, <2>2
<1>3. ASSUME NEW t \in Tasks, ConnectTimeout(t) PROVE Sent' /\ ViaOwnHost'
  <2>1. Sent'
    BY <1>0, <1>3, ConstantFacts
    DEF ConnectTimeout, CallInv, Sent, TypeOK, Tasks
  <2>2. ViaOwnHost'
    BY <1>0, <1>3, ConstantFacts
    DEF ConnectTimeout, CallInv, ViaOwnHost, PoolKeys, TypeOK, Tasks
  <2> QED  BY <2>1, <2>2
<1>4. ASSUME NEW t \in Tasks, ConnectError(t) PROVE Sent' /\ ViaOwnHost'
  <2>1. Sent'
    BY <1>0, <1>4, ConstantFacts DEF ConnectError, CallInv, Sent, TypeOK, Tasks
  <2>2. ViaOwnHost'
    BY <1>0, <1>4, ConstantFacts
    DEF ConnectError, CallInv, ViaOwnHost, PoolKeys, TypeOK, Tasks
  <2> QED  BY <2>1, <2>2
<1>5. ASSUME NEW c \in Calls, CallReuses(c) PROVE Sent' /\ ViaOwnHost'
  <2>1. Sent'
    BY <1>0, <1>5, ConstantFacts
    DEF CallReuses, Send, IsOpen, CallInv, Sent, TypeOK, Tasks
  <2>2. ViaOwnHost'
    BY <1>0, <1>5, ConstantFacts
    DEF CallReuses, Send, IsOpen, CallInv, ViaOwnHost, PoolKeys, TypeOK,
        Tasks
  <2> QED  BY <2>1, <2>2
<1>6. ASSUME NEW c \in Calls, CallCreates(c) PROVE Sent' /\ ViaOwnHost'
  <2>1. Sent'
    BY <1>0, <1>6, ConstantFacts DEF CallCreates, CallInv, Sent, TypeOK, Tasks
  <2>2. ViaOwnHost'
    BY <1>0, <1>6, ConstantFacts
    DEF CallCreates, CallInv, ViaOwnHost, PoolKeys, TypeOK, Tasks
  <2> QED  BY <2>1, <2>2
<1>7. ASSUME NEW c \in Calls, CallConnected(c) PROVE Sent' /\ ViaOwnHost'
  <2>1. Sent'
    BY <1>0, <1>7, ConstantFacts
    DEF CallConnected, Store, Send, CallInv, Sent, TypeOK, Tasks
  <2>2. ViaOwnHost'
    BY <1>0, <1>7, ConstantFacts
    DEF CallConnected, Store, Send, CallInv, ViaOwnHost, PoolKeys, TypeOK,
        Tasks
  <2> QED  BY <2>1, <2>2
<1>8. ASSUME NEW c \in Calls, RunReply(c) PROVE Sent' /\ ViaOwnHost'
  <2>1. Sent'
    BY <1>0, <1>8, ConstantFacts DEF RunReply, CallInv, Sent, TypeOK, Tasks
  <2>2. ViaOwnHost'
    BY <1>0, <1>8, ConstantFacts
    DEF RunReply, CallInv, ViaOwnHost, PoolKeys, TypeOK, Tasks
  <2> QED  BY <2>1, <2>2
<1>9. ASSUME NEW c \in Calls, RunTimeout(c) PROVE Sent' /\ ViaOwnHost'
  <2>1. Sent'
    BY <1>0, <1>9, ConstantFacts DEF RunTimeout, CallInv, Sent, TypeOK, Tasks
  <2>2. ViaOwnHost'
    BY <1>0, <1>9, ConstantFacts
    DEF RunTimeout, CallInv, ViaOwnHost, PoolKeys, TypeOK, Tasks
  <2> QED  BY <2>1, <2>2
<1>10. ASSUME NEW c \in Calls, RunLost(c) PROVE Sent' /\ ViaOwnHost'
  <2>1. Sent'
    BY <1>0, <1>10, ConstantFacts DEF RunLost, CallInv, Sent, TypeOK, Tasks
  <2>2. ViaOwnHost'
    BY <1>0, <1>10, ConstantFacts
    DEF RunLost, CallInv, ViaOwnHost, PoolKeys, TypeOK, Tasks
  <2> QED  BY <2>1, <2>2
<1>11. ASSUME NEW c \in Calls, RunRefused(c) PROVE Sent' /\ ViaOwnHost'
  <2>1. Sent'
    BY <1>0, <1>11, ConstantFacts DEF RunRefused, CallInv, Sent, TypeOK, Tasks
  <2>2. ViaOwnHost'
    BY <1>0, <1>11, ConstantFacts
    DEF RunRefused, CallInv, ViaOwnHost, PoolKeys, TypeOK, Tasks
  <2> QED  BY <2>1, <2>2
<1>12. ASSUME NEW c \in Calls, RemoteExecute(c) PROVE Sent' /\ ViaOwnHost'
  <2>1. Sent'
    BY <1>0, <1>12, ConstantFacts
    DEF RemoteExecute, CallInv, Sent, TypeOK, Tasks
  <2>2. ViaOwnHost'
    BY <1>0, <1>12, ConstantFacts
    DEF RemoteExecute, CallInv, ViaOwnHost, PoolKeys, TypeOK, Tasks
  <2> QED  BY <2>1, <2>2
<1>13. ASSUME NEW c \in Calls, LoseRequest(c) PROVE Sent' /\ ViaOwnHost'
  <2>1. Sent'
    BY <1>0, <1>13, ConstantFacts DEF LoseRequest, CallInv, Sent, TypeOK, Tasks
  <2>2. ViaOwnHost'
    BY <1>0, <1>13, ConstantFacts
    DEF LoseRequest, CallInv, ViaOwnHost, PoolKeys, TypeOK, Tasks
  <2> QED  BY <2>1, <2>2
<1>14. ASSUME NEW c \in Conns, ConnectionLost(c) PROVE Sent' /\ ViaOwnHost'
  <2>1. Sent'
    BY <1>0, <1>14, ConstantFacts
    DEF ConnectionLost, IsOpen, CallInv, Sent, TypeOK, Tasks
  <2>2. ViaOwnHost'
    BY <1>0, <1>14, ConstantFacts
    DEF ConnectionLost, IsOpen, CallInv, ViaOwnHost, PoolKeys, TypeOK, Tasks
  <2> QED  BY <2>1, <2>2
<1>15. ASSUME StartupDone PROVE Sent' /\ ViaOwnHost'
  <2>1. Sent'
    BY <1>0, <1>15, ConstantFacts DEF StartupDone, CallInv, Sent, TypeOK, Tasks
  <2>2. ViaOwnHost'
    BY <1>0, <1>15, ConstantFacts
    DEF StartupDone, CallInv, ViaOwnHost, PoolKeys, TypeOK, Tasks
  <2> QED  BY <2>1, <2>2
<1>16. ASSUME Shutdown PROVE Sent' /\ ViaOwnHost'
  <2>1. Sent'
    BY <1>0, <1>16, ConstantFacts DEF Shutdown, CallInv, Sent, TypeOK, Tasks
  <2>2. ViaOwnHost'
    BY <1>0, <1>16, ConstantFacts
    DEF Shutdown, CallInv, ViaOwnHost, PoolKeys, TypeOK, Tasks
  <2> QED  BY <2>1, <2>2
<1>17. ASSUME UNCHANGED vars PROVE Sent' /\ ViaOwnHost'
  BY <1>17 DEF vars, CallInv, Sent, ViaOwnHost
<1> QED
  BY <1>1, <1>2, <1>3, <1>4, <1>5, <1>6, <1>7, <1>8, <1>9, <1>10, <1>11,
     <1>12, <1>13, <1>14, <1>15, <1>16, <1>17, NextIsStep DEF Step

(* A remote host runs a command at most once, over a connection of its     *)
(* own, and never one its caller was told could not be sent.               *)
THEOREM CallsCorrect ==
    Spec => [](ExecutedAtMostOnce /\ ViaOwnHost /\ UnsentStaysUnsent)
<1>1. CallInv => ExecutedAtMostOnce /\ ViaOwnHost /\ UnsentStaysUnsent
  BY DEF CallInv, PoolInv, TypeOK, Sent, ExecutedAtMostOnce, UnsentStaysUnsent
<1> QED  BY <1>1, InitCall, NextCall, PTL DEF Spec

(* A command is sent once, over an open connection of its own host.        *)
THEOREM OwnHostCorrect == Spec => SentToOwnHost
<1>1. ASSUME CallInv, [Next]_vars, NEW c \in Calls, via'[c] # via[c]
      PROVE  via[c] = NoConn /\ owner'[via'[c]] = host[c]
             /\ status'[via'[c]] = "open"
  <2> USE DEF CallInv, PoolInv, TypeOK
  <2>1. ASSUME NEW d \in Calls, CallReuses(d)
        PROVE  /\ c = d /\ via[c] = NoConn /\ via'[c] = pool[host[c]]
               /\ IsOpen(via'[c]) /\ UNCHANGED <<status, owner>>
    <3>1. via' = [via EXCEPT ![d] = pool[host[d]]] /\ pc[d] = "idle"
          /\ IsOpen(pool[host[d]]) /\ UNCHANGED <<status, owner>>
      BY <2>1 DEF CallReuses, Send, connVars
    <3>2. c = d
      BY <1>1, <3>1
    <3> QED  BY <1>1, <3>1, <3>2 DEF Sent
  <2>2. ASSUME NEW d \in Calls, CallReuses(d)
        PROVE  /\ via[c] = NoConn /\ owner'[via'[c]] = host[c]
               /\ status'[via'[c]] = "open"
    BY <1>1, <2>1, <2>2 DEF IsOpen, PoolKeys, Tasks
  <2>3. ASSUME NEW d \in Calls, CallConnected(d)
        PROVE  /\ via[c] = NoConn /\ owner'[via'[c]] = host[c]
               /\ status'[via'[c]] = "open"
    <3>1. PICK k \in Conns : Store(d, k) /\ Send(d, k)
      BY <2>3 DEF CallConnected
    <3>2. /\ pc[d] = "connecting" /\ via' = [via EXCEPT ![d] = k]
          /\ status' = [status EXCEPT ![k] = "open"]
          /\ owner' = [owner EXCEPT ![k] = host[d]]
      BY <3>1 DEF Store, Send
    <3>3. c = d
      BY <1>1, <3>2
    <3> QED  BY <1>1, <3>2, <3>3 DEF Sent
  <2>4. \/ UNCHANGED via
        \/ \E d \in Calls : CallReuses(d) \/ CallConnected(d)
    <3>1. CASE Step
      BY <3>1 DEF Step, StartConnecting, StarterConnected, ConnectTimeout,
           ConnectError, CallCreates, RunReply, RunTimeout, RunLost,
           RunRefused, RemoteExecute, LoseRequest, ConnectionLost,
           StartupDone, Shutdown
    <3> QED  BY <1>1, <3>1, NextIsStep DEF vars
  <2> QED  BY <1>1, <2>2, <2>3, <2>4
<1>2. CallInv /\ [Next]_vars =>
        [\A c \in Calls : via'[c] # via[c] =>
            /\ via[c] = NoConn
            /\ owner'[via'[c]] = host[c]
            /\ status'[via'[c]] = "open"]_vars
  BY <1>1
<1> QED  BY <1>2, InitCall, NextCall, PTL DEF Spec, SentToOwnHost

--------------------------------------------------------------------------------
(***************************************************************************)
(* The pool implements RemoteCall, up to fairness.                         *)
(***************************************************************************)

Outcomes == [c \in Calls |-> Outcome(c)]

(* A step that changes no outcome and executes nothing is a stutter.       *)
LEMMA Stutter ==
    ASSUME UNCHANGED executed, \A c \in Calls : Outcome(c)' = Outcome(c)
    PROVE  UNCHANGED Abstract!vars
  BY DEF Abstract!vars

(* Only the command that steps changes its outcome.                        *)
LEMMA OneOutcome ==
    ASSUME NEW c \in Calls, NEW o, Outcome(c)' = o,
           \A d \in Calls \ {c} : Outcome(d)' = Outcome(d)
    PROVE  Outcomes' = [Outcomes EXCEPT ![c] = o]
  BY DEF Outcomes

(* Initial states map to initial states.                                   *)
LEMMA InitAbstract == Init => Abstract!Init
  BY ConstantFacts DEF Init, Abstract!Init, Outcome, InFlight, Tasks

(* Every step maps to a step of the abstract command or to a stutter.      *)
LEMMA NextAbstract ==
    CallInv /\ [Next]_vars => [Abstract!Next]_(Abstract!vars)
<1> SUFFICES ASSUME CallInv, [Next]_vars
             PROVE  Abstract!Next \/ UNCHANGED Abstract!vars
  OBVIOUS
<1>0. TypeOK /\ Sent
  BY DEF CallInv, PoolInv
<1> USE DEF connVars, wireVars
<1>1. ASSUME NEW s \in Starters, StartConnecting(s)
      PROVE  UNCHANGED Abstract!vars
  <2>1. UNCHANGED executed /\ \A d \in Calls : Outcome(d)' = Outcome(d)
    BY <1>0, <1>1, ConstantFacts
    DEF StartConnecting, Outcome, InFlight, TypeOK, Tasks
  <2> QED  BY <2>1, Stutter
<1>2. ASSUME NEW s \in Starters, StarterConnected(s)
      PROVE  UNCHANGED Abstract!vars
  <2>1. UNCHANGED executed /\ \A d \in Calls : Outcome(d)' = Outcome(d)
    BY <1>0, <1>2, ConstantFacts
    DEF StarterConnected, Store, Outcome, InFlight, TypeOK, Tasks
  <2> QED  BY <2>1, Stutter
<1>3. ASSUME NEW c \in Calls, LoseRequest(c) PROVE UNCHANGED Abstract!vars
  <2>1. UNCHANGED executed /\ \A d \in Calls : Outcome(d)' = Outcome(d)
    BY <1>0, <1>3, ConstantFacts
    DEF LoseRequest, Outcome, InFlight, TypeOK, Tasks
  <2> QED  BY <2>1, Stutter
<1>4. ASSUME NEW c \in Conns, ConnectionLost(c) PROVE UNCHANGED Abstract!vars
  <2>1. UNCHANGED executed /\ \A d \in Calls : Outcome(d)' = Outcome(d)
    BY <1>0, <1>4, ConstantFacts
    DEF ConnectionLost, Outcome, InFlight, TypeOK, Tasks
  <2> QED  BY <2>1, Stutter
<1>5. ASSUME StartupDone PROVE UNCHANGED Abstract!vars
  <2>1. UNCHANGED executed /\ \A d \in Calls : Outcome(d)' = Outcome(d)
    BY <1>0, <1>5, ConstantFacts
    DEF StartupDone, Outcome, InFlight, TypeOK, Tasks
  <2> QED  BY <2>1, Stutter
<1>6. ASSUME Shutdown PROVE UNCHANGED Abstract!vars
  <2>1. UNCHANGED executed /\ \A d \in Calls : Outcome(d)' = Outcome(d)
    BY <1>0, <1>6, ConstantFacts DEF Shutdown, Outcome, InFlight, TypeOK, Tasks
  <2> QED  BY <2>1, Stutter
<1>7. ASSUME NEW c \in Calls, CallReuses(c) PROVE Abstract!Next
  <2>1. /\ Outcome(c) = "idle" /\ Outcome(c)' = "pending"
        /\ \A d \in Calls \ {c} : Outcome(d)' = Outcome(d)
        /\ UNCHANGED executed
    BY <1>0, <1>7, ConstantFacts
    DEF CallReuses, Send, IsOpen, Outcome, InFlight, Sent, TypeOK, Tasks
  <2>2. Outcomes' = [Outcomes EXCEPT ![c] = "pending"] /\ Outcomes[c] = "idle"
    BY <2>1, OneOutcome DEF Outcomes
  <2>3. Abstract!Begin(c)
    BY <1>0, <1>7, <2>1, <2>2
    DEF Abstract!Begin, Outcomes, CallReuses, Sent, TypeOK
  <2> QED  BY <2>3 DEF Abstract!Next, Abstract!End
<1>8. ASSUME NEW c \in Calls, CallCreates(c) PROVE Abstract!Next
  <2>1. /\ Outcome(c) = "idle" /\ Outcome(c)' = "pending"
        /\ \A d \in Calls \ {c} : Outcome(d)' = Outcome(d)
        /\ UNCHANGED executed
    BY <1>0, <1>8, ConstantFacts
    DEF CallCreates, Outcome, InFlight, Sent, TypeOK, Tasks
  <2>2. Outcomes' = [Outcomes EXCEPT ![c] = "pending"] /\ Outcomes[c] = "idle"
    BY <2>1, OneOutcome DEF Outcomes
  <2>3. Abstract!Begin(c)
    BY <1>0, <1>8, <2>1, <2>2
    DEF Abstract!Begin, Outcomes, CallCreates, Sent, TypeOK
  <2> QED  BY <2>3 DEF Abstract!Next, Abstract!End
<1>9. ASSUME NEW c \in Calls, RunReply(c) PROVE Abstract!Next
  <2>1. /\ Outcome(c) = "pending" /\ Outcome(c)' = "answered"
        /\ \A d \in Calls \ {c} : Outcome(d)' = Outcome(d)
        /\ UNCHANGED executed
    BY <1>0, <1>9, ConstantFacts
    DEF RunReply, Outcome, InFlight, Sent, TypeOK, Tasks
  <2>2. /\ Outcomes' = [Outcomes EXCEPT ![c] = "answered"]
        /\ Outcomes[c] = "pending"
    BY <2>1, OneOutcome DEF Outcomes
  <2>3. Abstract!Answer(c)
    BY <1>0, <1>9, <2>1, <2>2
    DEF Abstract!Answer, Outcomes, RunReply, Sent, TypeOK
  <2> QED  BY <2>3 DEF Abstract!Next, Abstract!End
<1>10. ASSUME NEW c \in Calls, RunTimeout(c) PROVE Abstract!Next
  <2>1. /\ Outcome(c) = "pending" /\ Outcome(c)' = "unknown"
        /\ \A d \in Calls \ {c} : Outcome(d)' = Outcome(d)
        /\ UNCHANGED executed
    BY <1>0, <1>10, ConstantFacts
    DEF RunTimeout, Outcome, InFlight, Sent, TypeOK, Tasks
  <2>2. /\ Outcomes' = [Outcomes EXCEPT ![c] = "unknown"]
        /\ Outcomes[c] = "pending"
    BY <2>1, OneOutcome DEF Outcomes
  <2>3. Abstract!GiveUp(c)
    BY <1>0, <1>10, <2>1, <2>2
    DEF Abstract!GiveUp, Outcomes, RunTimeout, Sent, TypeOK
  <2> QED  BY <2>3 DEF Abstract!Next, Abstract!End
<1>11. ASSUME NEW c \in Calls, RunLost(c) PROVE Abstract!Next
  <2>1. /\ Outcome(c) = "pending" /\ Outcome(c)' = "unknown"
        /\ \A d \in Calls \ {c} : Outcome(d)' = Outcome(d)
        /\ UNCHANGED executed
    BY <1>0, <1>11, ConstantFacts
    DEF RunLost, Outcome, InFlight, Sent, TypeOK, Tasks
  <2>2. /\ Outcomes' = [Outcomes EXCEPT ![c] = "unknown"]
        /\ Outcomes[c] = "pending"
    BY <2>1, OneOutcome DEF Outcomes
  <2>3. Abstract!GiveUp(c)
    BY <1>0, <1>11, <2>1, <2>2
    DEF Abstract!GiveUp, Outcomes, RunLost, Sent, TypeOK
  <2> QED  BY <2>3 DEF Abstract!Next, Abstract!End
<1>12. ASSUME NEW c \in Calls, RunRefused(c) PROVE Abstract!Next
  <2>1. /\ Outcome(c) = "pending" /\ Outcome(c)' = "unknown"
        /\ \A d \in Calls \ {c} : Outcome(d)' = Outcome(d)
        /\ UNCHANGED executed
    BY <1>0, <1>12, ConstantFacts
    DEF RunRefused, Outcome, InFlight, Sent, TypeOK, Tasks
  <2>2. /\ Outcomes' = [Outcomes EXCEPT ![c] = "unknown"]
        /\ Outcomes[c] = "pending"
    BY <2>1, OneOutcome DEF Outcomes
  <2>3. Abstract!GiveUp(c)
    BY <1>0, <1>12, <2>1, <2>2
    DEF Abstract!GiveUp, Outcomes, RunRefused, Sent, TypeOK
  <2> QED  BY <2>3 DEF Abstract!Next, Abstract!End
<1>13. ASSUME NEW c \in Calls, ConnectError(c) PROVE Abstract!Next
  <2>1. /\ Outcome(c) = "pending" /\ Outcome(c)' = "refused"
        /\ \A d \in Calls \ {c} : Outcome(d)' = Outcome(d)
        /\ UNCHANGED executed
    BY <1>0, <1>13, ConstantFacts
    DEF ConnectError, Outcome, InFlight, Sent, TypeOK, Tasks
  <2>2. /\ Outcomes' = [Outcomes EXCEPT ![c] = "refused"]
        /\ Outcomes[c] = "pending"
    BY <2>1, OneOutcome DEF Outcomes
  <2>3. Abstract!Refuse(c)
    BY <1>0, <1>13, <2>1, <2>2
    DEF Abstract!Refuse, Outcomes, ConnectError, Sent, TypeOK
  <2> QED  BY <2>3 DEF Abstract!Next, Abstract!End
<1>14. ASSUME NEW c \in Calls, CallConnected(c) PROVE UNCHANGED Abstract!vars
  <2>1. UNCHANGED executed /\ \A d \in Calls : Outcome(d)' = Outcome(d)
    BY <1>0, <1>14, ConstantFacts
    DEF CallConnected, Store, Send, Outcome, InFlight, TypeOK, Tasks
  <2> QED  BY <2>1, Stutter
<1>15. ASSUME NEW t \in Tasks, ConnectTimeout(t)
      PROVE  Abstract!Next \/ UNCHANGED Abstract!vars
  <2>1. CASE t \in Calls /\ pc'[t] = "failed"
    <3>1. /\ Outcome(t) = "pending" /\ Outcome(t)' = "refused"
          /\ \A d \in Calls \ {t} : Outcome(d)' = Outcome(d)
          /\ UNCHANGED executed
      BY <1>0, <1>15, <2>1
      DEF ConnectTimeout, Outcome, InFlight, Sent, TypeOK, Tasks
    <3>2. /\ Outcomes' = [Outcomes EXCEPT ![t] = "refused"]
          /\ Outcomes[t] = "pending"
      BY <2>1, <3>1, OneOutcome DEF Outcomes
    <3>3. Abstract!Refuse(t)
      BY <1>0, <1>15, <2>1, <3>1, <3>2
      DEF Abstract!Refuse, Outcomes, ConnectTimeout, Sent, TypeOK
    <3> QED  BY <2>1, <3>3 DEF Abstract!Next, Abstract!End
  <2>2. CASE ~ (t \in Calls /\ pc'[t] = "failed")
    <3>1. UNCHANGED executed /\ \A d \in Calls : Outcome(d)' = Outcome(d)
      BY <1>0, <1>15, <2>2, ConstantFacts
      DEF ConnectTimeout, Outcome, InFlight, TypeOK, Tasks
    <3> QED  BY <3>1, Stutter
  <2> QED  BY <2>1, <2>2
<1>16. ASSUME NEW c \in Calls, RemoteExecute(c) PROVE Abstract!Next
  <2>1. /\ \A d \in Calls : Outcome(d)' = Outcome(d)
        /\ executed[c] = 0 /\ via[c] # NoConn
        /\ executed' = [executed EXCEPT ![c] = 1]
    <3>1. UNCHANGED <<pc, via>>
      BY <1>16 DEF RemoteExecute
    <3>2. \A d \in Calls : Outcome(d)' = Outcome(d)
      BY <3>1 DEF Outcome, InFlight
    <3>3. /\ executed[c] = 0 /\ via[c] # NoConn
          /\ executed' = [executed EXCEPT ![c] = 1]
      <4>1. executed[c] = 0 /\ via[c] # NoConn
        BY <1>0, <1>16 DEF RemoteExecute, Sent
      <4>2. executed' = [executed EXCEPT ![c] = executed[c] + 1]
        BY <1>16 DEF RemoteExecute
      <4>3. executed[c] + 1 = 1
        BY <4>1
      <4> QED  BY <4>1, <4>2, <4>3
    <3> QED  BY <3>2, <3>3
  <2>2. Outcome(c) \in {"pending", "unknown"}
    <3>1. pc[c] \notin {"idle", "connecting", "answered"}
      BY <1>0, <2>1 DEF Sent, TypeOK
    <3>2. CASE pc[c] = "running"
      BY <3>2 DEF Outcome, InFlight
    <3>3. CASE pc[c] # "running"
      <4>1. Outcome(c) = "unknown"
        BY <2>1, <3>1, <3>3 DEF Outcome, InFlight
      <4> QED  BY <4>1
    <3> QED  BY <3>2, <3>3
  <2>3. Abstract!Effect(c)
    BY <2>1, <2>2 DEF Abstract!Effect
  <2> QED  BY <2>3 DEF Abstract!Next
<1>17. ASSUME NEW s \in Starters, ConnectError(s) PROVE UNCHANGED Abstract!vars
  <2>1. UNCHANGED executed /\ \A d \in Calls : Outcome(d)' = Outcome(d)
    BY <1>0, <1>17, ConstantFacts
    DEF ConnectError, Outcome, InFlight, TypeOK, Tasks
  <2> QED  BY <2>1, Stutter
<1>18. ASSUME UNCHANGED vars PROVE UNCHANGED Abstract!vars
  <2>1. UNCHANGED <<pc, via, executed>>
    BY <1>18 DEF vars
  <2>2. \A d \in Calls : Outcome(d)' = Outcome(d)
    BY <2>1 DEF Outcome, InFlight
  <2> QED  BY <2>1, <2>2, Stutter
<1> QED
  BY <1>1, <1>2, <1>3, <1>4, <1>5, <1>6, <1>7, <1>8, <1>9, <1>10,
     <1>11, <1>12, <1>13, <1>14, <1>15, <1>16, <1>17, <1>18, NextIsStep
  DEF Step, Tasks

(* The safety part of ImplementsRemoteCall, for any instance.              *)
THEOREM RefinesRemoteCall ==
    Spec => Abstract!Init /\ [][Abstract!Next]_(Abstract!vars)
  BY InitCall, NextCall, InitAbstract, NextAbstract, PTL DEF Spec

--------------------------------------------------------------------------------
(***************************************************************************)
(* The host directory that _create_connection looks the address of a host  *)
(* up in, for any hosts, addresses and settings                            *)
(***************************************************************************)

(* An address points to a host that has it, or had it before it was given  *)
(* again.                                                                  *)
PointsToHost ==
    \A i \in Ips : ip_to_domains[i] # NoDomain =>
        \/ i \in former[ip_to_domains[i]]
        \/ /\ domain_to_ips[ip_to_domains[i]] # NoDomain
           /\ i \in domain_to_ips[ip_to_domains[i]]

(* An address of a host points to some host until something is removed.    *)
IpsPoint ==
    ~ removed =>
        \A d \in Domains :
            \A i \in IpsOf(d) : ip_to_domains[i] # NoDomain

MapInv == DMTypeOK /\ PointsToHost /\ IpsPoint

(* One entry keeps the invariant, whether it comes from a setting or from  *)
(* add_mapping.                                                            *)
LEMMA EntryKeeps ==
    ASSUME MapInv, NEW d \in Domains, NEW ips \in SUBSET Ips,
           UpdateEntry(d, ips), UNCHANGED removed
    PROVE  /\ PointsToHost' /\ IpsPoint'
           /\ domain_to_ips' \in [Domains -> (SUBSET Ips) \cup {NoDomain}]
           /\ ip_to_domains' \in [Ips -> Domains \cup {NoDomain}]
           /\ former' \in [Domains -> SUBSET Ips]
<1> USE DMAssumption DEF MapInv, DMTypeOK, UpdateEntry
<1>1. PointsToHost'
    BY DEF PointsToHost, IpsOf
<1>2. IpsPoint'
    BY DEF IpsPoint, IpsOf
<1>3. former' \in [Domains -> SUBSET Ips]
    BY DEF IpsOf
<1> QED
    BY <1>1, <1>2, <1>3

(* The invariant holds at first, *)
LEMMA InitMap == DMInit => MapInv
  BY DMAssumption
  DEF DMInit, MapInv, DMTypeOK, PointsToHost,
         IpsPoint, IpsOf

(* and every step keeps it. *)
LEMMA NextMap == MapInv /\ [DMNext]_dmVars => MapInv'
<1> SUFFICES ASSUME MapInv, [DMNext]_dmVars PROVE MapInv'
    OBVIOUS
<1>1. CASE Populate
  <2>1. /\ Head(todo) \in Entries
        /\ Tail(todo) \in Seq(Entries)
    BY <1>1 DEF Populate, MapInv, DMTypeOK
  <2>2. Head(todo)[1] \in Domains /\ Head(todo)[2] \in SUBSET Ips
    BY <2>1 DEF Entries
  <2> QED
    BY <1>1, <2>1, <2>2, EntryKeeps DEF Populate, MapInv, DMTypeOK
<1>2. ASSUME NEW d \in Domains, NEW ips \in SUBSET Ips,
             AddMapping(d, ips)
      PROVE  MapInv'
    BY <1>2, EntryKeeps DEF AddMapping, MapInv, DMTypeOK
<1>3. ASSUME NEW d \in Domains, RemoveDomain(d) PROVE MapInv'
    BY <1>3, DMAssumption
       DEF RemoveDomain, MapInv, DMTypeOK,
           PointsToHost, IpsPoint, IpsOf
<1>4. ASSUME NEW i \in Ips, RemoveIp(i) PROVE MapInv'
    BY <1>4, DMAssumption
       DEF RemoveIp, MapInv, DMTypeOK,
           PointsToHost, IpsPoint, IpsOf
<1>5. CASE UNCHANGED dmVars
    BY <1>5 DEF dmVars, MapInv, DMTypeOK, PointsToHost, IpsPoint,
                IpsOf
<1> QED
    BY <1>1, <1>2, <1>3, <1>4, <1>5 DEF DMNext

(* The two dictionaries agree in both directions, as far as they can.      *)
THEOREM MapperCorrect ==
    DMSpec =>
        [](DMTypeOK /\ ResolvedHostHasIp /\ HostIpsResolve)
<1>1. MapInv => ResolvedHostHasIp
    BY DMAssumption
       DEF MapInv, DMTypeOK, PointsToHost,
           ResolvedHostHasIp, ResolveIp, IpsOf
<1>2. MapInv => HostIpsResolve
  <2> SUFFICES ASSUME MapInv, ~ removed,
                      NEW d \in Domains, NEW i \in IpsOf(d)
               PROVE  \/ ResolveIp(i) # NoDomain
                      \/ /\ i \in former[ip_to_domains[i]]
                         /\ IpsOf(ip_to_domains[i]) = {}
      BY DEF HostIpsResolve
  <2>1. i \in Ips /\ ip_to_domains[i] # NoDomain
    BY DEF MapInv, DMTypeOK, IpsPoint, IpsOf
  <2>2. i \in IpsOf(ip_to_domains[i]) \cup former[ip_to_domains[i]]
    BY <2>1 DEF MapInv, PointsToHost, IpsOf
  <2> QED
    BY <2>1, <2>2 DEF ResolveIp
<1>3. MapInv => DMTypeOK
    BY DEF MapInv
<1> QED
    BY InitMap, NextMap, <1>1, <1>2, <1>3, PTL DEF DMSpec

(* They do: a host that is shown for an address has it or had it, and an   *)
(* address of a host is shown some host, until something is removed.       *)
THEOREM MappingsCorrect ==
    DMSpec => []MappingsAgree
<1>1. ResolvedHostHasIp /\ HostIpsResolve => MappingsAgree
    BY DEF MappingsAgree
<1> QED
    BY <1>1, MapperCorrect, PTL

(* The dictionaries are well typed.                                        *)
THEOREM MapperTyped ==
    DMSpec => []DMTypeOK
    BY MapperCorrect, PTL

(* The host of an entry is known, with the addresses of the entry but for  *)
(* those it was not given again.                                           *)
Known(e) ==
    /\ domain_to_ips[e[1]] # NoDomain
    /\ e[2] \subseteq IpsOf(e[1]) \cup former[e[1]]

(* An entry of the settings is still to come, or its host is known, unless *)
(* something was removed.                                                  *)
EntryKnown(e) ==
    (\E j \in DOMAIN todo : todo[j] = e) \/ removed \/ Known(e)

(* An entry that is known stays so.                                        *)
LEMMA NextKnown ==
    ASSUME NEW e \in Entries, MapInv, EntryKnown(e),
           [DMNext]_dmVars
    PROVE  EntryKnown(e)'
<1>0. e[1] \in Domains /\ e[2] \in SUBSET Ips /\ e[2] # NoDomain
  BY DMAssumption DEF MapInv, Entries
<1>1. ASSUME NEW d \in Domains, NEW ips \in SUBSET Ips,
             UpdateEntry(d, ips), UNCHANGED removed,
             removed \/ Known(e)
      PROVE  EntryKnown(e)'
  BY <1>0, <1>1, DMAssumption
  DEF EntryKnown, Known, IpsOf, MapInv, DMTypeOK, UpdateEntry
<1>2. CASE Populate
  <2>1. /\ todo \in Seq(Entries) /\ todo # << >>
        /\ Head(todo) \in Entries /\ Head(todo) = todo[1]
        /\ todo' = Tail(todo)
    BY <1>2 DEF Populate, MapInv, DMTypeOK
  <2>2. Head(todo)[1] \in Domains /\ Head(todo)[2] \in SUBSET Ips
    BY <2>1 DEF Entries
  <2>3. CASE removed \/ Known(e)
    BY <1>1, <1>2, <2>2, <2>3 DEF Populate
  <2>4. ASSUME NEW j \in DOMAIN todo, todo[j] = e PROVE EntryKnown(e)'
    <3>1. CASE j = 1
      BY <1>0, <1>2, <2>1, <2>4, <3>1
      DEF Populate, UpdateEntry, EntryKnown, Known, IpsOf, MapInv, DMTypeOK
    <3>2. CASE j # 1
      <4>1. j - 1 \in DOMAIN todo' /\ todo'[j - 1] = todo[j]
        BY <2>1, <3>2
      <4> QED  BY <2>4, <4>1 DEF EntryKnown
    <3> QED  BY <3>1, <3>2
  <2> QED  BY <2>3, <2>4 DEF EntryKnown
<1>3. ASSUME NEW d \in Domains, NEW ips \in SUBSET Ips,
             AddMapping(d, ips)
      PROVE  EntryKnown(e)'
  BY <1>1, <1>3 DEF AddMapping, EntryKnown
<1>4. ASSUME NEW d \in Domains, RemoveDomain(d) PROVE EntryKnown(e)'
  BY <1>4 DEF RemoveDomain, EntryKnown
<1>5. ASSUME NEW i \in Ips, RemoveIp(i) PROVE EntryKnown(e)'
  BY <1>5 DEF RemoveIp, EntryKnown
<1>6. CASE UNCHANGED dmVars
  BY <1>6 DEF dmVars, EntryKnown, Known, IpsOf
<1> QED  BY <1>2, <1>3, <1>4, <1>5, <1>6 DEF DMNext

(* A server that the settings name is known, with every address they give  *)
(* it but for those it is not given again, until something is removed:     *)
(* _create_connection, which looks the address up anew for every           *)
(* connection, finds it.                                                   *)
THEOREM ConfiguredHostsKnown ==
    ASSUME NEW cfg \in Configs, NEW k \in DOMAIN cfg
    PROVE  todo = cfg /\ DMSpec =>
               [](todo = << >> => removed \/ Known(cfg[k]))
<1> DEFINE K == MapInv /\ cfg[k] \in Entries /\ EntryKnown(cfg[k])
           Q == todo = << >> => removed \/ Known(cfg[k])
<1>1. todo = cfg /\ DMInit => K
  BY InitMap, DMAssumption DEF EntryKnown
<1>2. K /\ [DMNext]_dmVars => K'
  BY NextMap, NextKnown
<1>3. K => Q
  BY DEF EntryKnown
<1> HIDE DEF K
<1> QED  BY <1>1, <1>2, <1>3, PTL DEF DMSpec
================================================================================
