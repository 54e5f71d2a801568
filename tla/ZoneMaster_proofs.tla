--------------------------- MODULE ZoneMaster_proofs ---------------------------
(***************************************************************************)
(* Proofs about ZoneMaster, for any servers, requests and operations.      *)
(***************************************************************************)
EXTENDS ZoneMaster, TLAPS

(* Every action, one disjunct each.                                        *)
Step ==
    \/ \E r \in Requests : BeginSet(r)
    \/ \E r \in Requests : BeginLookup(r)
    \/ \E r \in Requests : Exists(r)
    \/ \E r \in Requests : ExistsNot(r)
    \/ \E r \in Requests : ExistsFault(r)
    \/ \E r \in Requests, d \in DnsServers : LookupReply(r, d)
    \/ \E r \in Requests, d \in DnsServers : HostFault(r, d)
    \/ \E r \in Requests : LookupNone(r)
    \/ \E r \in Requests : LookupDone(r)
    \/ \E r \in Requests : SendRemovals(r)
    \/ \E r \in Requests, d \in DnsServers : RemoveReply(r, d)
    \/ \E r \in Requests : SendRestart(r)
    \/ \E r \in Requests : BatchCrashes(r)
    \/ \E r \in Requests : RestartReply(r)
    \/ \E r \in Requests : RestartFault(r)
    \/ \E r \in Requests : Audit(r)
    \/ WorkerDies
    \/ \E r \in Requests, d \in DnsServers : RemoteRemove(r, d)
    \/ \E r \in Requests : RemoteRestart(r)
    \/ \E r \in Requests : LoseRestart(r)
    \/ \E p \in PleskServers, d \in DnsServers : Deliver(p, d)

(* Next is the disjunction of its actions.                                 *)
LEMMA NextIsStep == Next => Step
  BY DEF Next, Step, RequestStep, Continue, SingleEnds, HostEnds, RemoteStep

--------------------------------------------------------------------------------
(* Type correctness holds initially.                                       *)
LEMMA InitType == Init => TypeOK
  BY DEF Init, TypeOK, Steps, Ends

(* Type correctness is inductive on its own.                               *)
LEMMA NextType == TypeOK /\ [Next]_vars => TypeOK'
<1> SUFFICES ASSUME TypeOK, [Next]_vars PROVE TypeOK'
  OBVIOUS
<1> USE DEF TypeOK, Steps, Ends, Goto, constVars, batchVars, remoteVars
<1>1. ASSUME NEW r \in Requests, BeginSet(r) PROVE TypeOK'
  BY <1>1 DEF BeginSet
<1>2. ASSUME NEW r \in Requests, BeginLookup(r) PROVE TypeOK'
  BY <1>2 DEF BeginLookup
<1>3. ASSUME NEW r \in Requests, Exists(r) PROVE TypeOK'
  BY <1>3 DEF Exists
<1>4. ASSUME NEW r \in Requests, ExistsNot(r) PROVE TypeOK'
  BY <1>4 DEF ExistsNot
<1>5. ASSUME NEW r \in Requests, ExistsFault(r) PROVE TypeOK'
  BY <1>5 DEF ExistsFault
<1>6. ASSUME NEW r \in Requests, NEW d \in DnsServers, LookupReply(r, d)
      PROVE  TypeOK'
  BY <1>6 DEF LookupReply
<1>7. ASSUME NEW r \in Requests, NEW d \in DnsServers, HostFault(r, d)
      PROVE  TypeOK'
  BY <1>7 DEF HostFault
<1>8. ASSUME NEW r \in Requests, LookupNone(r) PROVE TypeOK'
  BY <1>8 DEF LookupNone
<1>9. ASSUME NEW r \in Requests, LookupDone(r) PROVE TypeOK'
  BY <1>9 DEF LookupDone
<1>10. ASSUME NEW r \in Requests, SendRemovals(r) PROVE TypeOK'
  BY <1>10 DEF SendRemovals
<1>11. ASSUME NEW r \in Requests, NEW d \in DnsServers, RemoveReply(r, d)
      PROVE  TypeOK'
  BY <1>11 DEF RemoveReply
<1>12. ASSUME NEW r \in Requests, SendRestart(r) PROVE TypeOK'
  BY <1>12 DEF SendRestart
<1>13. ASSUME NEW r \in Requests, BatchCrashes(r) PROVE TypeOK'
  BY <1>13 DEF BatchCrashes
<1>14. ASSUME NEW r \in Requests, RestartReply(r) PROVE TypeOK'
  BY <1>14 DEF RestartReply
<1>15. ASSUME NEW r \in Requests, RestartFault(r) PROVE TypeOK'
  BY <1>15 DEF RestartFault
<1>16. ASSUME NEW r \in Requests, Audit(r) PROVE TypeOK'
  BY <1>16 DEF Audit
<1>17. ASSUME WorkerDies PROVE TypeOK'
  BY <1>17 DEF WorkerDies, InFlight
<1>18. ASSUME NEW r \in Requests, NEW d \in DnsServers, RemoteRemove(r, d)
      PROVE  TypeOK'
  BY <1>18 DEF RemoteRemove
<1>19. ASSUME NEW r \in Requests, RemoteRestart(r) PROVE TypeOK'
  BY <1>19 DEF RemoteRestart
<1>20. ASSUME NEW p \in PleskServers, NEW d \in DnsServers, Deliver(p, d)
      PROVE  TypeOK'
  BY <1>20 DEF Deliver
<1>21. ASSUME NEW r \in Requests, LoseRestart(r) PROVE TypeOK'
  BY <1>21 DEF LoseRestart
<1>22. ASSUME UNCHANGED vars PROVE TypeOK'
  BY <1>22 DEF vars
<1> QED
  BY <1>1, <1>2, <1>3, <1>4, <1>5, <1>6, <1>7, <1>8, <1>9, <1>10,
     <1>11, <1>12, <1>13, <1>14, <1>15, <1>16, <1>17, <1>18, <1>19, <1>20,
     <1>21, <1>22,
     NextIsStep DEF Step

--------------------------------------------------------------------------------
(***************************************************************************)
(* The inductive invariant.                                                *)
(***************************************************************************)

(* A request that has not reached its removals, or was refused, or is not  *)
(* a "set", has commanded nothing.                                         *)
Unsent ==
    \A r \in Requests :
        step[r] \in {"idle", "exists", "lookup", "rejected"}
            \/ req[r].op # "set" =>
            /\ r \notin restarting
            /\ \A d \in DnsServers :
                  r \notin removedBy[d] /\ <<r, d>> \notin removing

(* A removal takes effect once.                                            *)
RemovedOnce ==
    \A r \in Requests, d \in DnsServers :
        r \in removedBy[d] => <<r, d>> \notin removing

(* Only "set" removes and restarts, and only for a server that has the     *)
(* subscription, and only such a server is announced.                      *)
TargetHosts ==
    /\ \A r \in Requests :
          /\ step[r] \in {"exists", "remove", "restart"} => req[r].op = "set"
          /\ step[r] \in {"lookup", "remove", "restart"} /\ req[r].op = "set" =>
                req[r].target \in hosting
          /\ r \in restarting => req[r].target \in hosting
    /\ \A a \in announced : a[1] \in hosting

(* A batch of removals is over when every one took effect or failed.       *)
BatchWaits ==
    \A r \in Requests, d \in DnsServers :
        /\ step[r] = "remove" /\ d \notin pending[r] =>
              r \in removedBy[d] \/ <<r, d>> \in failedAt
        /\ step[r] \in {"restart", "succeeded", "audited", "unaudited"}
              /\ req[r].op = "set" =>
              r \in removedBy[d] \/ <<r, d>> \in failedAt

(* Without faults nothing is under way for a request that has moved on.    *)
NothingLeft ==
    ~ faulted =>
        /\ garbled = {} /\ failedAt = {}
        /\ \A r \in Requests : r \in restarting => step[r] = "restart"
        /\ \A r \in Requests, d \in DnsServers :
              <<r, d>> \in removing => step[r] = "remove"

Inv ==
    /\ TypeOK /\ Unsent /\ RemovedOnce /\ TargetHosts
    /\ BatchWaits /\ NothingLeft
    /\ ZoneOnItsWay /\ RestoredMasterHostsDomain

(* Nothing has happened initially.                                         *)
LEMMA InitInv == Init => Inv
<1>1. Init => Unsent /\ RemovedOnce /\ TargetHosts /\ BatchWaits /\ NothingLeft
  BY DEF Init, Unsent, RemovedOnce, TargetHosts, BatchWaits, NothingLeft
<1>2. Init => ZoneOnItsWay /\ RestoredMasterHostsDomain
  BY DEF Init, ZoneOnItsWay, RestoredMasterHostsDomain
<1> QED  BY <1>1, <1>2, InitType DEF Inv

(* Every step keeps it.                                                    *)
LEMMA NextInv == Inv /\ [Next]_vars => Inv'
<1> SUFFICES ASSUME Inv, [Next]_vars PROVE Inv'
  OBVIOUS
<1>0. TypeOK /\ TypeOK'
  BY NextType DEF Inv
<1> USE DEF Goto, constVars, batchVars, remoteVars
<1>1. ASSUME NEW r \in Requests, BeginSet(r) PROVE Inv'
  <2>1. Unsent'
    BY <1>0, <1>1 DEF BeginSet, Inv, TypeOK, Unsent, TargetHosts
  <2>2. RemovedOnce'
    BY <1>0, <1>1 DEF BeginSet, Inv, TypeOK, RemovedOnce, Unsent, TargetHosts
  <2>3. TargetHosts'
    BY <1>0, <1>1 DEF BeginSet, Inv, TypeOK, TargetHosts
  <2>4. BatchWaits' /\ NothingLeft'
    BY <1>0, <1>1
    DEF BeginSet, Inv, TypeOK, BatchWaits, NothingLeft, Unsent, TargetHosts,
        RemovedOnce
  <2>5. ZoneOnItsWay'
    BY <1>0, <1>1
    DEF BeginSet, Inv, TypeOK, ZoneOnItsWay, WillRestart,
        NothingLeft, Unsent
  <2>6. RestoredMasterHostsDomain'
    BY <1>0, <1>1
    DEF BeginSet, Inv, TypeOK, RestoredMasterHostsDomain, TargetHosts
  <2> QED  BY <1>0, <2>1, <2>2, <2>3, <2>4, <2>5, <2>6 DEF Inv
<1>2. ASSUME NEW r \in Requests, BeginLookup(r) PROVE Inv'
  <2>1. Unsent'
    BY <1>0, <1>2 DEF BeginLookup, Inv, TypeOK, Unsent, TargetHosts
  <2>2. RemovedOnce'
    BY <1>0, <1>2 DEF BeginLookup, Inv, TypeOK, RemovedOnce, Unsent, TargetHosts
  <2>3. TargetHosts'
    BY <1>0, <1>2 DEF BeginLookup, Inv, TypeOK, TargetHosts
  <2>4. BatchWaits' /\ NothingLeft'
    BY <1>0, <1>2
    DEF BeginLookup, Inv, TypeOK, BatchWaits, NothingLeft, Unsent, TargetHosts,
        RemovedOnce
  <2>5. ZoneOnItsWay'
    BY <1>0, <1>2
    DEF BeginLookup, Inv, TypeOK, ZoneOnItsWay, WillRestart,
        NothingLeft, Unsent
  <2>6. RestoredMasterHostsDomain'
    BY <1>0, <1>2
    DEF BeginLookup, Inv, TypeOK, RestoredMasterHostsDomain, TargetHosts
  <2> QED  BY <1>0, <2>1, <2>2, <2>3, <2>4, <2>5, <2>6 DEF Inv
<1>3. ASSUME NEW r \in Requests, Exists(r) PROVE Inv'
  <2>1. Unsent'
    BY <1>0, <1>3 DEF Exists, Inv, TypeOK, Unsent, TargetHosts
  <2>2. RemovedOnce'
    BY <1>0, <1>3 DEF Exists, Inv, TypeOK, RemovedOnce, Unsent, TargetHosts
  <2>3. TargetHosts'
    BY <1>0, <1>3 DEF Exists, Inv, TypeOK, TargetHosts
  <2>4. BatchWaits' /\ NothingLeft'
    BY <1>0, <1>3
    DEF Exists, Inv, TypeOK, BatchWaits, NothingLeft, Unsent, TargetHosts,
        RemovedOnce
  <2>5. ZoneOnItsWay'
    BY <1>0, <1>3
    DEF Exists, Inv, TypeOK, ZoneOnItsWay, WillRestart,
        NothingLeft, Unsent
  <2>6. RestoredMasterHostsDomain'
    BY <1>0, <1>3
    DEF Exists, Inv, TypeOK, RestoredMasterHostsDomain, TargetHosts
  <2> QED  BY <1>0, <2>1, <2>2, <2>3, <2>4, <2>5, <2>6 DEF Inv
<1>4. ASSUME NEW r \in Requests, ExistsNot(r) PROVE Inv'
  <2>1. Unsent'
    BY <1>0, <1>4 DEF ExistsNot, Inv, TypeOK, Unsent, TargetHosts
  <2>2. RemovedOnce'
    BY <1>0, <1>4 DEF ExistsNot, Inv, TypeOK, RemovedOnce, Unsent, TargetHosts
  <2>3. TargetHosts'
    BY <1>0, <1>4 DEF ExistsNot, Inv, TypeOK, TargetHosts
  <2>4. BatchWaits' /\ NothingLeft'
    BY <1>0, <1>4
    DEF ExistsNot, Inv, TypeOK, BatchWaits, NothingLeft, Unsent, TargetHosts,
        RemovedOnce
  <2>5. ZoneOnItsWay'
    BY <1>0, <1>4
    DEF ExistsNot, Inv, TypeOK, ZoneOnItsWay, WillRestart,
        NothingLeft, Unsent
  <2>6. RestoredMasterHostsDomain'
    BY <1>0, <1>4
    DEF ExistsNot, Inv, TypeOK, RestoredMasterHostsDomain, TargetHosts
  <2> QED  BY <1>0, <2>1, <2>2, <2>3, <2>4, <2>5, <2>6 DEF Inv
<1>5. ASSUME NEW r \in Requests, ExistsFault(r) PROVE Inv'
  <2>1. Unsent'
    BY <1>0, <1>5 DEF ExistsFault, Inv, TypeOK, Unsent, TargetHosts
  <2>2. RemovedOnce'
    BY <1>0, <1>5 DEF ExistsFault, Inv, TypeOK, RemovedOnce, Unsent, TargetHosts
  <2>3. TargetHosts'
    BY <1>0, <1>5 DEF ExistsFault, Inv, TypeOK, TargetHosts
  <2>4. BatchWaits' /\ NothingLeft'
    BY <1>0, <1>5
    DEF ExistsFault, Inv, TypeOK, BatchWaits, NothingLeft, Unsent, TargetHosts,
        RemovedOnce
  <2>5. ZoneOnItsWay'
    BY <1>0, <1>5
    DEF ExistsFault, Inv, TypeOK, ZoneOnItsWay, WillRestart,
        NothingLeft, Unsent
  <2>6. RestoredMasterHostsDomain'
    BY <1>0, <1>5
    DEF ExistsFault, Inv, TypeOK, RestoredMasterHostsDomain, TargetHosts
  <2> QED  BY <1>0, <2>1, <2>2, <2>3, <2>4, <2>5, <2>6 DEF Inv
<1>6. ASSUME NEW r \in Requests, NEW d \in DnsServers, LookupReply(r, d)
      PROVE  Inv'
  <2>1. Unsent'
    BY <1>0, <1>6 DEF LookupReply, Inv, TypeOK, Unsent, TargetHosts
  <2>2. RemovedOnce'
    BY <1>0, <1>6 DEF LookupReply, Inv, TypeOK, RemovedOnce, Unsent, TargetHosts
  <2>3. TargetHosts'
    BY <1>0, <1>6 DEF LookupReply, Inv, TypeOK, TargetHosts
  <2>4. BatchWaits' /\ NothingLeft'
    BY <1>0, <1>6
    DEF LookupReply, Inv, TypeOK, BatchWaits, NothingLeft, Unsent, TargetHosts,
        RemovedOnce
  <2>5. ZoneOnItsWay'
    BY <1>0, <1>6
    DEF LookupReply, Inv, TypeOK, ZoneOnItsWay, WillRestart,
        NothingLeft, Unsent
  <2>6. RestoredMasterHostsDomain'
    BY <1>0, <1>6
    DEF LookupReply, Inv, TypeOK, RestoredMasterHostsDomain, TargetHosts
  <2> QED  BY <1>0, <2>1, <2>2, <2>3, <2>4, <2>5, <2>6 DEF Inv
<1>7. ASSUME NEW r \in Requests, NEW d \in DnsServers, HostFault(r, d)
      PROVE  Inv'
  <2>1. Unsent'
    BY <1>0, <1>7 DEF HostFault, Inv, TypeOK, Unsent, TargetHosts
  <2>2. RemovedOnce'
    BY <1>0, <1>7 DEF HostFault, Inv, TypeOK, RemovedOnce, Unsent, TargetHosts
  <2>3. TargetHosts'
    BY <1>0, <1>7 DEF HostFault, Inv, TypeOK, TargetHosts
  <2>4. BatchWaits' /\ NothingLeft'
    BY <1>0, <1>7
    DEF HostFault, Inv, TypeOK, BatchWaits, NothingLeft, Unsent, TargetHosts,
        RemovedOnce
  <2>5. ZoneOnItsWay'
    BY <1>0, <1>7
    DEF HostFault, Inv, TypeOK, ZoneOnItsWay, WillRestart,
        NothingLeft, Unsent
  <2>6. RestoredMasterHostsDomain'
    BY <1>0, <1>7
    DEF HostFault, Inv, TypeOK, RestoredMasterHostsDomain, TargetHosts
  <2> QED  BY <1>0, <2>1, <2>2, <2>3, <2>4, <2>5, <2>6 DEF Inv
<1>8. ASSUME NEW r \in Requests, LookupNone(r) PROVE Inv'
  <2>1. Unsent'
    BY <1>0, <1>8 DEF LookupNone, Inv, TypeOK, Unsent, TargetHosts
  <2>2. RemovedOnce'
    BY <1>0, <1>8 DEF LookupNone, Inv, TypeOK, RemovedOnce, Unsent, TargetHosts
  <2>3. TargetHosts'
    BY <1>0, <1>8 DEF LookupNone, Inv, TypeOK, TargetHosts
  <2>4. BatchWaits' /\ NothingLeft'
    BY <1>0, <1>8
    DEF LookupNone, Inv, TypeOK, BatchWaits, NothingLeft, Unsent, TargetHosts,
        RemovedOnce
  <2>5. ZoneOnItsWay'
    BY <1>0, <1>8
    DEF LookupNone, Inv, TypeOK, ZoneOnItsWay, WillRestart,
        NothingLeft, Unsent
  <2>6. RestoredMasterHostsDomain'
    BY <1>0, <1>8
    DEF LookupNone, Inv, TypeOK, RestoredMasterHostsDomain, TargetHosts
  <2> QED  BY <1>0, <2>1, <2>2, <2>3, <2>4, <2>5, <2>6 DEF Inv
<1>9. ASSUME NEW r \in Requests, LookupDone(r) PROVE Inv'
  <2>1. Unsent'
    BY <1>0, <1>9 DEF LookupDone, Inv, TypeOK, Unsent, TargetHosts
  <2>2. RemovedOnce'
    BY <1>0, <1>9 DEF LookupDone, Inv, TypeOK, RemovedOnce, Unsent, TargetHosts
  <2>3. TargetHosts'
    BY <1>0, <1>9 DEF LookupDone, Inv, TypeOK, TargetHosts
  <2>4. BatchWaits' /\ NothingLeft'
    BY <1>0, <1>9
    DEF LookupDone, Inv, TypeOK, BatchWaits, NothingLeft, Unsent, TargetHosts,
        RemovedOnce
  <2>5. ZoneOnItsWay'
    BY <1>0, <1>9
    DEF LookupDone, Inv, TypeOK, ZoneOnItsWay, WillRestart,
        NothingLeft, Unsent
  <2>6. RestoredMasterHostsDomain'
    BY <1>0, <1>9
    DEF LookupDone, Inv, TypeOK, RestoredMasterHostsDomain, TargetHosts
  <2> QED  BY <1>0, <2>1, <2>2, <2>3, <2>4, <2>5, <2>6 DEF Inv
<1>10. ASSUME NEW r \in Requests, SendRemovals(r) PROVE Inv'
  <2>1. Unsent'
    BY <1>0, <1>10 DEF SendRemovals, Inv, TypeOK, Unsent, TargetHosts
  <2>2. RemovedOnce'
    BY <1>0, <1>10
    DEF SendRemovals, Inv, TypeOK, RemovedOnce, Unsent, TargetHosts
  <2>3. TargetHosts'
    BY <1>0, <1>10 DEF SendRemovals, Inv, TypeOK, TargetHosts
  <2>4. BatchWaits' /\ NothingLeft'
    BY <1>0, <1>10
    DEF SendRemovals, Inv, TypeOK, BatchWaits, NothingLeft, Unsent, TargetHosts,
        RemovedOnce
  <2>5. ZoneOnItsWay'
    BY <1>0, <1>10
    DEF SendRemovals, Inv, TypeOK, ZoneOnItsWay, WillRestart,
        NothingLeft, Unsent
  <2>6. RestoredMasterHostsDomain'
    BY <1>0, <1>10
    DEF SendRemovals, Inv, TypeOK, RestoredMasterHostsDomain, TargetHosts
  <2> QED  BY <1>0, <2>1, <2>2, <2>3, <2>4, <2>5, <2>6 DEF Inv
<1>11. ASSUME NEW r \in Requests, NEW d \in DnsServers, RemoveReply(r, d)
      PROVE  Inv'
  <2>1. Unsent'
    BY <1>0, <1>11 DEF RemoveReply, Inv, TypeOK, Unsent, TargetHosts
  <2>2. RemovedOnce'
    BY <1>0, <1>11
    DEF RemoveReply, Inv, TypeOK, RemovedOnce, Unsent, TargetHosts
  <2>3. TargetHosts'
    BY <1>0, <1>11 DEF RemoveReply, Inv, TypeOK, TargetHosts
  <2>4. BatchWaits' /\ NothingLeft'
    BY <1>0, <1>11
    DEF RemoveReply, Inv, TypeOK, BatchWaits, NothingLeft, Unsent, TargetHosts,
        RemovedOnce
  <2>5. ZoneOnItsWay'
    BY <1>0, <1>11
    DEF RemoveReply, Inv, TypeOK, ZoneOnItsWay, WillRestart,
        NothingLeft, Unsent
  <2>6. RestoredMasterHostsDomain'
    BY <1>0, <1>11
    DEF RemoveReply, Inv, TypeOK, RestoredMasterHostsDomain, TargetHosts
  <2> QED  BY <1>0, <2>1, <2>2, <2>3, <2>4, <2>5, <2>6 DEF Inv
<1>12. ASSUME NEW r \in Requests, SendRestart(r) PROVE Inv'
  <2>1. Unsent'
    BY <1>0, <1>12 DEF SendRestart, Inv, TypeOK, Unsent, TargetHosts
  <2>2. RemovedOnce'
    BY <1>0, <1>12
    DEF SendRestart, Inv, TypeOK, RemovedOnce, Unsent, TargetHosts
  <2>3. TargetHosts'
    BY <1>0, <1>12 DEF SendRestart, Inv, TypeOK, TargetHosts
  <2>4. BatchWaits' /\ NothingLeft'
    BY <1>0, <1>12
    DEF SendRestart, Inv, TypeOK, BatchWaits, NothingLeft, Unsent, TargetHosts,
        RemovedOnce
  <2>5. ZoneOnItsWay'
    BY <1>0, <1>12
    DEF SendRestart, Inv, TypeOK, ZoneOnItsWay, WillRestart,
        NothingLeft, Unsent
  <2>6. RestoredMasterHostsDomain'
    BY <1>0, <1>12
    DEF SendRestart, Inv, TypeOK, RestoredMasterHostsDomain, TargetHosts
  <2> QED  BY <1>0, <2>1, <2>2, <2>3, <2>4, <2>5, <2>6 DEF Inv
<1>13. ASSUME NEW r \in Requests, BatchCrashes(r) PROVE Inv'
  <2>1. Unsent'
    BY <1>0, <1>13 DEF BatchCrashes, Inv, TypeOK, Unsent, TargetHosts
  <2>2. RemovedOnce'
    BY <1>0, <1>13
    DEF BatchCrashes, Inv, TypeOK, RemovedOnce, Unsent, TargetHosts
  <2>3. TargetHosts'
    BY <1>0, <1>13 DEF BatchCrashes, Inv, TypeOK, TargetHosts
  <2>4. BatchWaits' /\ NothingLeft'
    BY <1>0, <1>13
    DEF BatchCrashes, Inv, TypeOK, BatchWaits, NothingLeft, Unsent, TargetHosts,
        RemovedOnce
  <2>5. ZoneOnItsWay'
    BY <1>0, <1>13
    DEF BatchCrashes, Inv, TypeOK, ZoneOnItsWay, WillRestart,
        NothingLeft, Unsent
  <2>6. RestoredMasterHostsDomain'
    BY <1>0, <1>13
    DEF BatchCrashes, Inv, TypeOK, RestoredMasterHostsDomain, TargetHosts
  <2> QED  BY <1>0, <2>1, <2>2, <2>3, <2>4, <2>5, <2>6 DEF Inv
<1>14. ASSUME NEW r \in Requests, RestartReply(r) PROVE Inv'
  <2>1. Unsent'
    BY <1>0, <1>14 DEF RestartReply, Inv, TypeOK, Unsent, TargetHosts
  <2>2. RemovedOnce'
    BY <1>0, <1>14
    DEF RestartReply, Inv, TypeOK, RemovedOnce, Unsent, TargetHosts
  <2>3. TargetHosts'
    BY <1>0, <1>14 DEF RestartReply, Inv, TypeOK, TargetHosts
  <2>4. BatchWaits' /\ NothingLeft'
    BY <1>0, <1>14
    DEF RestartReply, Inv, TypeOK, BatchWaits, NothingLeft, Unsent, TargetHosts,
        RemovedOnce
  <2>5. ZoneOnItsWay'
    BY <1>0, <1>14
    DEF RestartReply, Inv, TypeOK, ZoneOnItsWay, WillRestart,
        NothingLeft, Unsent
  <2>6. RestoredMasterHostsDomain'
    BY <1>0, <1>14
    DEF RestartReply, Inv, TypeOK, RestoredMasterHostsDomain, TargetHosts
  <2> QED  BY <1>0, <2>1, <2>2, <2>3, <2>4, <2>5, <2>6 DEF Inv
<1>15. ASSUME NEW r \in Requests, RestartFault(r) PROVE Inv'
  <2>1. Unsent'
    BY <1>0, <1>15 DEF RestartFault, Inv, TypeOK, Unsent, TargetHosts
  <2>2. RemovedOnce'
    BY <1>0, <1>15
    DEF RestartFault, Inv, TypeOK, RemovedOnce, Unsent, TargetHosts
  <2>3. TargetHosts'
    BY <1>0, <1>15 DEF RestartFault, Inv, TypeOK, TargetHosts
  <2>4. BatchWaits' /\ NothingLeft'
    BY <1>0, <1>15
    DEF RestartFault, Inv, TypeOK, BatchWaits, NothingLeft, Unsent, TargetHosts,
        RemovedOnce
  <2>5. ZoneOnItsWay'
    BY <1>0, <1>15
    DEF RestartFault, Inv, TypeOK, ZoneOnItsWay, WillRestart,
        NothingLeft, Unsent
  <2>6. RestoredMasterHostsDomain'
    BY <1>0, <1>15
    DEF RestartFault, Inv, TypeOK, RestoredMasterHostsDomain, TargetHosts
  <2> QED  BY <1>0, <2>1, <2>2, <2>3, <2>4, <2>5, <2>6 DEF Inv
<1>16. ASSUME NEW r \in Requests, Audit(r) PROVE Inv'
  <2>1. Unsent'
    BY <1>0, <1>16 DEF Audit, Inv, TypeOK, Unsent, TargetHosts
  <2>2. RemovedOnce'
    BY <1>0, <1>16 DEF Audit, Inv, TypeOK, RemovedOnce, Unsent, TargetHosts
  <2>3. TargetHosts'
    BY <1>0, <1>16 DEF Audit, Inv, TypeOK, TargetHosts
  <2>4. BatchWaits' /\ NothingLeft'
    BY <1>0, <1>16
    DEF Audit, Inv, TypeOK, BatchWaits, NothingLeft, Unsent, TargetHosts,
        RemovedOnce
  <2>5. ZoneOnItsWay'
    BY <1>0, <1>16
    DEF Audit, Inv, TypeOK, ZoneOnItsWay, WillRestart,
        NothingLeft, Unsent
  <2>6. RestoredMasterHostsDomain'
    BY <1>0, <1>16
    DEF Audit, Inv, TypeOK, RestoredMasterHostsDomain, TargetHosts
  <2> QED  BY <1>0, <2>1, <2>2, <2>3, <2>4, <2>5, <2>6 DEF Inv
<1>17. ASSUME WorkerDies PROVE Inv'
  <2>1. Unsent'
    BY <1>0, <1>17 DEF WorkerDies, InFlight, Inv, TypeOK, Unsent, TargetHosts
  <2>2. RemovedOnce'
    BY <1>0, <1>17
    DEF WorkerDies, InFlight, Inv, TypeOK, RemovedOnce, Unsent, TargetHosts
  <2>3. TargetHosts'
    BY <1>0, <1>17 DEF WorkerDies, InFlight, Inv, TypeOK, TargetHosts
  <2>4. BatchWaits' /\ NothingLeft'
    BY <1>0, <1>17
    DEF WorkerDies, InFlight, Inv, TypeOK, BatchWaits, NothingLeft, Unsent,
        TargetHosts,
        RemovedOnce
  <2>5. ZoneOnItsWay'
    BY <1>0, <1>17
    DEF WorkerDies, InFlight, Inv, TypeOK, ZoneOnItsWay, WillRestart,
        NothingLeft, Unsent
  <2>6. RestoredMasterHostsDomain'
    BY <1>0, <1>17
    DEF WorkerDies, InFlight, Inv, TypeOK, RestoredMasterHostsDomain,
        TargetHosts
  <2> QED  BY <1>0, <2>1, <2>2, <2>3, <2>4, <2>5, <2>6 DEF Inv
<1>18. ASSUME NEW r \in Requests, NEW d \in DnsServers, RemoteRemove(r, d)
      PROVE  Inv'
  <2>1. Unsent'
    BY <1>0, <1>18 DEF RemoteRemove, Inv, TypeOK, Unsent, TargetHosts
  <2>2. RemovedOnce'
    BY <1>0, <1>18
    DEF RemoteRemove, Inv, TypeOK, RemovedOnce, Unsent, TargetHosts
  <2>3. TargetHosts'
    BY <1>0, <1>18 DEF RemoteRemove, Inv, TypeOK, TargetHosts
  <2>4. BatchWaits' /\ NothingLeft'
    BY <1>0, <1>18
    DEF RemoteRemove, Inv, TypeOK, BatchWaits, NothingLeft, Unsent, TargetHosts,
        RemovedOnce
  <2>5. ZoneOnItsWay'
    BY <1>0, <1>18
    DEF RemoteRemove, Inv, TypeOK, ZoneOnItsWay, WillRestart,
        NothingLeft, Unsent
  <2>6. RestoredMasterHostsDomain'
    BY <1>0, <1>18
    DEF RemoteRemove, Inv, TypeOK, RestoredMasterHostsDomain, TargetHosts
  <2> QED  BY <1>0, <2>1, <2>2, <2>3, <2>4, <2>5, <2>6 DEF Inv
<1>19. ASSUME NEW r \in Requests, RemoteRestart(r) PROVE Inv'
  <2>1. Unsent'
    BY <1>0, <1>19 DEF RemoteRestart, Inv, TypeOK, Unsent, TargetHosts
  <2>2. RemovedOnce'
    BY <1>0, <1>19
    DEF RemoteRestart, Inv, TypeOK, RemovedOnce, Unsent, TargetHosts
  <2>3. TargetHosts'
    BY <1>0, <1>19 DEF RemoteRestart, Inv, TypeOK, TargetHosts
  <2>4. BatchWaits' /\ NothingLeft'
    BY <1>0, <1>19
    DEF RemoteRestart, Inv, TypeOK, BatchWaits, NothingLeft, Unsent,
        TargetHosts,
        RemovedOnce
  <2>5. ZoneOnItsWay'
    BY <1>0, <1>19
    DEF RemoteRestart, Inv, TypeOK, ZoneOnItsWay, WillRestart,
        NothingLeft, Unsent
  <2>6. RestoredMasterHostsDomain'
    BY <1>0, <1>19
    DEF RemoteRestart, Inv, TypeOK, RestoredMasterHostsDomain, TargetHosts
  <2> QED  BY <1>0, <2>1, <2>2, <2>3, <2>4, <2>5, <2>6 DEF Inv
<1>20. ASSUME NEW p \in PleskServers, NEW d \in DnsServers, Deliver(p, d)
      PROVE  Inv'
  <2>1. Unsent'
    BY <1>0, <1>20 DEF Deliver, Inv, TypeOK, Unsent, TargetHosts
  <2>2. RemovedOnce'
    BY <1>0, <1>20 DEF Deliver, Inv, TypeOK, RemovedOnce, Unsent, TargetHosts
  <2>3. TargetHosts'
    BY <1>0, <1>20 DEF Deliver, Inv, TypeOK, TargetHosts
  <2>4. BatchWaits' /\ NothingLeft'
    BY <1>0, <1>20
    DEF Deliver, Inv, TypeOK, BatchWaits, NothingLeft, Unsent, TargetHosts,
        RemovedOnce
  <2>5. ZoneOnItsWay'
    <3> SUFFICES ASSUME ~ faulted', NEW e \in DnsServers, zone'[e] = NoZone,
                        removedBy'[e] # {}
                 PROVE  \/ \E r \in Requests : WillRestart(r)'
                        \/ \E q \in PleskServers : <<q, e>> \in announced'
      BY DEF ZoneOnItsWay
    <3>1. zone'[d] # NoZone
      BY <1>0, <1>20, ConstantsAssumption DEF Deliver, TypeOK
    <3>2. e # d /\ zone[e] = NoZone
      BY <1>0, <1>20, <3>1 DEF Deliver, TypeOK
    <3>3. \/ \E r \in Requests : WillRestart(r)
          \/ \E q \in PleskServers : <<q, e>> \in announced
      BY <1>20, <3>2 DEF Deliver, Inv, ZoneOnItsWay
    <3> QED  BY <1>20, <3>2, <3>3 DEF Deliver, WillRestart
  <2>6. RestoredMasterHostsDomain'
    BY <1>0, <1>20
    DEF Deliver, Inv, TypeOK, RestoredMasterHostsDomain, TargetHosts
  <2> QED  BY <1>0, <2>1, <2>2, <2>3, <2>4, <2>5, <2>6 DEF Inv
<1>21. ASSUME NEW r \in Requests, LoseRestart(r) PROVE Inv'
  <2>1. Unsent'
    BY <1>0, <1>21 DEF LoseRestart, Inv, TypeOK, Unsent, TargetHosts
  <2>2. RemovedOnce'
    BY <1>0, <1>21
    DEF LoseRestart, Inv, TypeOK, RemovedOnce, Unsent, TargetHosts
  <2>3. TargetHosts'
    BY <1>0, <1>21 DEF LoseRestart, Inv, TypeOK, TargetHosts
  <2>4. BatchWaits' /\ NothingLeft'
    BY <1>0, <1>21
    DEF LoseRestart, Inv, TypeOK, BatchWaits, NothingLeft, Unsent, TargetHosts,
        RemovedOnce
  <2>5. ZoneOnItsWay'
    BY <1>0, <1>21
    DEF LoseRestart, Inv, TypeOK, ZoneOnItsWay, NothingLeft
  <2>6. RestoredMasterHostsDomain'
    BY <1>0, <1>21
    DEF LoseRestart, Inv, TypeOK, RestoredMasterHostsDomain, TargetHosts
  <2> QED  BY <1>0, <2>1, <2>2, <2>3, <2>4, <2>5, <2>6 DEF Inv
<1>22. ASSUME UNCHANGED vars PROVE Inv'
  BY <1>0, <1>22 DEF vars, Inv, Unsent, RemovedOnce, TargetHosts, BatchWaits,
     NothingLeft, ZoneOnItsWay, WillRestart, RestoredMasterHostsDomain
<1> QED
  BY <1>1, <1>2, <1>3, <1>4, <1>5, <1>6, <1>7, <1>8, <1>9, <1>10,
     <1>11, <1>12, <1>13, <1>14, <1>15, <1>16, <1>17, <1>18, <1>19, <1>20,
     <1>21, <1>22,
     NextIsStep DEF Step

(* Without faults a removed zone is always on its way back, whatever       *)
(* requests overlap.                                                       *)
THEOREM ZoneNeverLost == Spec => []ZoneOnItsWay
<1>1. Inv => ZoneOnItsWay
  BY DEF Inv
<1> QED  BY <1>1, InitInv, NextInv, PTL DEF Spec

(* Success, refusal and the new master mean what they say.                 *)
THEOREM RequestsCorrect ==
    Spec => [](/\ TypeOK /\ RestoredMasterHostsDomain
               /\ SuccessRemovedEverywhere /\ RejectedRemovesNothing)
<1>1. Inv => /\ TypeOK /\ RestoredMasterHostsDomain
             /\ SuccessRemovedEverywhere /\ RejectedRemovesNothing
  BY DEF Inv, Unsent, BatchWaits, SuccessRemovedEverywhere,
         RejectedRemovesNothing
<1> QED  BY <1>1, InitInv, NextInv, PTL DEF Spec

(* Servers and requests are well typed.                                    *)
THEOREM TypeCorrect == Spec => []TypeOK
  BY RequestsCorrect, PTL

(* A zone that was removed comes back with a master that hosts the domain. *)
THEOREM MastersCorrect == Spec => []RestoredMasterHostsDomain
  BY RequestsCorrect, PTL

(* A success is a removal from every DNS server whose own did not fail.    *)
THEOREM SuccessCorrect == Spec => []SuccessRemovedEverywhere
  BY RequestsCorrect, PTL

(* A refused request and a lookup remove nothing.                          *)
THEOREM RefusalCorrect == Spec => []RejectedRemovesNothing
  BY RequestsCorrect, PTL

--------------------------------------------------------------------------------
(* A request that has not begun to look has found nothing.                 *)
NothingFound ==
    \A r \in Requests : step[r] \in {"idle", "exists"} => found[r] = {}

(* Every step keeps it.                                                    *)
LEMMA NextFound == TypeOK /\ NothingFound /\ [Next]_vars => NothingFound'
<1> SUFFICES ASSUME TypeOK, NothingFound, [Next]_vars PROVE NothingFound'
  OBVIOUS
<1> USE DEF TypeOK, NothingFound, Goto, batchVars, remoteVars, constVars
<1>1. ASSUME NEW r \in Requests,
             \/ BeginSet(r) \/ BeginLookup(r) \/ SingleEnds(r) \/ Audit(r)
      PROVE  NothingFound'
  BY <1>1 DEF BeginSet, BeginLookup, SingleEnds, Exists, ExistsNot,
     ExistsFault, RestartReply, RestartFault, Audit
<1>2. ASSUME NEW r \in Requests, Continue(r) PROVE NothingFound'
  BY <1>2 DEF Continue, LookupNone, LookupDone, SendRemovals, SendRestart,
     BatchCrashes
<1>3. ASSUME NEW r \in Requests, NEW d \in DnsServers, HostEnds(r, d)
      PROVE  NothingFound'
  BY <1>3 DEF HostEnds, LookupReply, RemoveReply, HostFault
<1>4. CASE RemoteStep
  BY <1>4 DEF RemoteStep, RemoteRestart, LoseRestart, RemoteRemove, Deliver
<1>5. CASE WorkerDies
  BY <1>5 DEF WorkerDies, InFlight
<1>6. CASE UNCHANGED vars
  BY <1>6 DEF vars
<1> QED
  BY <1>1, <1>2, <1>3, <1>4, <1>5, <1>6 DEF Next, RequestStep

(* What LostStaysLost says of a step.                                      *)
StaysLost ==
    /\ Lost'
    /\ \A r \in Requests :
          step[r] \in {"idle", "exists", "lookup"} => step'[r] # "succeeded"

(* A zone that was removed, is on no server and has nothing under way that *)
(* brings it back stays lost, and no request that has yet to look for it   *)
(* succeeds.                                                               *)
THEOREM LostForGood == Spec => LostStaysLost
<1>1. ASSUME TypeOK, NothingFound, [Next]_vars, Lost PROVE StaysLost
  <2> USE DEF TypeOK, NothingFound, Lost, StaysLost, Goto, batchVars,
              remoteVars, constVars
  <2>1. ASSUME NEW r \in Requests,
               \/ BeginSet(r) \/ BeginLookup(r) \/ SingleEnds(r) \/ Audit(r)
        PROVE  StaysLost
    BY <1>1, <2>1
    DEF BeginSet, BeginLookup, SingleEnds, Exists, ExistsNot, ExistsFault,
        RestartReply, RestartFault, Audit
  <2>2. ASSUME NEW r \in Requests, Continue(r) PROVE StaysLost
    BY <1>1, <2>2
    DEF Continue, LookupNone, LookupDone, SendRemovals, SendRestart,
        BatchCrashes
  <2>3. ASSUME NEW r \in Requests, NEW d \in DnsServers, HostEnds(r, d)
        PROVE  StaysLost
    BY <1>1, <2>3 DEF HostEnds, LookupReply, RemoveReply, HostFault
  <2>4. CASE RemoteStep
    BY <1>1, <2>4
    DEF RemoteStep, RemoteRestart, LoseRestart, RemoteRemove, Deliver
  <2>5. CASE WorkerDies
    BY <1>1, <2>5 DEF WorkerDies, InFlight
  <2>6. CASE UNCHANGED vars
    BY <1>1, <2>6 DEF vars
  <2> QED
    BY <1>1, <2>1, <2>2, <2>3, <2>4, <2>5, <2>6 DEF Next, RequestStep
<1>2. Init => TypeOK /\ NothingFound
  BY InitType DEF Init, NothingFound
<1>3. TypeOK /\ NothingFound /\ [Next]_vars => (TypeOK /\ NothingFound)'
  BY NextType, NextFound
<1>4. TypeOK /\ NothingFound /\ [Next]_vars => [Lost => StaysLost]_vars
  BY <1>1
<1>5. Spec => [][Lost => StaysLost]_vars
  BY <1>2, <1>3, <1>4, PTL DEF Spec
<1> QED  BY <1>5 DEF LostStaysLost, StaysLost
================================================================================
