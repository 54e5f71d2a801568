------------------------------- MODULE ZoneMaster -------------------------------
(***************************************************************************)
(* The zone master requests of app/api/plesk_router.py and                 *)
(* app/api/dns_router.py, with the services they go through, for one       *)
(* domain.  A request is a coroutine that steps through commands on the    *)
(* remote hosts (see RemoteCall: a command that failed may still take      *)
(* effect later); nothing orders the commands of two requests.             *)
(*                                                                         *)
(* What the remote hosts do is external: a DNS server forgets a zone that  *)
(* is removed and takes it back from the next Plesk server that announces  *)
(* it, which a Plesk server does after its DNS service was restarted.      *)
(***************************************************************************)
EXTENDS Naturals

CONSTANTS
    DnsServers,     \* DNS_SERVER_LIST
    PleskServers,   \* the possible masters
    Requests,       \* the requests of a behaviour
    Ops,            \* the operations they may be: "set", "get", "delete"
    NoZone          \* a DNS server without the zone

ASSUME ConstantsAssumption ==
    /\ Ops \subseteq {"set", "get", "delete"}
    /\ NoZone \notin PleskServers

VARIABLES
    zone,       \* the master of the zone on each DNS server
    hosting,    \* the Plesk servers that have a subscription of the domain
    announced,  \* announcements on their way: <<Plesk server, DNS server>>
    req,        \* the operation and the target server of each request
    step,       \* the command each request awaits, then how it ended
    pending,    \* DNS servers that have not answered the current batch
    found,      \* the masters get_zone_masters collected
    garbled,    \* requests with an answer that is not JSON in their batch
    removing,   \* removals sent and not executed yet
    restarting, \* restarts sent and not executed yet
    removedBy,  \* history: the requests that removed the zone, per server
    failedAt,   \* history: <<request, server>> of the removals that failed
    faulted     \* history: a command failed, or the process died

batchVars == <<pending, found, garbled>>
remoteVars == <<zone, announced, removing, restarting, removedBy, failedAt>>
constVars == <<hosting, req>>
vars == <<zone, hosting, announced, req, step, pending, found, garbled,
          removing, restarting, removedBy, failedAt, faulted>>

Init ==
    /\ zone \in [DnsServers -> PleskServers \cup {NoZone}]
    /\ hosting \in SUBSET PleskServers
    /\ announced = {}
    /\ req \in [Requests -> [op : Ops, target : PleskServers]]
    /\ step = [r \in Requests |-> "idle"]
    /\ pending = [r \in Requests |-> {}]
    /\ found = [r \in Requests |-> {}]
    /\ garbled = {}
    /\ removing = {}
    /\ restarting = {}
    /\ removedBy = [d \in DnsServers |-> {}]
    /\ failedAt = {}
    /\ faulted = FALSE

Goto(r, s) == step' = [step EXCEPT ![r] = s]

(***************************************************************************)
(* The request                                                             *)
(***************************************************************************)

(* Mutation of BeginSet: the zone is removed before anything is asked.     *)
BeginRemoving(r) ==
    /\ step[r] = "idle" /\ req[r].op = "set"
    /\ Goto(r, "exists")
    /\ removing' = removing \cup {<<r, d>> : d \in DnsServers}
    /\ UNCHANGED <<constVars, batchVars, zone, announced, restarting, removedBy,
                   failedAt, faulted>>

(* "set" first asks the target server for the subscription, the others     *)
(* begin with get_zone_masters on every DNS server at once.                *)
BeginSet(r) ==
    /\ step[r] = "idle" /\ req[r].op = "set"
    /\ Goto(r, "exists")
    /\ UNCHANGED <<constVars, batchVars, remoteVars, faulted>>

BeginLookup(r) ==
    /\ step[r] = "idle" /\ req[r].op # "set"
    /\ Goto(r, "lookup")
    /\ pending' = [pending EXCEPT ![r] = DnsServers]
    /\ UNCHANGED <<constVars, found, garbled, remoteVars, faulted>>

(* Mutation of Exists: any answer is taken for the subscription.           *)
ExistsAnyway(r) ==
    /\ step[r] = "exists"
    /\ Goto(r, "lookup")
    /\ pending' = [pending EXCEPT ![r] = DnsServers]
    /\ UNCHANGED <<constVars, found, garbled, remoteVars, faulted>>

(* is_domain_exist_on_server; without the subscription the answer is 404.  *)
Exists(r) ==
    /\ step[r] = "exists"
    /\ req[r].target \in hosting
    /\ Goto(r, "lookup")
    /\ pending' = [pending EXCEPT ![r] = DnsServers]
    /\ UNCHANGED <<constVars, found, garbled, remoteVars, faulted>>

ExistsNot(r) ==
    /\ step[r] = "exists"
    /\ req[r].target \notin hosting
    /\ Goto(r, "rejected")
    /\ UNCHANGED <<constVars, batchVars, remoteVars, faulted>>

(* The command failed: an exception ends the request, but a response       *)
(* without payload, whatever its status, reads as a missing subscription.  *)
ExistsFault(r) ==
    /\ step[r] = "exists"
    /\ \E s \in {"crashed", "rejected"} : Goto(r, s)
    /\ faulted' = TRUE
    /\ UNCHANGED <<constVars, batchVars, remoteVars>>

(* One host's answer to the lookup: a master, or no zone there.            *)
LookupReply(r, d) ==
    /\ step[r] = "lookup"
    /\ d \in pending[r]
    /\ pending' = [pending EXCEPT ![r] = @ \ {d}]
    /\ found' = IF zone[d] # NoZone
                THEN [found EXCEPT ![r] = @ \cup {<<d, zone[d]>>}] ELSE found
    /\ UNCHANGED <<constVars, step, garbled, remoteVars, faulted>>

(* One host of a batch failed: execute_on_servers makes an INTERNAL_ERROR  *)
(* response of it, unless its answer cannot be parsed, which makes the     *)
(* whole batch fail once every host has answered.                          *)
HostFault(r, d) ==
    /\ step[r] \in {"lookup", "remove"}
    /\ d \in pending[r]
    /\ pending' = [pending EXCEPT ![r] = @ \ {d}]
    /\ garbled' \in {garbled, garbled \cup {r}}
    /\ faulted' = TRUE
    /\ failedAt' = IF step[r] = "remove" THEN failedAt \cup {<<r, d>>}
                                         ELSE failedAt
    /\ UNCHANGED <<constVars, step, found, zone, announced, removing,
                   restarting, removedBy>>

(* Every host answered.  get_zone_masters raises 404 when none has the     *)
(* zone; "get" returns the masters, "set" goes on to remove_zone, and      *)
(* "delete" looks up an index the list of masters does not have.           *)
LookupNone(r) ==
    /\ step[r] = "lookup" /\ pending[r] = {}
    /\ r \notin garbled /\ found[r] = {}
    /\ Goto(r, "rejected")
    /\ UNCHANGED <<constVars, batchVars, remoteVars, faulted>>

LookupDone(r) ==
    /\ step[r] = "lookup" /\ pending[r] = {}
    /\ r \notin garbled /\ found[r] # {}
    /\ req[r].op # "set"
    /\ Goto(r, IF req[r].op = "get" THEN "succeeded" ELSE "crashed")
    /\ UNCHANGED <<constVars, batchVars, remoteVars, faulted>>

(* Mutations of SendRemovals: only the servers that named a master are     *)
(* told; nothing found is no reason to stop.                               *)
RemoveWhereFound(r) ==
    /\ step[r] = "lookup" /\ pending[r] = {}
    /\ r \notin garbled /\ found[r] # {}
    /\ req[r].op = "set"
    /\ Goto(r, "remove")
    /\ pending' = [pending EXCEPT ![r] = {f[1] : f \in found[r]}]
    /\ removing' = removing \cup {<<r, f[1]>> : f \in found[r]}
    /\ UNCHANGED <<constVars, found, garbled, zone, announced, restarting,
                   removedBy, failedAt, faulted>>

RemoveUnfound(r) ==
    /\ step[r] = "lookup" /\ pending[r] = {}
    /\ r \notin garbled
    /\ req[r].op = "set"
    /\ Goto(r, "remove")
    /\ pending' = [pending EXCEPT ![r] = DnsServers]
    /\ removing' = removing \cup {<<r, d>> : d \in DnsServers}
    /\ UNCHANGED <<constVars, found, garbled, zone, announced, restarting,
                   removedBy, failedAt, faulted>>

SendRemovals(r) ==
    /\ step[r] = "lookup" /\ pending[r] = {}
    /\ r \notin garbled /\ found[r] # {}
    /\ req[r].op = "set"
    /\ Goto(r, "remove")
    /\ pending' = [pending EXCEPT ![r] = DnsServers]
    /\ removing' = removing \cup {<<r, d>> : d \in DnsServers}
    /\ UNCHANGED <<constVars, found, garbled, zone, announced, restarting,
                   removedBy, failedAt, faulted>>

RemoveReply(r, d) ==
    /\ step[r] = "remove"
    /\ d \in pending[r]
    /\ r \in removedBy[d]
    /\ pending' = [pending EXCEPT ![r] = @ \ {d}]
    /\ UNCHANGED <<constVars, step, found, garbled, remoteVars, faulted>>

(* Mutation of SendRestart: the removals are sent and not awaited.         *)
RestartAtOnce(r) ==
    /\ step[r] = "remove"
    /\ Goto(r, "restart")
    /\ restarting' = restarting \cup {r}
    /\ UNCHANGED <<constVars, batchVars, zone, announced, removing, removedBy,
                   failedAt, faulted>>

(* remove_zone looks at no response: the restart follows either way.       *)
SendRestart(r) ==
    /\ step[r] = "remove" /\ pending[r] = {}
    /\ r \notin garbled
    /\ Goto(r, "restart")
    /\ restarting' = restarting \cup {r}
    /\ UNCHANGED <<constVars, batchVars, zone, announced, removing, removedBy,
                   failedAt, faulted>>

BatchCrashes(r) ==
    /\ step[r] \in {"lookup", "remove"} /\ pending[r] = {}
    /\ r \in garbled
    /\ Goto(r, "crashed")
    /\ UNCHANGED <<constVars, batchVars, remoteVars, faulted>>

RestartReply(r) ==
    /\ step[r] = "restart"
    /\ r \notin restarting
    /\ Goto(r, "succeeded")
    /\ UNCHANGED <<constVars, batchVars, remoteVars, faulted>>

(* The restart failed: an exception ends the request, a response with an   *)
(* error status is not looked at.                                          *)
RestartFault(r) ==
    /\ step[r] = "restart"
    /\ \E s \in {"crashed", "succeeded"} : Goto(r, s)
    /\ faulted' = TRUE
    /\ UNCHANGED <<constVars, batchVars, remoteVars>>

(* The background task logs the action after the response was sent; it may *)
(* raise, which nobody sees.                                               *)
Audit(r) ==
    /\ step[r] = "succeeded"
    /\ \E s \in {"audited", "unaudited"} : Goto(r, s)
    /\ UNCHANGED <<constVars, batchVars, remoteVars, faulted>>

InFlight(r) == step[r] \in {"exists", "lookup", "remove", "restart"}

(* The process is killed: its requests end where they are.                 *)
WorkerDies ==
    /\ \E r \in Requests : InFlight(r)
    /\ step' = [r \in Requests |->
                   IF InFlight(r) THEN "crashed"
                   ELSE IF step[r] = "succeeded" THEN "unaudited" ELSE step[r]]
    /\ faulted' = TRUE
    /\ UNCHANGED <<constVars, batchVars, remoteVars>>

(***************************************************************************)
(* The remote hosts (external)                                             *)
(***************************************************************************)

RemoteRemove(r, d) ==
    /\ <<r, d>> \in removing
    /\ removing' = removing \ {<<r, d>>}
    /\ zone' = [zone EXCEPT ![d] = NoZone]
    /\ removedBy' = [removedBy EXCEPT ![d] = @ \cup {r}]
    /\ UNCHANGED <<constVars, step, batchVars, announced, restarting,
                   failedAt, faulted>>

RemoteRestart(r) ==
    /\ r \in restarting
    /\ restarting' = restarting \ {r}
    /\ announced' = announced \cup {<<req[r].target, d>> : d \in DnsServers}
    /\ UNCHANGED <<constVars, step, batchVars, zone, removing, removedBy,
                   failedAt, faulted>>

(* A restart that failed, or whose process died, may never take effect.    *)
LoseRestart(r) ==
    /\ r \in restarting /\ step[r] # "restart"
    /\ restarting' = restarting \ {r}
    /\ UNCHANGED <<constVars, step, batchVars, zone, announced, removing,
                   removedBy, failedAt, faulted>>

(* A DNS server that has the zone keeps the master it has.                 *)
Deliver(p, d) ==
    /\ <<p, d>> \in announced
    /\ announced' = announced \ {<<p, d>>}
    /\ zone' = IF zone[d] = NoZone THEN [zone EXCEPT ![d] = p] ELSE zone
    /\ UNCHANGED <<constVars, step, batchVars, removing, restarting, removedBy,
                   failedAt, faulted>>

--------------------------------------------------------------------------------
(* What a request does by itself, without waiting for a host.              *)
Continue(r) ==
    \/ LookupNone(r) \/ LookupDone(r) \/ SendRemovals(r)
    \/ SendRestart(r) \/ BatchCrashes(r)

(* The end of a command, which the time limits bring about.                *)
SingleEnds(r) ==
    \/ Exists(r) \/ ExistsNot(r) \/ ExistsFault(r)
    \/ RestartReply(r) \/ RestartFault(r)

HostEnds(r, d) == LookupReply(r, d) \/ RemoveReply(r, d) \/ HostFault(r, d)

RequestStep(r) ==
    \/ BeginSet(r) \/ BeginLookup(r) \/ Continue(r) \/ SingleEnds(r) \/ Audit(r)
    \/ \E d \in DnsServers : HostEnds(r, d)

RemoteStep ==
    \/ \E r \in Requests : RemoteRestart(r) \/ LoseRestart(r)
    \/ \E r \in Requests, d \in DnsServers : RemoteRemove(r, d)
    \/ \E p \in PleskServers, d \in DnsServers : Deliver(p, d)

Next == (\E r \in Requests : RequestStep(r)) \/ RemoteStep \/ WorkerDies

(* Commands end (RemoteCall), the event loop goes on with the request, and *)
(* announcements arrive; that a command takes effect is not assumed.       *)
Fairness ==
    /\ \A r \in Requests : WF_vars(Continue(r)) /\ WF_vars(SingleEnds(r))
    /\ \A r \in Requests, d \in DnsServers : WF_vars(HostEnds(r, d))
    /\ \A p \in PleskServers, d \in DnsServers : WF_vars(Deliver(p, d))

Spec == Init /\ [][Next]_vars /\ Fairness
--------------------------------------------------------------------------------
(***************************************************************************)
(* Properties                                                              *)
(***************************************************************************)

Ends == {"succeeded", "audited", "unaudited", "rejected", "crashed"}
Steps == Ends \cup {"idle", "exists", "lookup", "remove", "restart"}

(* Type invariant. *)
TypeOK ==
    /\ zone \in [DnsServers -> PleskServers \cup {NoZone}]
    /\ hosting \in SUBSET PleskServers
    /\ announced \in SUBSET (PleskServers \X DnsServers)
    /\ req \in [Requests -> [op : Ops, target : PleskServers]]
    /\ step \in [Requests -> Steps]
    /\ pending \in [Requests -> SUBSET DnsServers]
    /\ found \in [Requests -> SUBSET (DnsServers \X PleskServers)]
    /\ garbled \in SUBSET Requests
    /\ removing \in SUBSET (Requests \X DnsServers)
    /\ restarting \in SUBSET Requests
    /\ removedBy \in [DnsServers -> SUBSET Requests]
    /\ failedAt \in SUBSET (Requests \X DnsServers)
    /\ faulted \in BOOLEAN

(* Request r will still restart the DNS service of its target.             *)
WillRestart(r) == step[r] = "remove" \/ r \in restarting

(* As long as no command failed, a zone that was removed from a DNS server *)
(* is on its way back: some request has yet to restart a DNS service or    *)
(* the announcement is under way.  This is what restarting after removing, *)
(* and only after every server has answered, is for, whatever requests     *)
(* overlap.                                                                *)
ZoneOnItsWay ==
    ~ faulted =>
        \A d \in DnsServers : zone[d] = NoZone /\ removedBy[d] # {} =>
            \/ \E r \in Requests : WillRestart(r)
            \/ \E p \in PleskServers : <<p, d>> \in announced

(* A zone only ever comes back with a master that has the subscription, so *)
(* that a request for the wrong server breaks nothing.                     *)
RestoredMasterHostsDomain ==
    \A d \in DnsServers :
        removedBy[d] # {} => zone[d] \in hosting \cup {NoZone}

(* A "set" that reports success has removed the zone from every DNS server *)
(* but those whose own removal failed, whatever else failed and whatever   *)
(* the other requests do: remove_zone tells every server and waits for     *)
(* every one.                                                              *)
SuccessRemovedEverywhere ==
    \A r \in Requests :
        req[r].op = "set"
              /\ step[r] \in {"succeeded", "audited", "unaudited"} =>
            \A d \in DnsServers : r \in removedBy[d] \/ <<r, d>> \in failedAt

(* A request answered 404 leaves the DNS servers as it found them, and so  *)
(* does a mere lookup, whatever failed on the way.                         *)
RejectedRemovesNothing ==
    \A r \in Requests :
        step[r] = "rejected" \/ req[r].op = "get" =>
            \A d \in DnsServers : r \notin removedBy[d] /\ <<r, d>> \notin removing

(* The zone was removed, is on no DNS server, and nothing under way brings *)
(* it back: the process died, a batch was garbled or a restart failed      *)
(* after the removals, and a request that still looks has found nothing.   *)
Lost ==
    /\ \E d \in DnsServers : removedBy[d] # {}
    /\ \A d \in DnsServers : zone[d] = NoZone
    /\ announced = {}
    /\ restarting = {}
    /\ \A r \in Requests :
          step[r] # "remove" /\ (step[r] = "lookup" => found[r] = {})

(* get_zone_masters must find the zone somewhere before "set" goes on: a   *)
(* zone lost between its removal and the restart is lost for good, and the *)
(* repeated request that should repair it never succeeds.                  *)
LostStaysLost ==
    [][Lost =>
          /\ Lost'
          /\ \A r \in Requests :
                step[r] \in {"idle", "exists", "lookup"} =>
                    step'[r] # "succeeded"]_vars

(* A removed zone comes back, unless a command failed.                     *)
ZoneReturns ==
    \A d \in DnsServers :
        zone[d] = NoZone /\ removedBy[d] # {} ~> zone[d] # NoZone \/ faulted

(* test_remove_zonemaster_endpoint.py: "DNS zone removal failed for host"  *)
(* is raised when a DNS server did not remove the zone, so that a success  *)
(* means that every one did.                                               *)
FailedRemovalIsReported ==
    \A r \in Requests :
        req[r].op = "set" /\ step[r] \in {"succeeded", "audited"} =>
            \A d \in DnsServers : r \in removedBy[d]
================================================================================
