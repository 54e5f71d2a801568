# A TLA+ model of sysAdminToolboxBackend

The backend lets the administrators of a hosting company act on Plesk and DNS
servers: it signs operations, sends them over SSH, and keeps its users and an
audit log in PostgreSQL. This directory models the parts of it where order,
overlap and failure matter, checks them with TLC on small instances and proves
the main results with TLAPS for every value of the constants. Paths below are
relative to `src/app/`.

## 1. Inventory

| part | source | state | operations | talks to |
|---|---|---|---|---|
| adaptive timeout | `signed_executor/async_ssh_handler.py:22-44` | local to a call | await under a growing limit | asyncio |
| SSH pool and commands | `signed_executor/async_ssh_handler.py`, `main.py` | `_connection_pool` of the process | fill, reuse, reconnect, execute, execute in a batch, close | adaptive timeout, host directory, asyncssh |
| signed executor client | `signed_executor/signed_executor_client.py`, `schemas.py:361-473` | one signer per process | sign, run on one or many hosts, parse the answers | SSH pool, token signer |
| token signer | `core/token_signer.py` | a key in memory; two key files when local | generate, load, sign, show the public key | files |
| host directory | `core/DomainMapper.py` | two dictionaries | populate, add, remove, resolve | settings |
| zone master requests | `api/plesk_router.py`, `api/dns_router.py`, `dns/dns_service.py`, `plesk/plesk_service.py` | none of their own; that of the remote servers | set, look up, delete | signed executor client, audit trail |
| other Plesk requests | `api/plesk_router.py` | none | login link, test mail, search, public key | signed executor client |
| user accounts | `users/users_router.py`, `auth/password_reset.py`, `db/crud.py`, `core/dependencies.py` | table `user` | sign up, create, update, change password, reset, delete | PostgreSQL, mail |
| audit trail | `core_utils/loggers.py`, `db/crud.py:75-191` | table `log_user_activity`, a file | append from background tasks, search by page | PostgreSQL, action log |
| action log rotation | `core_utils/loggers.py:112-137` | the file, its compressed backups, a stream per process | write, rotate | file system |
| login and access tokens | `auth/auth_router.py`, `core/security.py`, `core/dependencies.py`, `auth/password_reset.py`, `core_utils/utils.py` | `SECRET_KEY` of each process; the tokens clients hold | log in, act, recover, reset | user accounts, mail |
| DNS resolver | `dns/dns_resolver.py`, `dns/dns_service.py:104-142` | none | query name servers | aiodns |
| start-up | `backend_pre_start.py`, `core/db.py`, `db/initial_data.py` | table `user` | wait for the database, first superuser | PostgreSQL |
| settings, mail templates, migrations, access log | `core/config.py`, `core_utils/utils.py`, `alembic/` | none | | |

What makes them hard:

* **Overlap.** One event loop runs many coroutines over one connection pool; the
  endpoints of the users run in threads of several processes over one table. Both
  check something, wait, and then act on what they saw.
* **Failure.** A command on a remote host has three outcomes: done, not done, and
  not known. Setting a zone master is three batches of such commands that no
  transaction holds together, and the process may die between them.
* **Order.** The zone must be removed everywhere before the new master announces it.
* **Limits.** Retries and growing timeouts decide how long a request hangs, and
  whether start-up ends at all; a signed operation expires while it waits.
* **Tokens.** They cannot be taken back, and the accounts they name change.
* **Files.** Processes share key files that are written in steps, and a log that each
  of them rotates.

What makes each part correct is listed with its module below; the hazards, each at
its line, are in `PROJECT.json`.

## 2. Modules

Each component has a module with its state, actions, specification and properties;
`MC<module>` gives it small instances for TLC; `<module>_proofs` has its theorems.
Those of `AdaptiveTimeout` are in `ExecutorRequest_proofs` and those of `DomainMapper`
in `SshPool_proofs`, beside the ones that use them; that is why the specifications of
these two have prefixed names (`ATSpec`, `DMSpec`).
An operator whose comment begins with *Mutation of* is a plausible slip in the code,
kept beside the definition it would replace: put in its place, it breaks the
property `PROJECT.json` pairs it with. They take no part in the specifications.

| module | models | composed with |
|---|---|---|
| `AdaptiveTimeout` | one call of `run_with_adaptive_timeout` | |
| `RemoteCall` | abstract: what a caller may conclude about one command | |
| `SshPool` | the pool and the commands of one process | implements `RemoteCall` |
| `ZoneMaster` | the zone master requests for one domain, and what the servers do | assumes of commands what `RemoteCall` allows |
| `ExecutorRequest` | one signed operation on many servers, from its token to the answer of the endpoint | its limit on connecting is what `AdaptiveTimeout` proves |
| `AccountTable` | abstract: what may become of an account, whoever writes it | |
| `UserAccounts` | the endpoints that change the user table | implements `AccountTable` |
| `AccountTokens` | logins, access tokens, recovery tokens, the first superuser | takes the endpoints of `UserAccounts` as statements of others; implements `AccountTable` |
| `SigningKey` | which key signs, in every process | |
| `AuditTrail` | an audited request from its answer to its entry and its row, and the history read back by pages | takes deletions of users as `UserAccounts` has them |
| `ActionLog` | the file of the audit trail and its rotation by several processes | is the file `AuditTrail` appends to |
| `DomainMapper` | the dictionaries behind `HOSTS` | |

### AdaptiveTimeout

A behaviour is one call. `args` are the arguments after the swap (lines 29-32);
`Answer` is `wait_for` returning or raising anything but a timeout;
`TimeoutCounted` and `TimeoutUncounted` are the `except` branch with and without
`max_retries`. `elapsed` is a history variable. Time is in units of 5 s: the call
the pool makes, 15 s growing to 30 s with three retries, is `base = 3, cap = 6,
factor = 2, retries = 3`.

*Properties.* The loop is never left by its condition (`NeverFallsThrough`; the
function would return `None` and the pool would store it). A call waits at most
`base + retries * cap` (`WithinBudget`: 105 s for the pool's). A limited call ends
(`LimitedCallEnds`).

### SshPool and RemoteCall

An action is what runs between two awaits. `pc` is where a coroutine stands:
`queued` at the semaphore of the start-up, `connecting`, `running` a command, or
one of the ends. `Store` is line 62, whatever the pool holds by then;
`CallReuses` and `CallCreates` are the two ways through `_get_connection`. A
command's request is on the `wire` from the moment it is sent until the remote
host runs it or it is lost; `RunTimeout` ends the caller's wait and leaves it
there. What the network, the hosts and asyncssh do (`RemoteExecute`,
`LoseRequest`, `ConnectionLost`) is external. `contested` remembers the hosts for
which two coroutines connected at the same time, or that are in the start-up list
twice (the list is the Plesk servers followed by the DNS servers, `main.py:40`).

*Properties.* An open connection is the one in the pool, unless its host was
contested (`OpenIsPooled`), and a live one is not replaced (`LiveIsKept`); a
command is sent once, over a connection to its own host that is open at that moment
(`SentToOwnHost`, an action property: the connection may be lost in the next step);
the application starts (`StartupEnds`).
`ImplementsRemoteCall` puts together what a caller may rely on: `Outcome` maps the
end of a command to *answered* (it ran), *refused* (it did not and will not) or
*unknown* (it may still run), and no command runs twice. `ExecutedAtMostOnce` and
`UnsentStaysUnsent` say the parts of it that need no abstraction; they are proved.

The timeout of the pool is not `AdaptiveTimeout` itself: `ConnectTimeout` counts
attempts without time.

### ZoneMaster

`step` is the command a request waits for. "set" goes through `exists`, `lookup`,
`remove` and `restart` (`set_zonemaster`); "get" and "delete" begin with `lookup`.
`pending` are the DNS servers a batch still waits for: `execute_on_servers` returns
when all have answered or failed. A fault may be an exception (the request
crashes), an error response (which `remove_zone` and `restart_dns_service_for_domain`
do not look at, and `is_domain_exist_on_server` reads as *no subscription*), or, in
a batch, an answer that is not JSON (`garbled`). A faulty command may still take
effect later, which is why removals and restarts are in the sets `removing` and
`restarting` until the server executes them; a restart whose command failed may also
never happen (`LoseRestart`). `WorkerDies` kills the process. `removedBy` and
`failedAt` are history: which requests' removals a server executed, and which removals
failed.

External: a DNS server forgets a zone that is removed and takes it from the next
Plesk server that announces it; a Plesk server announces after a restart. The code
relies on this and on nothing else of them.

*Properties.* As long as nothing failed, a removed zone is on its way back
(`ZoneOnItsWay`, `ZoneReturns`) whatever requests overlap; it only returns with a
master that hosts the domain (`RestoredMasterHostsDomain`). Also under faults, a
request answered 404 changed nothing (`RejectedRemovesNothing`), and a success lacks
no removals but those that failed themselves: each server was told and waited for,
whatever happened at the others (`SuccessRemovedEverywhere`). And the bad news, as a
property of its own. `Lost` is what a process that dies after the removals leaves, or
a restart that fails: the zone was removed, is on no server, nothing is announced or
restarting, and no request is past its lookup with the zone in hand. From there no
later request brings it back, and none that has yet to look for it succeeds, because
`get_zone_masters` has to find it first (`LostStaysLost`).

Deleting a zone that exists never gets to removing it: `delete_zone_file_for_domain`
indexes the list of `get_zone_masters` with `"answers"` (`dns_router.py:136`) and
catches `RuntimeError` only. `LookupDone` ends such a request as crashed, where
`test_remove_zonemaster_endpoint.py:63` expects *Zone master deleted successfully*.

### ExecutorRequest

A behaviour is one request: "info" searches every server at once
(`fetch_subscription_info`), "link" and "mail" go to one. `phase` is where a
worker of the batch stands: `queued` at the semaphore, `connecting`, `running`,
`done`. The token is signed at time 0, and `sentAt` is when a command left. `Tick`
lets time pass only while nothing that has its turn or its limit is left undone
(`AtLimit`), which is what timers do; the time the event loop itself takes is
neglected. A `result` is what the worker returned: an exception, nothing on
stdout, no JSON, or a reply with a status text, spelled as the value of a status,
in words, or in neither way (`FromString`), and a payload that does or does not fit
the model of the answer. `Truth` is what an executor that works answers (external);
`faulty` remembers the servers that did not get to say it. The answers are those of
`PleskService`, one action per operation.

*Properties.* No command leaves with an expired token (`TokenFreshWhenSent`), if
`((N - 1) \div Permits) * (MaxConnect + MaxRun) + MaxConnect < Expiry`: with 100
permits, 105 s to connect (`WithinBudget`), 5 s to run and 900 s to live, up to 800
servers. A search lists exactly the servers that have the domain, the failed ones
left out (`BatchAnswerIsTrue`); a link or a mail is given out for what exists, and
its *404* is true, but for a mail whose server failed (`SingleAnswerIsTrue`: the
asymmetry is the code's, `plesk_service.py:78` looks at the status and line 98 only
at the payload). Every request is answered (`RequestEnds`).

### UserAccounts

An action is one database statement with the code up to the next one. `me` is what
`get_current_user` read, `seen` what the endpoint read, `subject` the id it will
write. `Store` is a write with its commit: the unique index on the email makes it
fail; so does the foreign key of the log in `Delete`. `update_user` reads twice, its
user in `FindUser` and the holder of the new email in `CheckUpdate`. Reads see the last commit
(PostgreSQL's default), and the row objects of one read do not outlive it, so the
next one reads anew. The body of an update names one field; ADMIN is left out,
since it may do to this table what USER may. `raced` remembers the requests that
another one overtook: while they were under way it wrote the row of their caller or
of their subject, or a row with the email they are about to write (`ReliesOn`). Writes
to other rows, however they overlap, excuse nothing.

*Properties.* A request that was not overtaken does not fail after its checks, but for
the deletion of a logged user (`FailureNeedsARace`; the overtaken one ends with an
internal error where its own check would have answered 400 or 409); a superuser deletes
itself, or a password update takes back another change, only when it was overtaken
(`SelfDeletionNeedsARace`, `LostUpdateNeedsARace`; that the first happens to requests
that were is shown by the run `UserSelfDeletion`). In any overlap logged users stay (`AuditedUsersStay`), and
deletions leave an active superuser unless one who is deleting another is overtaken
(`SuperuserRemains`): two superusers who delete each other leave none.

`AccountTable` is what the rest of the program may rely on, whoever writes: an account
begins active under a fresh id, changes while it is there, and never comes back once it
is deleted, even if a request that read it before writes it after
(`ImplementsAccountTable`). The mapping is `AccountOf`, which leaves the role out, since
no other part looks at it. It is the same table for `AccountTokens`, whose statements of
others are the abstract steps `Create`, `Update` and `Delete`: `UserAccounts` shows that
its endpoints make no other ones.

### AccountTokens

A token has the `sub` and `exp` that are signed and the `key` it was signed with;
`kind`, `owner` and `born` are history. An access token has the id of its user in
`sub`, a recovery token an email; the code tells them apart by nothing else, since
both are signed with `SECRET_KEY`. `Begin` takes a request to a process and
decodes its token; `Look...` is its read of the user table, `Issue` and `Write` what it
does then. `Restart` ends a process with its requests and starts it with the
configured key or, if the environment gives none, with a new one
(`core/config.py:34`). `LookInit` and `Insert` are the two halves of `init_db`, in
each container that starts. `Update`, `Delete` and `Create` are single statements of
the endpoints of `UserAccounts`; an `Update` may write any row, since
`update_password_me` writes back all that it read, however long ago. `barred` remembers who was
not active at any moment of a request, `moved` the emails given up.

*Properties.* A request acts as the user who logged in, within the life of the
login, and only if that user was active at some moment of the request
(`ActsForItsUser`); a reset reaches the account the mail was asked for, or that of
whoever took over its email (`ResetReachesItsUser`: that exception is real, and
nothing in the repository says whether it is meant). What is refused as invalid had
expired, or was signed by another process or before a restart while no key was
configured; what is not found was deleted or moved (`TokensAreHonoured`). There is
one first superuser however many start-ups overlap (`FirstSuperuserOnce`); the one
that loses the race crashes, and may start again. No reset or start-up writes what
`AccountTable` does not allow (`ImplementsAccountTable`).

### SigningKey

`Begin`, `Assign` and `Take` are the three accesses of
`SignedExecutorClient.__init__` to the signer of its class; between them another
thread may run. In the local environment the keys are in two files shared by all
processes; opening one for writing empties it (`OpenPrivate`, `OpenPublic`), and
the key is in it when it is closed. `Restart` kills a process. `overtaken` are the
requests that took their signer while another one of their process was constructing
one; `torn` says that two requests wrote the files at once, `cut` that one was killed
while it wrote them.

*Properties.* A client signs with the key that its process shows, also in a process
whose first requests constructed two signers: the one replaced is only held by a client
that was overtaken (`OneKeyPerProcess`; that keys are complete, `ClientsHaveKeys`, is
proved with the types). Local processes share the key in the files over restarts unless
two wrote them at once; those may leave a private key of one and a public key of the
other, but they leave keys, so that later starts work (`LocalKeyIsShared`). Only a kill
leaves a file without a key in it; such files stay so, and every later start fails on
them (`WedgedStays`).

### AuditTrail

`step` is where an audited request stands: `acting` while its remote commands run,
`answered` when the user was told of success and the background task is due,
`entered` between the file and the table, `ended`. `act` says whose it is, of
which kind, from which address; an address is *short*, *long* (IPv6, which
`String(15)` does not hold) or *many* (a list in `X-Forwarded-For`, which is no
address). `TakeEffect` is external. A reader of the history is `asked` before its
count and `counted` between the count and the page; a page is any set of rows of
the right size, because the query has no order. `raced` remembers the readers that
a row overtook there, `lost` the entries that could not be written and `killed` the
requests whose process died.

*Properties.* Either trail only holds what happened, setting a zone master aside,
which is logged whatever its commands answered (`LoggedHappened`); a row has its
entry unless the file could not be written (`RowsAreEntered`); what the user was
told succeeded has its row, or the process died, the address was not a short one,
or the user was deleted before (`UnloggedNeedsACause`: nothing else can go missing).
A history that is answered shows login links of its own user only
(`HistoryShowsOwnLinks`): rows of other kinds cannot be turned into an answer, and
one of them on the page fails the request. Also for readers that were overtaken every
page up to `total_pages` has rows, and all but the last are full; what came between the
two queries can only show on a page beyond (`PagesMatchTheirNumber`).

### ActionLog

Each worker process has a handler with a `stream` of its own on the one file; files
are numbered, `base` is the one that has the name, `content` what is in each. The
steps of a worker are those of `emit`: `check` the size, and if the entry does not
fit close the stream, `shift` the backups from the oldest down, `compress` the file
into backup 1, `remove` it, `reopen` it, and `write`. The rotator is this code's;
the rest is the standard library's, as Python 3.10 has it, and external. An entry
has size 1 and its number for its content. A copy that is cut short leaves a
`broken` backup. `age` counts the rotations begun since an entry was written;
`astray` are the entries written by one worker while another one rotated, or
after it did, and those in the log when two rotations overlapped; `causes` says what
disturbed a behaviour.

*Properties.* An entry that is not astray stays readable until `BackupCount` further
rotations began, whatever dies or fills up on the way (`KeptWhileRecent`); as long
as nothing did and no rotations overlapped, each is there exactly once
(`UndisturbedLogIsExact`). What these leave out is real: entries that go to a file
another process is removing are lost, two rotations at once overwrite each other's
backups, and an interrupted rotation doubles entries.

### DomainMapper

`Populate` is one round of the loop of `update_mappings` over the settings,
`AddMapping` the same for a later addition. A list of addresses is a set.
`remove_ip` does what its loop does: it runs over the letters of a name and finds
nothing to remove. `former` are the addresses a host was given once and not when it
was given again; they still point to it.

*Properties.* `MappingsAgree`: whatever is removed, an address resolves to a host that
has it, or that has it in `former` (`ResolvedHostHasIp`); as long as nothing is removed
every address of a host resolves, unless it still points to a host that was given
again without it and has no address left (`HostIpsResolve`).

## 3. Runs

| run | instance | shows |
|---|---|---|
| `AdaptiveTimeout` | bases and caps 1, 2, 3, 6 (either order), factors 1 and 2, 0, 1, 3 or unlimited retries; unlimited calls followed for `MaxElapsed` = 21 units | `NeverFallsThrough`, `WithinBudget`, `LimitedCallEnds` |
| `SshPool` | 2 hosts, 2 connections, 2 commands, 1 permit, 1 retry | `OpenIsPooled`, `SentToOwnHost`, `LiveIsKept`, `StartupEnds`, `ImplementsRemoteCall` |
| `ZoneMaster` | 2 DNS servers, 1 Plesk server, 2 requests of any kind | the four invariants, `LostStaysLost`, `ZoneReturns` |
| `ZoneMasterFailure` | 1 "set" request | `FailedRemovalIsReported` violated |
| `ExecutorRequest` | 3 servers, 2 permits, 2 units to connect, 1 to run, 6 to live; every operation, every answer | `TokenFreshWhenSent`, `BatchAnswerIsTrue`, `SingleAnswerIsTrue`, `RequestEnds` |
| `UserAccounts` | 3 ids, 3 emails, 2 requests of any kind | `FailureNeedsARace`, `AuditedUsersStay`, `SelfDeletionNeedsARace`, `LostUpdateNeedsARace`, `SuperuserRemains`, `ImplementsAccountTable` |
| `UserSelfDeletion` | 2 requests | `SuperusersDoNotDeleteThemselves` violated |
| `AccountTokens` | 2 ids, 2 emails, 1 password, 2 processes, 1 thread, 1 token, 2 start-ups, 2 statements of others, 1 restart, lives 2 and 1, clock to 2 | `ActsForItsUser`, `ResetReachesItsUser`, `TokensAreHonoured`, `FirstSuperuserOnce`, `ImplementsAccountTable` |
| `SigningKey` | 2 processes, 3 requests, 3 keys, local and not | `OneKeyPerProcess`, `LocalKeyIsShared`, `WedgedStays` |
| `AuditTrail` | 2 users, 2 requests (login links and zone masters), 1 reader, pages 0 to 2 of 1 or 2 rows | `LoggedHappened`, `RowsAreEntered`, `UnloggedNeedsACause`, `HistoryShowsOwnLinks`, `PagesMatchTheirNumber` |
| `ActionLog` | 2 processes, 7 entries, room for 2 in a file, 2 backups | `KeptWhileRecent`, `UndisturbedLogIsExact` |
| `DomainMapper` | 3 hosts, 2 addresses, 4 settings, any later additions and removals | `MappingsAgree` |

The type invariants are proved, for every instance, and not run.

**Why the bounds are enough.** The races are between two actors over one key: two
coroutines and one host, two requests and one row, two processes and one file. A
third connection, key, user or email is there so that a third party can be bystander
or successor (the connection that replaces the replaced one, the user created
in between). Two DNS servers tell *some* from *all*. The number of connections of a
behaviour is bounded by `Conns`: with none left, an attempt can only time out or
fail. `SshPool` has two connections for two hosts, so that each may be connected at
start-up, or one of them twice.
Requests and commands are made once each; a client that repeats one is a second
request. In `ExecutorRequest` the third server is the one that waits for a
permit, and the bound `SizeAssumption` is met with nothing to spare: 5 < 6. Seven
entries of `ActionLog` fill two backups and the file and let the oldest one go. In
`AccountTokens` two changes are one to move an email and one to give it to another
account; one token is enough, since no property relates two; the token
may be used any number of times, and one password, since a wrong one only ends a login
as *absent*. `ZoneMaster` has one Plesk server, which may host
the domain or not; that requests name different ones is left to the proofs. The
proofs do away with the bounds for every safety property they cover; a
host that is in the start-up list twice is left to them.

**Deadlock** is not checked in runs of systems that really stop: a call that ended,
an application that shut down, a set of requests that are all answered, a log whose
entries are used up, accounts whose ids and changes are. What must not stop early is stated as liveness. `DomainMapper` never stops and is checked.

**Symmetry** is used in `AuditTrail`, `ActionLog` and `AccountTokens`, over values no
definition tells apart; they check invariants, and `AccountTokens` a refinement whose
abstract steps do not tell them apart either. No liveness is checked with it.

**Fairness.** Only what the event loop and its timers bring about:
a timeout fires (`ConnectTimeout`, `RunTimeout`, `TimeoutUncounted` and
`TimeoutCounted`), a free permit is taken (`StartConnecting`), a finished `gather`
continues (`StartupDone`), a request continues after its command ended
(`Continue`), a worker with a permit goes on and a request whose workers are done is
answered (`Begin`, `AnswerStep`), time passes (`Tick`), commands end one way or another (`SingleEnds`, `HostEnds`; that is
what `LimitedCallEnds` and `ImplementsRemoteCall` establish of them). Nothing is
assumed of the remote hosts except that an announcement that was sent arrives
(`Deliver`); in `ExecutorRequest` a wait need not end before its limit. `UserAccounts`,
`AccountTokens`, `SigningKey`, `AuditTrail`, `ActionLog` and `DomainMapper` need no
fairness.

## 4. What the violations show

Two runs show places where the program does not do what the repository says (see
`findings` in `PROJECT.json`): a failed zone removal is reported as success, where a
test expects an error (`ZoneMasterFailure`), and a superuser can delete itself
(`UserSelfDeletion`); that this takes an overlapping write is `SelfDeletionNeedsARace`.

Others are said by the exception in a property that holds, or by one action:

* two coroutines that reconnect to one host at once leave a connection open that
  *All SSH connections closed* (`async_ssh_handler.py:129`) does not close; this is
  the only way (`OpenIsPooled`);
* a password update takes back what an administrator changed after it read the row,
  and only an overlap does it (`LostUpdateNeedsARace`);
* a recovery token resets another account once its email changed hands
  (`ResetReachesItsUser`);
* a server that fails is answered as *no subscription* when a test mail is asked for
  (`SingleAnswerIsTrue`);
* two superusers who delete each other at the same time leave none
  (`SuperuserRemains`);
* two processes that write the key files at once may leave a private key and a public
  key that do not belong together (`LocalKeyIsShared`);
* a zone that was removed and not restarted, because the process died or the restart
  failed, is refused by every later request (`LostStaysLost`);
* deleting an existing zone ends in a `TypeError` (`ZoneMaster`, `LookupDone`), and
  `remove_ip` leaves the address in its host's entry (`DomainMapper`, `RemoveIp`).

## 5. Proofs

All from the assumption named `ConstantsAssumption` (`ArgSetAssumption`) of the
module, and `SizeAssumption` of `ExecutorRequest`; TLC evaluates them in its runs. They
say of which kind the constants are, that the values standing for *nothing* are none of
the things they stand beside, and that the tables of users to begin with obey the unique
index. Every safety property of a passing run is proved; where an invariant is not
inductive, the inductive one it follows from was checked by TLC before it was proved.

* `SshPool_proofs`: `TypeCorrect`, `PoolCorrect`, `LiveConnectionsKept`,
  `CallsCorrect`, `OwnHostCorrect`, `RefinesRemoteCall`. A pool entry is a connection
  opened to that host; two coroutines that create a connection to one host have made
  it contested; while one creates, an uncontested pool holds no open connection to
  it. For the commands: what is on the wire was not executed, and what was sent has a
  connection. With these, each action is one step of `RemoteCall` or leaves it
  unchanged.
  `OwnHostCorrect`: only `CallReuses` and `CallConnected` send, one over a pool entry it
  finds open, the other over the connection it has just opened.
  Of the host directory: `MapperTyped`, `MapperCorrect`, `MappingsCorrect`. Every
  address that points to a host is in its list, or in `former` of it.
  `ConfiguredHostsKnown`: the servers the pool is to connect to, those of the settings,
  are known with every address they were given but those they were not given again,
  until something is removed.
* `ZoneMaster_proofs`: `TypeCorrect`, `ZoneNeverLost`, `MastersCorrect`,
  `SuccessCorrect`, `RefusalCorrect`, `LostForGood`. Without a fault, a server that
  still has a removal of a request ahead of it is one the request still waits for, so
  the request has its restart ahead too; announcements only come from servers that
  host the domain. For `SuccessCorrect`, faults included: a server that a request waits
  for no longer has executed its removal or failed it. For `LostForGood`: a restart comes
  from a request that found the zone; of those that are past their lookup `Lost` rules
  that out, and for the others there is none to find on any server.
* `ExecutorRequest_proofs`: `TypeCorrect`, `TokenFresh`, `BatchCorrect`,
  `SingleCorrect`. The permits are granted in the order of the list, so that when
  server `i` gets one, `(i - 1) \div Permits` rounds at most have passed, each no
  longer than `MaxConnect + MaxRun`: the invariant orders the servers' beginnings and
  counts those still holding a permit against the time (lemmas on the cardinality of
  the holders and on division), and `SizeAssumption` does the rest. For the answers:
  the result of a server that is not faulty is the truth about it, and the truth is
  never *unauthorized*, because the token is fresh.
  Of the adaptive timeout: `TimeoutCorrect` and its parts `CallTyped`, `NeverNone`,
  `BudgetKept`. The inductive invariant bounds the time by the attempts: at most the
  base for the first and the cap for each later one, with the current timeout between
  base and cap. What the two modules owe each other: `ConnectLimit`, the call of
  `_create_connection` waits at most 105 s, and `EightHundredServers`, with this limit
  and the code's other numbers `SizeAssumption` holds exactly up to 800 servers.
* `UserAccounts_proofs`: `TypeCorrect`, `AuditedCorrect`, `SelfDeletionCorrect`,
  `FailureCorrect`, `PasswordUpdateExact`, `SuperuserStays`. A request that was not
  overtaken (`Undisturbed`) still sees what it read: `me` and `seen` equal the table, the
  row it is to write is there, and nobody else has the email it wants. What the others
  write keeps this, because a write to any of these rows or emails puts the request into
  `raced`. `SuperuserStays` assumes that every table of `FirstRows` has an active
  superuser; the one who deletes another is still there when it does.
  `RefinesAccountTable`: each write is a `Create`, `Update` or `Delete` of
  `AccountTable`, all else a stutter. It needs that the id a deletion is about to write was once a user's (`Found`), so that
  a stale one finds a row or nothing, and never a fresh id. From the same facts
  `DeletedForGood`: the id of a deleted user is never in use again.
* `AccountTokens_proofs`: `TypeCorrect`, `AccessCorrect`, `ResetCorrect`,
  `TokensCorrect`, `FirstSuperuserCorrect`, `RefinesAccountTable`. The inductive
  invariant has four parts. Of the control: an idle request holds nothing, and the
  others have a process and a call. Of the table: the emails are unique, and what
  start-ups made is the account of the first email unless it was given up. Of every
  token: its `sub` is what its kind says, its key is the configured one or one that was
  made, its owner's id was used, and the owner of a recovery has the email still or the
  email is in `moved`. Of every request (`Good`): what it may rely on at each statement,
  whatever came since its token was decoded; that nobody is `barred` who is active is
  what ties the check of the account to the moments before it.
* `ActionLog_proofs`: `TypeCorrect`, `RecentKept`, `UndisturbedExact`, for any number of
  workers, entries and backups. For `RecentKept`: an entry that is not astray is in the
  file while the file was not compressed, and afterwards in a backup whose number is
  less than its age (`Saved`); for the worker that rotates, the backup is one its loop
  has moved already or has yet to move (`Spared`), for it overwrites the others
  (`SafeFrom`). That a new file is a new one needs as many numbers as
  workers and one more (the pigeonhole lemma `FreeFile`). For `UndisturbedExact`: with
  one rotation at most (`Alone`) no number is used twice (`Numbered`), and an entry is in
  one backup at most, and in the file as well only between compressing and removing it
  (`Single`).
* `SigningKey_proofs`: `TypeCorrect`, `KeyCorrect`, `FilesCorrect`, `WedgedForGood`.
  Once a client that was not overtaken is made, nobody constructs in its process any more,
  and a signer is there, so that nobody begins to (`NoneConstructs`). While no two write
  the files, there is at most one writer, each of its steps determines both files, and
  without a writer they agree (`FilesWhole`); also with several, whoever emptied a file
  has yet to write it, unless it was killed (`EmptyIsBeingWritten`).
* `AuditTrail_proofs`: `TypeCorrect`, `TrailCorrect` and its parts `LoggedCorrect`,
  `RowsCorrect`, `GapsExplained`, `HistoryCorrect`; `PagesCorrect`. The step of a
  request says which trail it may be in: an answered one took effect, an entered one
  is in the file or could not be, a row ends its request. Between the queries of a reader
  its total can only fall behind the rows that match (`TotalIsFresh`). The pages rest on a lemma
  about division (`PageArithmetic`): page `p` begins before row `n` exactly if `p` is
  at most the number of pages.

Only model-checked: liveness under fairness, which is out of the prover's reach
(`LimitedCallEnds`, `StartupEnds`, `ZoneReturns`, `RequestEnds` and the liveness of
`ImplementsRemoteCall`).

`RemoteCall` and `AccountTable` are specifications of the callers' view and stand for
no code of their own.

## 6. Not modelled

Cryptography, JSON and the remote programs are taken for what the code uses them
for. DNS queries (`dns_resolver.py`) are independent of each other and keep no state.
`backend_pre_start.py` repeats one query up to 300 times and keeps none either.
Settings, mail templates, migrations and the access log have no behaviour to speak
of. The mail templates are in `email-templates/build`, while `render_email_template`
reads them from `core_utils/email-templates/build` (`core_utils/utils.py:27`): run from
the repository as it is, recovering a password raises there, and so does the mail to a
created user, whose row is written by then. The modules take a deployment that puts the
templates where the code looks; otherwise no recovery token leaves the program and the
resets of `AccountTokens` and `UserAccounts` are the behaviours it lacks. The old `signed_executor/signed_executor.py` is not
imported. In `ExecutorRequest` the requests of others are left out: a connection they
make at the same time is waited for no longer than one's own.

## 7. Plan

Written in this order, most important first: `AdaptiveTimeout`, `SshPool` with
`RemoteCall`, `ZoneMaster`, `UserAccounts`, `SigningKey`, `DomainMapper`,
`AuditTrail`, `ExecutorRequest`, `ActionLog`, `AccountTokens` (done). The project
keeps to a dozen runs and forty properties, so that what is added below joins an
existing run or takes the place of a weaker one. To come:

1. `NameServers`: the answers of public name servers merged by name
   (`dns_service.py:125-142`), where two entries of one name overwrite each other.
2. The bounded retry of `backend_pre_start.py` before `LookInit`.

The proofs follow the same order and cover the safety properties of all modules (done);
what is left for them are the abstract specifications that are not written yet: one of
the zone master requests as seen by a client, and one of the audit log as a list of
events, which `AuditTrail` and `ActionLog` would both refine.
