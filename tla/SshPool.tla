-------------------------------- MODULE SshPool --------------------------------
(***************************************************************************)
(* app/signed_executor/async_ssh_handler.py: the pool of SSH connections,  *)
(* shared by every coroutine of a worker process, from the start of the    *)
(* application (initialize_connection_pool) to its end                     *)
(* (close_all_connections), and the commands sent over it.                 *)
(*                                                                         *)
(* One action is what runs between two awaits.  Checking the pool and      *)
(* storing the connection made for it lie on two sides of an await, so     *)
(* two coroutines may both create a connection to one host.                *)
(***************************************************************************)
EXTENDS Naturals, Sequences, FiniteSets

CONSTANTS
    Hosts,        \* SSH servers, the keys of _connection_pool
    Conns,        \* connections that may be opened in a behaviour
    Calls,        \* commands executed in a behaviour
    StartList,    \* ssh_host_list: the Plesk servers, then the DNS servers
    Permits,      \* asyncio.Semaphore(100) of initialize_connection_pool
    MaxRetries,   \* max_retries of _create_connection
    NoConn        \* no connection

(* The coroutines: one per entry of ssh_host_list, and one per command.    *)
Starters == DOMAIN StartList
Tasks == Starters \cup Calls

(* With an empty list initialize_connection_pool raises ValueError and the *)
(* application does not start.                                             *)
ASSUME ConstantsAssumption ==
    /\ StartList \in Seq(Hosts) /\ StartList # << >>
    /\ Starters \cap Calls = {}
    /\ Permits \in Nat \ {0}
    /\ MaxRetries \in Nat
    /\ NoConn \notin Conns

VARIABLES
    phase,      \* the application is "starting", "serving" or "stopped"
    pool,       \* _connection_pool; NoConn is an absent key
    status,     \* of each connection; "closed" is is_closed() being true
    owner,      \* the host each connection was opened to, once it was
    pc,         \* where each coroutine stands
    host,       \* the host argument of each coroutine
    via,        \* the connection each command is sent over
    attempt,    \* timeouts of each coroutine's connection attempt
    wire,       \* commands sent, neither executed nor lost yet
    executed,   \* how often the remote host ran each command
    contested   \* history: hosts two coroutines opened a connection for

connVars == <<pool, status, owner>>
wireVars == <<wire, executed>>
vars == <<phase, pool, status, owner, pc, host, via, attempt, wire, executed,
          contested>>

Creating(t) == pc[t] \in {"queued", "connecting"}
InFlight(c) == pc[c] \in {"connecting", "running"}
IsOpen(c) == c \in Conns /\ status[c] = "open"

Init ==
    /\ phase = "starting"
    /\ pool = [h \in Hosts |-> NoConn]
    /\ status = [c \in Conns |-> "unused"]
    /\ owner = [c \in Conns |-> StartList[1]]
    /\ pc = [t \in Tasks |-> IF t \in Starters THEN "queued" ELSE "idle"]
    /\ host \in [Tasks -> Hosts] /\ \A s \in Starters : host[s] = StartList[s]
    /\ via = [c \in Calls |-> NoConn]
    /\ attempt = [t \in Tasks |-> 0]
    /\ wire = {}
    /\ executed = [c \in Calls |-> 0]
    /\ contested = {h \in Hosts : \E s, u \in Starters :
                        s # u /\ StartList[s] = h /\ StartList[u] = h}

(***************************************************************************)
(* Creating a connection                                                   *)
(***************************************************************************)

(* _create_connection_with_limit enters the semaphore.                     *)
StartConnecting(s) ==
    /\ pc[s] = "queued"
    /\ Cardinality({u \in Starters : pc[u] = "connecting"}) < Permits
    /\ pc' = [pc EXCEPT ![s] = "connecting"]
    /\ UNCHANGED <<phase, connVars, host, via, attempt, wireVars, contested>>

(* asyncssh.connect returned a new connection: it is stored under its host,*)
(* whatever the pool holds there by now.                                   *)
Store(t, c) ==
    /\ pc[t] = "connecting"
    /\ status[c] = "unused"
    /\ status' = [status EXCEPT ![c] = "open"]
    /\ owner' = [owner EXCEPT ![c] = host[t]]
    /\ pool' = [pool EXCEPT ![host[t]] = c]

StarterConnected(s) ==
    /\ \E c \in Conns : Store(s, c)
    /\ pc' = [pc EXCEPT ![s] = "connected"]
    /\ UNCHANGED <<phase, host, via, attempt, wireVars, contested>>

(* A command is sent over a connection in the step that obtained it.       *)
Send(c, conn) ==
    /\ via' = [via EXCEPT ![c] = conn]
    /\ wire' = wire \cup {c}
    /\ pc' = [pc EXCEPT ![c] = "running"]
    /\ UNCHANGED executed

CallConnected(c) ==
    /\ \E conn \in Conns : Store(c, conn) /\ Send(c, conn)
    /\ UNCHANGED <<phase, host, attempt, contested>>

(* Mutation of ConnectTimeout: the attempts are not counted.               *)
ConnectForever(t) ==
    /\ pc[t] = "connecting"
    /\ UNCHANGED vars

(* run_with_adaptive_timeout: connect again, until the retries are used up *)
(* and the TimeoutError is passed on.                                      *)
ConnectTimeout(t) ==
    /\ pc[t] = "connecting"
    /\ attempt' = [attempt EXCEPT ![t] = @ + 1]
    /\ pc' = IF attempt'[t] > MaxRetries THEN [pc EXCEPT ![t] = "failed"]
                                         ELSE pc
    /\ UNCHANGED <<phase, connVars, host, via, wireVars, contested>>

(* asyncssh.connect raised something other than a timeout.  It is not      *)
(* retried; a command's caller gets an exception ("failed") or, for other  *)
(* asyncssh errors, a response without output and returncode -1 ("error"). *)
ConnectError(t) ==
    /\ pc[t] = "connecting"
    /\ \E o \in IF t \in Calls THEN {"failed", "error"} ELSE {"failed"} :
           pc' = [pc EXCEPT ![t] = o]
    /\ UNCHANGED <<phase, connVars, host, via, attempt, wireVars, contested>>

(* gather returned: every host of the list has connected or failed.        *)
StartupDone ==
    /\ phase = "starting"
    /\ \A s \in Starters : pc[s] \in {"connected", "failed"}
    /\ phase' = "serving"
    /\ UNCHANGED <<connVars, pc, host, via, attempt, wireVars, contested>>

(***************************************************************************)
(* Executing a command                                                     *)
(***************************************************************************)

(* Mutation of CallReuses: is_closed is not asked.                         *)
CallReusesStored(c) ==
    /\ phase = "serving"
    /\ pc[c] = "idle"
    /\ pool[host[c]] # NoConn
    /\ Send(c, pool[host[c]])
    /\ UNCHANGED <<phase, connVars, host, attempt, contested>>

(* _get_connection finds a live connection in the pool.                    *)
CallReuses(c) ==
    /\ phase = "serving"
    /\ pc[c] = "idle"
    /\ IsOpen(pool[host[c]])
    /\ Send(c, pool[host[c]])
    /\ UNCHANGED <<phase, connVars, host, attempt, contested>>

(* Mutation of CallCreates: the pool is not looked at.                     *)
CallCreatesAnyway(c) ==
    /\ phase = "serving"
    /\ pc[c] = "idle"
    /\ pc' = [pc EXCEPT ![c] = "connecting"]
    /\ contested' = IF \E t \in Tasks : Creating(t) /\ host[t] = host[c]
                    THEN contested \cup {host[c]} ELSE contested
    /\ UNCHANGED <<phase, connVars, host, via, attempt, wireVars>>

(* _get_connection finds none, or a dead one, and creates one.             *)
CallCreates(c) ==
    /\ phase = "serving"
    /\ pc[c] = "idle"
    /\ ~ IsOpen(pool[host[c]])
    /\ pc' = [pc EXCEPT ![c] = "connecting"]
    /\ contested' = IF \E t \in Tasks : Creating(t) /\ host[t] = host[c]
                    THEN contested \cup {host[c]} ELSE contested
    /\ UNCHANGED <<phase, connVars, host, via, attempt, wireVars>>

(* The remote host runs the command.  It may do so after the caller timed  *)
(* out or the connection was lost: nothing takes the request back.         *)
RemoteExecute(c) ==
    /\ c \in wire
    /\ wire' = wire \ {c}
    /\ executed' = [executed EXCEPT ![c] = @ + 1]
    /\ UNCHANGED <<phase, connVars, pc, host, via, attempt, contested>>

(* The request never reaches the remote host.                              *)
LoseRequest(c) ==
    /\ c \in wire
    /\ wire' = wire \ {c}
    /\ UNCHANGED <<phase, connVars, pc, host, via, attempt, executed, contested>>

(* conn.run returns the result of the command.                             *)
RunReply(c) ==
    /\ pc[c] = "running"
    /\ executed[c] > 0
    /\ IsOpen(via[c])
    /\ pc' = [pc EXCEPT ![c] = "answered"]
    /\ UNCHANGED <<phase, connVars, host, via, attempt, wireVars, contested>>

(* Mutation of RunTimeout: the command is repeated as connecting is.       *)
RunAgain(c) ==
    /\ pc[c] = "running"
    /\ wire' = wire \cup {c}
    /\ UNCHANGED <<phase, connVars, pc, host, via, attempt, executed, contested>>

(* EXECUTION_TIMEOUT passed: SshExecutionError.  The connection stays in   *)
(* the pool and the request stays on its way.                              *)
RunTimeout(c) ==
    /\ pc[c] = "running"
    /\ pc' = [pc EXCEPT ![c] = "failed"]
    /\ UNCHANGED <<phase, connVars, host, via, attempt, wireVars, contested>>

(* The connection was lost under the command: asyncssh.ConnectionLost.     *)
RunLost(c) ==
    /\ pc[c] = "running"
    /\ ~ IsOpen(via[c])
    /\ pc' = [pc EXCEPT ![c] = "failed"]
    /\ UNCHANGED <<phase, connVars, host, via, attempt, wireVars, contested>>

(* No channel could be opened for the command, which is not sent; the      *)
(* asyncssh.Error becomes a response with returncode -1.                   *)
RunRefused(c) ==
    /\ pc[c] = "running"
    /\ c \in wire
    /\ wire' = wire \ {c}
    /\ pc' = [pc EXCEPT ![c] = "error"]
    /\ UNCHANGED <<phase, connVars, host, via, attempt, executed, contested>>

(* A connection is lost; nothing notices until the next _get_connection.   *)
ConnectionLost(c) ==
    /\ IsOpen(c)
    /\ status' = [status EXCEPT ![c] = "closed"]
    /\ UNCHANGED <<phase, pool, owner, pc, host, via, attempt, wireVars,
                   contested>>

(* Mutation of Shutdown: the pool is cleared and nothing is closed.        *)
ShutdownClears ==
    /\ phase = "serving"
    /\ \A c \in Calls : ~ InFlight(c)
    /\ phase' = "stopped"
    /\ pool' = [h \in Hosts |-> NoConn]
    /\ UNCHANGED <<status, owner, pc, host, via, attempt, wireVars, contested>>

(* close_all_connections, run by the server once no request is in flight:  *)
(* every connection in the pool is closed, then the pool is cleared.       *)
Shutdown ==
    /\ phase = "serving"
    /\ \A c \in Calls : ~ InFlight(c)
    /\ phase' = "stopped"
    /\ status' = [c \in Conns |-> IF \E h \in Hosts : pool[h] = c
                                  THEN "closed" ELSE status[c]]
    /\ pool' = [h \in Hosts |-> NoConn]
    /\ UNCHANGED <<owner, pc, host, via, attempt, wireVars, contested>>

--------------------------------------------------------------------------------
StarterStep(s) == StartConnecting(s) \/ StarterConnected(s)

Connecting(t) == ConnectTimeout(t) \/ ConnectError(t)

CallStep(c) ==
    \/ CallReuses(c) \/ CallCreates(c) \/ CallConnected(c)
    \/ RunReply(c) \/ RunTimeout(c) \/ RunLost(c) \/ RunRefused(c)

WireStep(c) == RemoteExecute(c) \/ LoseRequest(c)

Next ==
    \/ \E s \in Starters : StarterStep(s)
    \/ \E t \in Tasks : Connecting(t)
    \/ \E c \in Calls : CallStep(c) \/ WireStep(c)
    \/ \E c \in Conns : ConnectionLost(c)
    \/ StartupDone
    \/ Shutdown

(* The event loop runs what is ready and its timers fire; nothing is       *)
(* assumed of the remote hosts, of the callers or of the end.              *)
Fairness ==
    /\ \A s \in Starters : WF_vars(StartConnecting(s))
    /\ \A t \in Tasks : WF_vars(ConnectTimeout(t))
    /\ \A c \in Calls : WF_vars(RunTimeout(c))
    /\ WF_vars(StartupDone)

Spec == Init /\ [][Next]_vars /\ Fairness
--------------------------------------------------------------------------------
(***************************************************************************)
(* Properties                                                              *)
(***************************************************************************)

PCs == {"queued", "idle", "connecting", "connected", "running", "answered",
        "failed", "error"}

(* Type invariant. *)
TypeOK ==
    /\ phase \in {"starting", "serving", "stopped"}
    /\ pool \in [Hosts -> Conns \cup {NoConn}]
    /\ status \in [Conns -> {"unused", "open", "closed"}]
    /\ owner \in [Conns -> Hosts]
    /\ pc \in [Tasks -> PCs]
    /\ host \in [Tasks -> Hosts]
    /\ via \in [Calls -> Conns \cup {NoConn}]
    /\ attempt \in [Tasks -> Nat]
    /\ wire \in SUBSET Calls
    /\ executed \in [Calls -> Nat]
    /\ contested \in SUBSET Hosts

(* No connection is leaked as long as no two coroutines create one for the *)
(* same host: an open connection is the one the pool holds for its host,   *)
(* so that the next command reuses it and the shutdown closes it.  This is *)
(* what checking is_closed before creating is for.                         *)
OpenIsPooled ==
    \A c \in Conns : IsOpen(c) =>
        pool[owner[c]] = c \/ owner[c] \in contested

(* A command is sent once, over a connection to its own host that is open  *)
(* at the moment it is sent, however the connections came and went since   *)
(* they were pooled and whoever else reconnects.                           *)
SentToOwnHost ==
    [][\A c \in Calls : via'[c] # via[c] =>
          /\ via[c] = NoConn
          /\ owner'[via'[c]] = host[c]
          /\ status'[via'[c]] = "open"]_vars

(* The connection attempts are repeated, the command is not: whatever      *)
(* times out or is lost, the remote host runs it at most once.             *)
ExecutedAtMostOnce == \A c \in Calls : executed[c] <= 1

(* A command whose caller was told that no connection could be made was    *)
(* not run and will not be.                                                *)
UnsentStaysUnsent ==
    \A c \in Calls : via[c] = NoConn => executed[c] = 0 /\ c \notin wire

(* A live connection is never dropped from the pool for another one while  *)
(* the application serves, unless two coroutines created it at once.       *)
LiveIsKept ==
    [][\A h \in Hosts :
          IsOpen(pool[h]) /\ pool'[h] # pool[h] =>
              phase' = "stopped" \/ h \in contested]_vars

(* The application does start, whatever its hosts do.                      *)
StartupEnds == phase = "starting" ~> phase = "serving"

(* What the callers of execute_ssh_command observe.                        *)
Outcome(c) ==
    CASE pc[c] = "idle" -> "idle"
      [] InFlight(c) -> "pending"
      [] pc[c] = "answered" -> "answered"
      [] pc[c] \in {"failed", "error"} /\ via[c] = NoConn -> "refused"
      [] OTHER -> "unknown"

Abstract == INSTANCE RemoteCall
                WITH outcome <- [c \in Calls |-> Outcome(c)],
                     effects <- executed

(* The pool implements the abstract command: at most once, exactly once    *)
(* when answered, never when refused, unknown otherwise, and it ends.      *)
ImplementsRemoteCall == Abstract!Spec
================================================================================
