----------------------------- MODULE ExecutorRequest -----------------------------
(***************************************************************************)
(* A request that runs one signed operation on Plesk servers:              *)
(* SignedExecutorClient, the batch of execute_ssh_commands_in_batch,       *)
(* SignedExecutorResponse, and what PleskService makes of the responses.   *)
(*                                                                         *)
(*   "info"  fetch_subscription_info, on every server at once              *)
(*   "link"  generate_subscription_login_link, on one server               *)
(*   "mail"  get_testmail_login_data, on one server                        *)
(*                                                                         *)
(* A behaviour is one request.  Its token is signed at time 0.  Each       *)
(* server has a worker that takes a permit of the semaphore, connects      *)
(* (AdaptiveTimeout bounds that), sends the command and waits for the      *)
(* result.  Time passes only while a worker waits for something that has   *)
(* a time limit and whose limit has not come: the event loop itself takes  *)
(* no time at this scale.                                                  *)
(***************************************************************************)
EXTENDS Integers, FiniteSets

CONSTANTS
    N,          \* the number of servers in PLESK_SERVER_LIST
    Permits,    \* the permits of the semaphore, 100
    MaxConnect, \* the longest run_with_adaptive_timeout waits, 105 s
    MaxRun,     \* EXECUTION_TIMEOUT, 5 s
    Expiry      \* EXPIRATION_PERIOD_SECONDS, 900 s

ASSUME ConstantsAssumption ==
    /\ N \in Nat \ {0} /\ Permits \in Nat \ {0}
    /\ MaxConnect \in Nat /\ MaxRun \in Nat /\ Expiry \in Nat

(* The bound on what the servers may be: with the numbers above, 800 of    *)
(* them.                                                                   *)
ASSUME SizeAssumption ==
    ((N - 1) \div Permits) * (MaxConnect + MaxRun) + MaxConnect < Expiry

VARIABLES
    op,      \* the operation
    has,     \* has[i]: server i has what is asked for
    now,     \* seconds since the token was signed
    phase,   \* what the worker of each server waits for
    began,   \* when it got its permit
    sentAt,  \* when it sent the command
    result,  \* what _execute_ssh_command returned or raised for the server
    outcome, \* what the user gets: 200 "found", 404 "notfound", 500 "failed"
    listed,  \* the servers in the answer
    faulty   \* history: the servers whose command failed

callVars == <<op, has>>
vars == <<op, has, now, phase, began, sentAt, result, outcome, listed, faulty>>

Servers == 1..N

(* The servers the operation goes to.                                      *)
Asked == IF op = "info" THEN Servers ELSE {1}

--------------------------------------------------------------------------------
(***************************************************************************)
(* Responses                                                               *)
(***************************************************************************)

Statuses == {"OK", "CREATED", "BAD_REQUEST", "UNAUTHORIZED",
             "UNPROCESSABLE_ENTITY", "NOT_FOUND", "INTERNAL_ERROR"}

(* A status text is the value of a status, or its words with spaces, in    *)
(* any case; or neither.                                                   *)
Texts == [says : Statuses, spelled : {"value", "words", "otherwise"}]

(* Mutation of FromString: the table of words is not looked at.            *)
FromValue(text) ==
    IF text.spelled = "value" THEN text.says ELSE "INTERNAL_ERROR"

FromString(text) ==
    IF text.spelled = "otherwise" THEN "INTERNAL_ERROR" ELSE text.says

Payloads == {"none", "fits", "misfit"}
NoText == [says |-> "INTERNAL_ERROR", spelled |-> "value"]

(* "raised": an exception; "empty": nothing on stdout, which is also what  *)
(* any other asyncssh.Error is returned as; "notjson": no JSON object with *)
(* the fields of a response.                                               *)
Results ==
    [kind : {"none", "raised", "empty", "notjson", "reply"},
     text : Texts, payload : Payloads]
Without(kind) == [kind |-> kind, text |-> NoText, payload |-> "none"]
Reply(text, payload) == [kind |-> "reply", text |-> text, payload |-> payload]

(* execute_on_servers for an exception, from_ssh_response for the rest:    *)
(* what has no reply has no payload.                                       *)
Status(r) == IF r.kind = "reply" THEN FromString(r.text) ELSE "INTERNAL_ERROR"

(* What a remote executor answers (external): it refuses an expired token. *)
Truth(i) ==
    IF sentAt[i] >= Expiry THEN "UNAUTHORIZED"
    ELSE IF has[i] THEN "OK" ELSE "NOT_FOUND"
TruePayload(i) == IF Truth(i) = "OK" THEN "fits" ELSE "none"

(* What may come back in its place.                                        *)
ConnectFaults == {Without("raised"), Without("empty")}
Faults ==
    ConnectFaults \cup {Without("notjson"),
        Reply([says |-> "NOT_FOUND", spelled |-> "otherwise"], "none"),
        Reply([says |-> "OK", spelled |-> "value"], "none"),
        Reply([says |-> "OK", spelled |-> "value"], "misfit")}

--------------------------------------------------------------------------------
Init ==
    /\ op \in {"info", "link", "mail"}
    /\ has \in [Servers -> BOOLEAN]
    /\ now = 0
    /\ phase = [i \in Servers |-> "queued"]
    /\ began = [i \in Servers |-> 0]
    /\ sentAt = [i \in Servers |-> 0]
    /\ result = [i \in Servers |-> Without("none")]
    /\ outcome = "waiting"
    /\ listed = {}
    /\ faulty = {}

(***************************************************************************)
(* The workers                                                             *)
(***************************************************************************)

Waiting(i) == phase[i] \in {"connecting", "running"}

(* Mutation of Holders: a worker that ends does not give its permit back.  *)
Begun == {i \in Asked : phase[i] # "queued"}

(* The workers that hold a permit.                                         *)
Holders == {i \in Asked : Waiting(i)}

PermitFree == Cardinality(Holders) < Permits

(* Permits are granted in the order of the list.                           *)
Begin(i) ==
    /\ phase[i] = "queued"
    /\ \A j \in Asked : j < i => phase[j] # "queued"
    /\ PermitFree
    /\ phase' = [phase EXCEPT ![i] = "connecting"]
    /\ began' = [began EXCEPT ![i] = now]
    /\ UNCHANGED <<callVars, now, sentAt, result, outcome, listed, faulty>>

(* _get_connection returns, at once if the pool has an open connection;    *)
(* the command is sent.                                                    *)
Connected(i) ==
    /\ phase[i] = "connecting"
    /\ phase' = [phase EXCEPT ![i] = "running"]
    /\ sentAt' = [sentAt EXCEPT ![i] = now]
    /\ UNCHANGED <<callVars, now, began, result, outcome, listed, faulty>>

(* The worker's result goes to its own place, whatever order they end in.  *)
End(i, r) ==
    /\ phase' = [phase EXCEPT ![i] = "done"]
    /\ result' = [result EXCEPT ![i] = r]
    /\ UNCHANGED <<callVars, now, began, sentAt, outcome, listed>>

ConnectFails(i) ==
    /\ phase[i] = "connecting"
    /\ \E r \in ConnectFaults : End(i, r)
    /\ faulty' = faulty \cup {i}

(* Mutation of RunReplies: results are kept in the order they come in.     *)
RunRepliesInOrder(i) ==
    /\ phase[i] = "running"
    /\ phase' = [phase EXCEPT ![i] = "done"]
    /\ \E j \in Asked, s \in {"value", "words"} :
        /\ j = 1 + Cardinality({k \in Asked : phase[k] = "done"})
        /\ result' = [result EXCEPT
               ![j] = Reply([says |-> Truth(i), spelled |-> s], TruePayload(i))]
    /\ UNCHANGED <<callVars, now, began, sentAt, outcome, listed, faulty>>

RunReplies(i) ==
    /\ phase[i] = "running"
    /\ \E s \in {"value", "words"} :
           End(i, Reply([says |-> Truth(i), spelled |-> s], TruePayload(i)))
    /\ UNCHANGED faulty

(* The command fails, times out, loses its connection, or the server       *)
(* answers with an error or something else than the operation returns.     *)
RunFails(i) ==
    /\ phase[i] = "running"
    /\ \E r \in Faults : End(i, r)
    /\ faulty' = faulty \cup {i}

(* Mutation of AtLimit: the connection is waited for without a limit.      *)
RunAtLimit(i) == phase[i] = "running" /\ now >= sentAt[i] + MaxRun

(* The limit on what worker i waits for has come.                          *)
AtLimit(i) ==
    \/ phase[i] = "connecting" /\ now >= began[i] + MaxConnect
    \/ phase[i] = "running" /\ now >= sentAt[i] + MaxRun

Tick ==
    /\ \E i \in Asked : Waiting(i)
    /\ \A i \in Asked : ~ AtLimit(i) /\ (phase[i] = "queued" => ~ PermitFree)
    /\ now' = now + 1
    /\ UNCHANGED <<callVars, phase, began, sentAt, result, outcome, listed,
                   faulty>>

--------------------------------------------------------------------------------
(***************************************************************************)
(* The answer, once gather has every worker's result                       *)
(***************************************************************************)

Gathered == outcome = "waiting" /\ \A i \in Asked : phase[i] = "done"

Answer(o, found) ==
    /\ outcome' = o
    /\ listed' = found
    /\ UNCHANGED <<callVars, now, phase, began, sentAt, result, faulty>>

Succeeded == {i \in Asked : Status(result[i]) = "OK"}
Fitting == {i \in Succeeded : result[i].payload = "fits"}

(* from_ssh_response raises in the loop over the results.  An exception    *)
(* is a response in a batch; execute_on_server lets it through.            *)
Raises(i) ==
    \/ result[i].kind = "notjson"
    \/ result[i].kind = "raised" /\ op # "info"

CannotAnswer ==
    /\ Gathered
    /\ \E i \in Asked : Raises(i)
    /\ Answer("failed", {})

(* Only servers that answered OK count; an item that is no                 *)
(* SubscriptionDetailsModel, or whose host is not in HOSTS, raises.        *)
AnswerInfo ==
    /\ Gathered /\ op = "info" /\ \A i \in Asked : ~ Raises(i)
    /\ IF Succeeded = {} THEN Answer("notfound", {})
       ELSE IF \E i \in Succeeded : result[i].payload = "misfit"
            THEN Answer("failed", {})
            ELSE Answer("found", Fitting)

(* Only the server itself can say that there is no subscription.           *)
AnswerLink ==
    /\ Gathered /\ op = "link" /\ ~ Raises(1)
    /\ IF Status(result[1]) = "NOT_FOUND" THEN Answer("notfound", {})
       ELSE IF result[1].payload # "fits" THEN Answer("failed", {})
            ELSE Answer("found", {1})

(* Whatever the status: without a payload there is no subscription.        *)
AnswerMail ==
    /\ Gathered /\ op = "mail" /\ ~ Raises(1)
    /\ IF result[1].payload = "none" THEN Answer("notfound", {})
       ELSE IF result[1].payload = "misfit" THEN Answer("failed", {})
            ELSE Answer("found", {1})

--------------------------------------------------------------------------------
ConnectEnds(i) == Connected(i) \/ ConnectFails(i)
RunEnds(i) == RunReplies(i) \/ RunFails(i)
WorkerStep(i) == Begin(i) \/ ConnectEnds(i) \/ RunEnds(i)
AnswerStep == CannotAnswer \/ AnswerInfo \/ AnswerLink \/ AnswerMail

Next == (\E i \in Asked : WorkerStep(i)) \/ Tick \/ AnswerStep

(* Time passes, a limit that has come ends the wait, and the event loop    *)
(* goes on with what can go on.                                            *)
Fairness ==
    /\ WF_vars(Tick) /\ WF_vars(AnswerStep)
    /\ \A i \in Servers : WF_vars(i \in Asked /\ Begin(i))
    /\ \A i \in Servers :
           WF_vars(i \in Asked /\ AtLimit(i) /\ (ConnectEnds(i) \/ RunEnds(i)))

Spec == Init /\ [][Next]_vars /\ Fairness
--------------------------------------------------------------------------------
(***************************************************************************)
(* Properties                                                              *)
(***************************************************************************)

(* Type invariant. *)
TypeOK ==
    /\ op \in {"info", "link", "mail"}
    /\ has \in [Servers -> BOOLEAN]
    /\ now \in Nat
    /\ phase \in [Servers -> {"queued", "connecting", "running", "done"}]
    /\ began \in [Servers -> Nat]
    /\ sentAt \in [Servers -> Nat]
    /\ result \in [Servers -> Results]
    /\ outcome \in {"waiting", "found", "notfound", "failed"}
    /\ listed \in SUBSET Servers
    /\ faulty \in SUBSET Servers

(* create_signed_token signs before execute_ssh_commands_in_batch waits    *)
(* for permits and connections, once for all servers: the token has not    *)
(* expired when a command is sent, however long the servers before it      *)
(* took to connect and to time out.                                        *)
TokenFreshWhenSent ==
    \A i \in Asked : phase[i] = "running" => sentAt[i] < Expiry

(* fetch_subscription_info lists exactly the servers that have the domain, *)
(* each under its own name, but for those whose command failed; a server   *)
(* that failed hides no other, unless what it sent cannot be parsed; and   *)
(* 404 means that every server either failed or does not have it.          *)
BatchAnswerIsTrue ==
    op = "info" =>
        /\ outcome = "found" =>
               listed = {i \in Servers : has[i] /\ i \notin faulty}
        /\ outcome = "notfound" => \A i \in Servers : i \in faulty \/ ~ has[i]
        /\ outcome = "failed" =>
               \E i \in faulty : \/ result[i].kind = "notjson"
                                 \/ result[i].payload = "misfit"

(* A login link or a test mail is only given out for a subscription that   *)
(* is there; a 404 for a link is never the server's failure (for a mail it *)
(* may be); and without a failure nobody is told of one.                   *)
SingleAnswerIsTrue ==
    op # "info" =>
        /\ outcome = "found" => has[1]
        /\ outcome = "notfound" =>
               ~ has[1] \/ (op = "mail" /\ 1 \in faulty)
        /\ outcome = "failed" => 1 \in faulty

(* Every request is answered, whatever hangs.                              *)
RequestEnds == <>(outcome # "waiting")
================================================================================
