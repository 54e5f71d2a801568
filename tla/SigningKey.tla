------------------------------- MODULE SigningKey -------------------------------
(***************************************************************************)
(* Which key signs an operation: the one signer of a process that          *)
(* SignedExecutorClient makes on first use, from the threads FastAPI       *)
(* resolves dependencies in, and the keys ToKenSigner keeps in two files   *)
(* that every local process shares (app/core/token_signer.py).             *)
(*                                                                         *)
(* Opening a file for writing empties it; what is written reaches it when  *)
(* it is closed, so another process may read it empty in between.          *)
(***************************************************************************)
CONSTANTS
    Workers,    \* the processes
    Requests,   \* the requests that need a client, in all processes
    Keys,       \* the keys that may be generated
    NoKey,      \* no signer, no key, or a file that does not exist
    Empty       \* the contents of a file opened for writing

ASSUME ConstantsAssumption ==
    NoKey \notin Keys /\ Empty \notin Keys /\ NoKey # Empty

VARIABLES
    local,      \* settings.ENVIRONMENT is "local"
    worker,     \* the process that serves each request
    instance,   \* _token_signer_instance of each process, by its key
    priv, pub,  \* the key files
    pc,         \* where each request stands
    made,       \* the signer each request constructs, by its key
    client,     \* the signer of each request's client, by its key
    used,       \* the keys generated so far
    overtaken,  \* history: requests that took their signer while another one
                \* of their process was constructing one
    torn,       \* history: two requests wrote the files at once
    cut         \* history: a request was killed while it wrote the files

files == <<priv, pub>>
history == <<overtaken, torn, cut>>
vars == <<local, worker, instance, priv, pub, pc, made, client, used,
          overtaken, torn, cut>>

Init ==
    /\ local \in BOOLEAN
    /\ worker \in [Requests -> Workers]
    /\ instance = [w \in Workers |-> NoKey]
    /\ priv = NoKey /\ pub = NoKey
    /\ pc = [r \in Requests |-> "idle"]
    /\ made = [r \in Requests |-> NoKey]
    /\ client = [r \in Requests |-> NoKey]
    /\ used = {}
    /\ overtaken = {}
    /\ torn = FALSE
    /\ cut = FALSE

Goto(r, l) == pc' = [pc EXCEPT ![r] = l]

Loading == {"loadPrivate", "loadPublic"}
Writing == {"openPrivate", "writePrivate", "openPublic", "writePublic"}
Constructing(r) == pc[r] \in {"construct", "assign"} \cup Loading \cup Writing
Live(r) == pc[r] \notin {"idle", "failed", "killed", "done"}

FilesExist == priv # NoKey /\ pub # NoKey

(* Mutation of Begin: every client makes a signer of its own.              *)
BeginAnew(r) ==
    /\ pc[r] = "idle"
    /\ Goto(r, "construct")
    /\ UNCHANGED <<local, worker, instance, files, made, client, used, history>>

(***************************************************************************)
(* SignedExecutorClient.__init__                                           *)
(***************************************************************************)

Begin(r) ==
    /\ pc[r] = "idle"
    /\ Goto(r, IF instance[worker[r]] = NoKey THEN "construct" ELSE "take")
    /\ UNCHANGED <<local, worker, instance, files, made, client, used, history>>

(* The signer constructed replaces the one another request may have stored *)
(* meanwhile, and the client takes what it finds stored.                   *)
Assign(r) ==
    /\ pc[r] = "assign"
    /\ instance' = [instance EXCEPT ![worker[r]] = made[r]]
    /\ Goto(r, "take")
    /\ UNCHANGED <<local, worker, files, made, client, used, history>>

Take(r) ==
    /\ pc[r] = "take"
    /\ client' = [client EXCEPT ![r] = instance[worker[r]]]
    /\ overtaken' = IF \E s \in Requests :
                          worker[s] = worker[r] /\ Constructing(s)
                    THEN overtaken \cup {r} ELSE overtaken
    /\ Goto(r, "ready")
    /\ UNCHANGED <<local, worker, instance, files, made, used, torn, cut>>

(* The client signs its command, or shows its public key.                  *)
Use(r) ==
    /\ pc[r] = "ready"
    /\ Goto(r, "done")
    /\ UNCHANGED <<local, worker, instance, files, made, client, used, history>>

(***************************************************************************)
(* ToKenSigner.__init__                                                    *)
(***************************************************************************)

Generate(r) ==
    \E k \in Keys \ used :
        made' = [made EXCEPT ![r] = k] /\ used' = used \cup {k}

(* Outside the local environment the key lives in memory only.             *)
ConstructInMemory(r) ==
    /\ pc[r] = "construct" /\ ~ local
    /\ Generate(r)
    /\ Goto(r, "assign")
    /\ UNCHANGED <<local, worker, instance, files, client, history>>

(* Mutation of ConstructLocal: keys are generated at every start.          *)
ConstructAnew(r) ==
    /\ pc[r] = "construct" /\ local
    /\ Goto(r, "openPrivate")
    /\ torn' = (torn \/ \E s \in Requests : pc[s] \in Writing)
    /\ UNCHANGED <<local, worker, instance, files, made, client, used>>
    /\ UNCHANGED <<overtaken, cut>>

ConstructLocal(r) ==
    /\ pc[r] = "construct" /\ local
    /\ IF FilesExist
       THEN Goto(r, "loadPrivate") /\ UNCHANGED torn
       ELSE /\ Goto(r, "openPrivate")
            /\ torn' = (torn \/ \E s \in Requests : pc[s] \in Writing)
    /\ UNCHANGED <<local, worker, instance, files, made, client, used>>
    /\ UNCHANGED <<overtaken, cut>>

(* A file without a key in it makes the request fail.                      *)
LoadPrivate(r) ==
    /\ pc[r] = "loadPrivate"
    /\ made' = [made EXCEPT ![r] = priv]
    /\ Goto(r, IF priv = Empty THEN "failed" ELSE "loadPublic")
    /\ UNCHANGED <<local, worker, instance, files, client, used, history>>

LoadPublic(r) ==
    /\ pc[r] = "loadPublic"
    /\ Goto(r, IF pub = Empty THEN "failed" ELSE "assign")
    /\ UNCHANGED <<local, worker, instance, files, made, client, used, history>>

OpenPrivate(r) ==
    /\ pc[r] = "openPrivate"
    /\ Generate(r)
    /\ priv' = Empty
    /\ Goto(r, "writePrivate")
    /\ UNCHANGED <<local, worker, instance, pub, client, history>>

WritePrivate(r) ==
    /\ pc[r] = "writePrivate"
    /\ priv' = made[r]
    /\ Goto(r, "openPublic")
    /\ UNCHANGED <<local, worker, instance, pub, made, client, used, history>>

OpenPublic(r) ==
    /\ pc[r] = "openPublic"
    /\ pub' = Empty
    /\ Goto(r, "writePublic")
    /\ UNCHANGED <<local, worker, instance, priv, made, client, used, history>>

WritePublic(r) ==
    /\ pc[r] = "writePublic"
    /\ pub' = made[r]
    /\ Goto(r, "assign")
    /\ UNCHANGED <<local, worker, instance, priv, made, client, used, history>>

(* The process is killed and started again: its signer and its requests    *)
(* are gone, the files are as they were.                                   *)
Restart(w) ==
    /\ instance[w] # NoKey \/ \E r \in Requests : worker[r] = w /\ Live(r)
    /\ instance' = [instance EXCEPT ![w] = NoKey]
    /\ pc' = [r \in Requests |->
                 IF worker[r] = w /\ Live(r) THEN "killed" ELSE pc[r]]
    /\ cut' = (cut \/ \E r \in Requests : worker[r] = w /\ pc[r] \in Writing)
    /\ UNCHANGED <<local, worker, files, made, client, used, overtaken, torn>>

--------------------------------------------------------------------------------
Client(r) == Begin(r) \/ Assign(r) \/ Take(r) \/ Use(r)

Signer(r) ==
    \/ ConstructInMemory(r) \/ ConstructLocal(r)
    \/ LoadPrivate(r) \/ LoadPublic(r)
    \/ OpenPrivate(r) \/ WritePrivate(r) \/ OpenPublic(r) \/ WritePublic(r)

Next ==
    \/ \E r \in Requests : Client(r) \/ Signer(r)
    \/ \E w \in Workers : Restart(w)

Spec == Init /\ [][Next]_vars
--------------------------------------------------------------------------------
(***************************************************************************)
(* Properties                                                              *)
(***************************************************************************)

Steps == {"idle", "construct", "assign", "take", "ready", "done", "failed",
          "killed"} \cup Loading \cup Writing

(* Type invariant. *)
TypeOK ==
    /\ local \in BOOLEAN
    /\ worker \in [Requests -> Workers]
    /\ instance \in [Workers -> Keys \cup {NoKey}]
    /\ {priv, pub} \subseteq Keys \cup {NoKey, Empty}
    /\ pc \in [Requests -> Steps]
    /\ made \in [Requests -> Keys \cup {NoKey, Empty}]
    /\ client \in [Requests -> Keys \cup {NoKey}]
    /\ used \in SUBSET Keys
    /\ overtaken \in SUBSET Requests
    /\ {torn, cut} \subseteq BOOLEAN

(* Two requests that both find no signer construct two, and the later one  *)
(* replaces the other.  This only costs a client that was made while the   *)
(* later one was under construction: any other signs with the key that the *)
(* public key endpoint of its process shows, whatever was constructed at   *)
(* once before.                                                            *)
OneKeyPerProcess ==
    \A r \in Requests \ overtaken :
        pc[r] = "ready" => client[r] = instance[worker[r]]

(* No key is used before it is complete: no client is without a signer and *)
(* none took what another request had not finished writing.                *)
ClientsHaveKeys ==
    \A r \in Requests : pc[r] = "ready" => client[r] \in used

(* Both files exist, one of them has no key in it and nobody will write it.*)
Wedged ==
    /\ FilesExist /\ Empty \in {priv, pub}
    /\ \A r \in Requests : pc[r] \notin Writing

(* In the local environment every process signs with the key in the files, *)
(* across restarts, as long as no two requests write them at once and none *)
(* is killed while it does.  Two at once may leave a key of each in them,  *)
(* but always a key: only a kill leaves a file without one.                *)
LocalKeyIsShared ==
    local /\ ~ cut =>
        /\ ~ Wedged
        /\ torn \/ \A w \in Workers : instance[w] # NoKey =>
                       instance[w] = priv /\ pub = priv

(* Files left like that by a process killed between opening and closing    *)
(* one are never repaired: signers are only constructed from them, and     *)
(* fail, after every restart.                                              *)
WedgedStays == [][Wedged => Wedged']_vars
================================================================================
