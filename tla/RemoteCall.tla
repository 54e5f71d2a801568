------------------------------- MODULE RemoteCall -------------------------------
(***************************************************************************)
(* What SignedExecutorClient.execute_on_server may promise its callers      *)
(* about one signed command: it takes effect on the remote host at most     *)
(* once; an answer means it did; a refusal means it never did and never     *)
(* will; any other failure leaves the caller not knowing, and the command   *)
(* may still take effect after the failure was reported.                    *)
(***************************************************************************)
EXTENDS Naturals

CONSTANT Calls

VARIABLES
    outcome,    \* what the caller of each command knows
    effects     \* how often each command took effect on its host

vars == <<outcome, effects>>

Outcomes == {"idle", "pending", "answered", "refused", "unknown"}

Init ==
    /\ outcome = [c \in Calls |-> "idle"]
    /\ effects = [c \in Calls |-> 0]

Begin(c) ==
    /\ outcome[c] = "idle"
    /\ outcome' = [outcome EXCEPT ![c] = "pending"]
    /\ UNCHANGED effects

(* The command takes effect, while its caller waits or after it gave up.   *)
Effect(c) ==
    /\ outcome[c] \in {"pending", "unknown"}
    /\ effects[c] = 0
    /\ effects' = [effects EXCEPT ![c] = 1]
    /\ UNCHANGED outcome

Answer(c) ==
    /\ outcome[c] = "pending"
    /\ effects[c] = 1
    /\ outcome' = [outcome EXCEPT ![c] = "answered"]
    /\ UNCHANGED effects

Refuse(c) ==
    /\ outcome[c] = "pending"
    /\ effects[c] = 0
    /\ outcome' = [outcome EXCEPT ![c] = "refused"]
    /\ UNCHANGED effects

GiveUp(c) ==
    /\ outcome[c] = "pending"
    /\ outcome' = [outcome EXCEPT ![c] = "unknown"]
    /\ UNCHANGED effects

End(c) == Answer(c) \/ Refuse(c) \/ GiveUp(c)

Next == \E c \in Calls : Begin(c) \/ Effect(c) \/ End(c)

(* Every command that was begun ends: the caller is never left waiting.    *)
Spec == Init /\ [][Next]_vars /\ \A c \in Calls : WF_vars(End(c))
================================================================================
