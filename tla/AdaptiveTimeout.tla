---------------------------- MODULE AdaptiveTimeout ----------------------------
(***************************************************************************)
(* run_with_adaptive_timeout of app/signed_executor/async_ssh_handler.py:  *)
(* await a coroutine under a timeout that grows by a factor up to a cap,   *)
(* and give up after max_retries timeouts.  One behaviour is one call.     *)
(* Time is counted in whole units; the coroutine is the environment.       *)
(* The names of the specification are prefixed for modules that extend     *)
(* this one and another.                                                   *)
(***************************************************************************)
EXTENDS Naturals

CONSTANTS
    ArgSet,     \* the argument records a call may be made with
    Unlimited   \* stands for max_retries=None

(* The arguments of the call: timeouts are positive, the factor does not   *)
(* shrink them.                                                            *)
Args == [base : Nat \ {0}, cap : Nat \ {0}, factor : Nat \ {0},
         retries : Nat \cup {Unlimited}]

ASSUME ArgSetAssumption == ArgSet \subseteq Args /\ Unlimited \notin Nat

VARIABLES
    args,       \* arguments of this call, never assigned after the swap
    timeout,    \* timeout of the current attempt
    attempt,    \* timeouts counted so far
    elapsed,    \* history: time spent waiting so far
    state       \* "waiting", then how the call ended

atVars == <<args, timeout, attempt, elapsed, state>>

Lesser(a, b) == IF a <= b THEN a ELSE b

(* Mutation of Swapped: the arguments are taken as they are.               *)
NotSwapped(a) == a

(* base_timeout and max_timeout are exchanged when given the wrong way     *)
(* round.                                                                  *)
Swapped(a) == IF a.base > a.cap
              THEN [a EXCEPT !.base = a.cap, !.cap = a.base]
              ELSE a

(* The test at the head of the while loop: below the cap another attempt   *)
(* is awaited; above it the loop ends and the call returns None.           *)
LoopHead(t, a) == IF t <= a.cap THEN "waiting" ELSE "fellThrough"

NextTimeout(t, a) == Lesser(t * a.factor, a.cap)

ATInit ==
    /\ args \in {Swapped(a) : a \in ArgSet}
    /\ timeout = args.base
    /\ attempt = 0
    /\ elapsed = 0
    /\ state = LoopHead(timeout, args)

(* The coroutine ends within the timeout, with a result or an exception    *)
(* of its own; either leaves the loop at once.                             *)
CoroutineEnds ==
    /\ state = "waiting"
    /\ \E d \in 0 .. timeout : elapsed' = elapsed + d
    /\ state' \in {"returned", "failed"}
    /\ UNCHANGED <<args, timeout, attempt>>

(* wait_for raises TimeoutError and attempts are not counted.              *)
TimeoutUncounted ==
    /\ state = "waiting"
    /\ args.retries = Unlimited
    /\ elapsed' = elapsed + timeout
    /\ timeout' = NextTimeout(timeout, args)
    /\ state' = LoopHead(timeout', args)
    /\ UNCHANGED <<args, attempt>>

(* Mutations of TimeoutCounted: one attempt too many; the attempt is not   *)
(* counted.                                                                *)
TimeoutCountedLate ==
    /\ state = "waiting"
    /\ args.retries # Unlimited
    /\ elapsed' = elapsed + timeout
    /\ attempt' = attempt + 1
    /\ UNCHANGED args
    /\ IF attempt > args.retries
       THEN state' = "gaveUp" /\ UNCHANGED timeout
       ELSE timeout' = NextTimeout(timeout, args) /\ UNCHANGED state

TimeoutNotCounted ==
    /\ state = "waiting"
    /\ args.retries # Unlimited
    /\ timeout' = NextTimeout(timeout, args)
    /\ UNCHANGED <<args, attempt, elapsed, state>>

(* wait_for raises TimeoutError and the attempt counts against max_retries.*)
TimeoutCounted ==
    /\ state = "waiting"
    /\ args.retries # Unlimited
    /\ elapsed' = elapsed + timeout
    /\ attempt' = attempt + 1
    /\ UNCHANGED args
    /\ IF attempt' > args.retries
       THEN state' = "gaveUp" /\ UNCHANGED timeout
       ELSE /\ timeout' = NextTimeout(timeout, args)
            /\ state' = LoopHead(timeout', args)

ATNext == CoroutineEnds \/ TimeoutUncounted \/ TimeoutCounted

(* The event loop's timer fires: an awaited attempt does not last forever. *)
ATFairness == WF_atVars(TimeoutUncounted \/ TimeoutCounted)

ATSpec == ATInit /\ [][ATNext]_atVars /\ ATFairness
--------------------------------------------------------------------------------
States == {"waiting", "returned", "failed", "gaveUp", "fellThrough"}

(* Type invariant. *)
ATTypeOK ==
    /\ args \in Args
    /\ timeout \in Nat \ {0}
    /\ attempt \in Nat
    /\ elapsed \in Nat
    /\ state \in States

(* The loop is only left by an answer, an exception or the last timeout:   *)
(* the function never returns None, which _create_connection would store   *)
(* in the pool as a connection.                                            *)
NeverFallsThrough == state # "fellThrough"

(* A call with a retry limit waits at most once with the base timeout and  *)
(* max_retries times with the cap: the budget a request can lose on        *)
(* connecting before its signed command is sent at all.                    *)
WithinBudget ==
    args.retries # Unlimited =>
        elapsed <= args.base + args.retries * args.cap

(* With a retry limit the call ends whatever the coroutine does.           *)
LimitedCallEnds == (args.retries # Unlimited) ~> (state # "waiting")
================================================================================
