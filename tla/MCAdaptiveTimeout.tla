--------------------------- MODULE MCAdaptiveTimeout ---------------------------
(* The call _create_connection makes (15 s doubling to 30 s, 3 retries),   *)
(* the defaults, and arguments in the wrong order, all in units of 5 s.    *)
EXTENDS AdaptiveTimeout

CONSTANT MaxElapsed   \* bound on the time an unlimited call is followed for

MCArgSet ==
    [base : {1, 2, 3, 6}, cap : {1, 2, 3, 6}, factor : {1, 2},
     retries : {0, 1, 3, Unlimited}]

(* Calls with a limit need no bound on the time.                           *)
Bounded == args.retries = Unlimited => elapsed <= MaxElapsed
================================================================================
