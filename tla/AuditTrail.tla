------------------------------ MODULE AuditTrail ------------------------------
(***************************************************************************)
(* The audit trail of the actions of app/api/plesk_router.py and           *)
(* app/api/dns_router.py.  A background task that runs after the response  *)
(* writes an entry to a file (app/core_utils/loggers.py) and then a row to *)
(* log_user_activity (app/db/crud.py), which a user reads by pages         *)
(* (get_own_actions), with one query for their number and one for the page.*)
(* Other processes write between any two of these steps.                   *)
(*                                                                         *)
(* Deletions of a zone never get as far as their log: see LookupDone in    *)
(* ZoneMaster.  A user who asks for a login link has an ssh_username.      *)
(***************************************************************************)
EXTENDS Integers, FiniteSets

CONSTANTS
    Users,
    Kinds,          \* the kinds of actions in a behaviour
    Actions,        \* the audited requests of a behaviour
    Readers,        \* the requests for the own history
    Subscriptions,
    Pages,          \* the page numbers asked for, which nothing validates
    Sizes,          \* the page sizes asked for
    Nothing         \* not asked yet

AllKinds == {"login_link", "testmail", "get_zonemaster", "set_zonemaster"}

(* What X-Forwarded-For holds: one address that fits the column of 15      *)
(* characters, one that does not (IPv6), or several, which are no address. *)
Addresses == {"short", "long", "many"}

Act == [user : Users, kind : Kinds, address : Addresses,
        subscription : Subscriptions]

(* The fields of a filter.  A domain is turned into a string that does not *)
(* become a DomainName again, a plesk_server into a dictionary that is no  *)
(* parameter of a query.  ip and timestamp select as log_type does,        *)
(* ssh_username as subscription_id does.                                   *)
Filter == [field : {"none", "domain", "plesk_server"}]
    \cup [field : {"log_type"}, value : Kinds]
    \cup [field : {"subscription_id"}, value : Subscriptions]

Usable(filter) == filter.field \notin {"domain", "plesk_server"}

Ask == [user : Users, filter : Filter, page : Pages, size : Sizes]

ASSUME ConstantsAssumption ==
    /\ Kinds \subseteq AllKinds
    /\ Pages \subseteq Int /\ Sizes \subseteq 1 .. 100
    /\ IsFiniteSet(Actions)
    /\ Nothing \notin Act \cup Ask

VARIABLES
    present,  \* the users in the table user
    act,      \* what each audited request is, Nothing before it
    step,     \* where it stands
    happened, \* the actions that took effect
    entries,  \* the actions with an entry in the file
    lost,     \* history: those whose entry could not be written
    killed,   \* history: those whose process died before they ended
    table,    \* the actions with a row in log_user_activity
    ask,      \* what each reader asked for, Nothing before it
    state,    \* where each reader stands
    total,    \* total_count of each reader
    shown,    \* the rows of the answer of each reader
    raced     \* history: readers with a row inserted between their queries

actVars == <<act, step, happened, entries, lost, killed>>
readVars == <<ask, state, total, shown>>
vars == <<present, act, step, happened, entries, lost, killed, table,
          ask, state, total, shown, raced>>

Init ==
    /\ present = Users
    /\ act = [a \in Actions |-> Nothing]
    /\ step = [a \in Actions |-> "idle"]
    /\ happened = {} /\ entries = {} /\ lost = {} /\ killed = {} /\ table = {}
    /\ ask = [h \in Readers |-> Nothing]
    /\ state = [h \in Readers |-> "idle"]
    /\ total = [h \in Readers |-> 0]
    /\ shown = [h \in Readers |-> {}]
    /\ raced = {}

(***************************************************************************)
(* The action and its log                                                  *)
(***************************************************************************)

Goto(a, s) == step' = [step EXCEPT ![a] = s]

Begin(a) ==
    /\ step[a] = "idle"
    /\ \E x \in Act : x.user \in present /\ act' = [act EXCEPT ![a] = x]
    /\ Goto(a, "acting")
    /\ UNCHANGED <<present, happened, entries, lost, killed, table, readVars,
                   raced>>

(* The remote hosts.  An effect after the end of the request, which is     *)
(* possible, makes no difference to the trail.                             *)
TakeEffect(a) ==
    /\ step[a] = "acting" /\ a \notin happened
    /\ happened' = happened \cup {a}
    /\ UNCHANGED <<present, act, step, entries, lost, killed, table, readVars,
                   raced>>

(* Mutation of Succeed: the check for an empty answer is forgotten.        *)
SucceedAnyway(a) ==
    /\ step[a] = "acting"
    /\ Goto(a, "answered")
    /\ UNCHANGED <<present, act, happened, entries, lost, killed, table,
                   readVars, raced>>

(* The request is answered and its background task is due.  set_zonemaster *)
(* looks at no response of its commands; the others need the payload.      *)
Succeed(a) ==
    /\ step[a] = "acting"
    /\ a \in happened \/ act[a].kind = "set_zonemaster"
    /\ Goto(a, "answered")
    /\ UNCHANGED <<present, act, happened, entries, lost, killed, table,
                   readVars, raced>>

(* An error answer schedules nothing, whatever the command did.            *)
Fail(a) ==
    /\ step[a] = "acting"
    /\ Goto(a, "failed")
    /\ UNCHANGED <<present, act, happened, entries, lost, killed, table,
                   readVars, raced>>

(* Mutation of Enter: a failing write raises.                              *)
EnterOrRaise(a) ==
    /\ step[a] = "answered"
    /\ \/ /\ act[a].address = "many"
          /\ Goto(a, "ended")
          /\ UNCHANGED <<entries, lost>>
       \/ /\ act[a].address # "many"
          /\ \/ /\ entries' = entries \cup {a}
                /\ Goto(a, "entered")
                /\ UNCHANGED lost
             \/ /\ lost' = lost \cup {a}
                /\ Goto(a, "ended")
                /\ UNCHANGED entries
    /\ UNCHANGED <<present, act, happened, killed, table, readVars, raced>>

(* The task parses the address, and raises if there are several.  The      *)
(* logging library reports a failing write and goes on.                    *)
Enter(a) ==
    /\ step[a] = "answered"
    /\ \/ /\ act[a].address = "many"
          /\ Goto(a, "ended")
          /\ UNCHANGED <<entries, lost>>
       \/ /\ act[a].address # "many"
          /\ Goto(a, "entered")
          /\ \/ entries' = entries \cup {a} /\ UNCHANGED lost
             \/ lost' = lost \cup {a} /\ UNCHANGED entries
    /\ UNCHANGED <<present, act, happened, killed, table, readVars, raced>>

(* Mutation of Insert: the row does not wait for the entry.                *)
InsertFirst(a) ==
    /\ step[a] \in {"answered", "entered"}
    /\ Goto(a, "ended")
    /\ IF act[a].user \in present /\ act[a].address = "short"
       THEN /\ table' = table \cup {a}
            /\ raced' = raced \cup {h \in Readers : state[h] = "counted"}
       ELSE UNCHANGED <<table, raced>>
    /\ UNCHANGED <<present, act, happened, entries, lost, killed, readVars>>

(* The statement fails, and the task with it, when the address is longer   *)
(* than its column or the user is gone.                                    *)
Insert(a) ==
    /\ step[a] = "entered"
    /\ Goto(a, "ended")
    /\ IF act[a].user \in present /\ act[a].address = "short"
       THEN /\ table' = table \cup {a}
            /\ raced' = raced \cup {h \in Readers : state[h] = "counted"}
       ELSE UNCHANGED <<table, raced>>
    /\ UNCHANGED <<present, act, happened, entries, lost, killed, readVars>>

InFlight == {a \in Actions : step[a] \in {"acting", "answered", "entered"}}

(* A process is killed, with the requests and the tasks it was working on. *)
WorkerDies(dead) ==
    /\ dead # {}
    /\ step' = [a \in Actions |-> IF a \notin dead THEN step[a]
                                  ELSE IF step[a] = "acting" THEN "failed"
                                  ELSE "ended"]
    /\ killed' = killed \cup dead
    /\ UNCHANGED <<present, act, happened, entries, lost, table, readVars,
                   raced>>

(* Deleting a user, as UserAccounts has it: not when there are rows of it. *)
DeleteUser(u) ==
    /\ u \in present
    /\ \A a \in table : act[a].user # u
    /\ present' = present \ {u}
    /\ UNCHANGED <<actVars, table, readVars, raced>>

(***************************************************************************)
(* The history                                                             *)
(***************************************************************************)

(* A filter that cannot be used raises before anything is read.            *)
BeginHistory(h) ==
    /\ state[h] = "idle"
    /\ \E x \in Ask :
          /\ x.user \in present
          /\ ask' = [ask EXCEPT ![h] = x]
          /\ state' = [state EXCEPT ![h] =
                          IF Usable(x.filter) THEN "asked" ELSE "failed"]
    /\ UNCHANGED <<present, actVars, table, total, shown, raced>>

(* Mutation of Matches: the filter of the request goes without the user.   *)
MatchesOfAll(x) ==
    {a \in table :
        /\ x.filter.field = "log_type" => act[a].kind = x.filter.value
        /\ x.filter.field = "subscription_id" =>
              /\ act[a].kind = "login_link"
              /\ act[a].subscription = x.filter.value}

(* The rows of the user that satisfy the filter; only login links have a   *)
(* subscription.                                                           *)
Matches(x) ==
    {a \in table :
        /\ act[a].user = x.user
        /\ x.filter.field = "log_type" => act[a].kind = x.filter.value
        /\ x.filter.field = "subscription_id" =>
              /\ act[a].kind = "login_link"
              /\ act[a].subscription = x.filter.value}

(* Without a match None is returned, which is no answer of the endpoint.   *)
Count(h) ==
    /\ state[h] = "asked"
    /\ total' = [total EXCEPT ![h] = Cardinality(Matches(ask[h]))]
    /\ state' = [state EXCEPT ![h] =
                    IF Matches(ask[h]) = {} THEN "failed" ELSE "counted"]
    /\ UNCHANGED <<present, actVars, table, ask, shown, raced>>

(* Mutation of Offset: pages are counted from zero.                        *)
OffsetFromZero(x) == x.page * x.size

Offset(x) == (x.page - 1) * x.size

Lesser(m, n) == IF m < n THEN m ELSE n

(* Details of the other kinds hold a domain, which, read back as a string, *)
(* does not become a DomainName; test mails are not among the details.     *)
Readable(rows) == \A a \in rows : act[a].kind = "login_link"

(* The rows come in no order: after skipping Offset of them the page is    *)
(* any set of as many as are left.  A negative offset is an error, and one *)
(* row that cannot be shown makes the request fail.                        *)
Page(h) ==
    /\ state[h] = "counted"
    /\ LET x == ask[h]
           left == Cardinality(Matches(x)) - Offset(x) IN
       \/ /\ Offset(x) < 0
          /\ state' = [state EXCEPT ![h] = "failed"]
          /\ UNCHANGED shown
       \/ /\ Offset(x) >= 0
          /\ \E rows \in SUBSET Matches(x) :
                /\ Cardinality(rows) =
                      IF left < 0 THEN 0 ELSE Lesser(left, x.size)
                /\ IF Readable(rows)
                   THEN /\ state' = [state EXCEPT ![h] = "answered"]
                        /\ shown' = [shown EXCEPT ![h] = rows]
                   ELSE /\ state' = [state EXCEPT ![h] = "failed"]
                        /\ UNCHANGED shown
    /\ UNCHANGED <<present, actVars, table, ask, total, raced>>

--------------------------------------------------------------------------------
ActionStep(a) ==
    \/ Begin(a) \/ TakeEffect(a) \/ Succeed(a) \/ Fail(a)
    \/ Enter(a) \/ Insert(a)

ReaderStep(h) == BeginHistory(h) \/ Count(h) \/ Page(h)

Next ==
    \/ \E a \in Actions : ActionStep(a)
    \/ \E dead \in SUBSET InFlight : WorkerDies(dead)
    \/ \E u \in Users : DeleteUser(u)
    \/ \E h \in Readers : ReaderStep(h)

Spec == Init /\ [][Next]_vars
--------------------------------------------------------------------------------
(***************************************************************************)
(* Properties                                                              *)
(***************************************************************************)

(* Type invariant. *)
TypeOK ==
    /\ present \in SUBSET Users
    /\ act \in [Actions -> Act \cup {Nothing}]
    /\ step \in [Actions -> {"idle", "acting", "answered", "entered", "ended",
                             "failed"}]
    /\ happened \in SUBSET Actions
    /\ entries \in SUBSET Actions
    /\ lost \in SUBSET Actions
    /\ killed \in SUBSET Actions
    /\ table \in SUBSET Actions
    /\ ask \in [Readers -> Ask \cup {Nothing}]
    /\ state \in [Readers -> {"idle", "asked", "counted", "answered", "failed"}]
    /\ total \in [Readers -> Nat]
    /\ shown \in [Readers -> SUBSET Actions]
    /\ raced \in SUBSET Readers

(* What either trail says was done was done, wherever the process died,    *)
(* except for setting a zone master, which is logged on no evidence.       *)
LoggedHappened ==
    \A a \in entries \cup table :
        a \in happened \/ act[a].kind = "set_zonemaster"

(* The file is written before the table: a row has its entry, unless the   *)
(* file could not be written.                                              *)
RowsAreEntered == table \subseteq entries \cup lost

(* An action its user was told succeeded gets its row, unless the process  *)
(* died, the address is not one short address, or the user was deleted     *)
(* between the response and the row.  A full disk is no excuse.            *)
UnloggedNeedsACause ==
    \A a \in Actions : step[a] = "ended" =>
        \/ a \in table \cup killed
        \/ act[a].address # "short"
        \/ act[a].user \notin present

(* A history that is answered at all shows login links of its user only.   *)
HistoryShowsOwnLinks ==
    \A h \in Readers : state[h] = "answered" =>
        \A a \in shown[h] :
            a \in table /\ act[a].user = ask[h].user /\ act[a].kind = "login_link"

(* total_pages                                                             *)
PageCount(h) == (total[h] + ask[h].size - 1) \div ask[h].size

(* A reader that walks the pages up to total_pages finds rows on each, and *)
(* all but the last full, even if rows were inserted between the query for *)
(* their number and the one for the page; only those rows can be on a page *)
(* beyond the last.                                                        *)
PagesMatchTheirNumber ==
    \A h \in Readers : state[h] = "answered" =>
        /\ ask[h].page <= PageCount(h) => shown[h] # {}
        /\ ask[h].page < PageCount(h) => Cardinality(shown[h]) = ask[h].size
        /\ ask[h].page > PageCount(h) => shown[h] = {} \/ h \in raced
================================================================================
