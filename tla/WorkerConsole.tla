---------------------------- MODULE WorkerConsole ----------------------------
(***************************************************************************)
(* WorkersPage: the table of workers, the detail of the one whose row is   *)
(* expanded, and the dialog that confirms a command before it is sent.     *)
(*                                                                         *)
(* What becomes of a command is WorkerFleet's.  Here a command is a row of *)
(* worker_commands that the detail lists, and the details of the workers   *)
(* are cache entries of their own, which only the expanded row observes.   *)
(***************************************************************************)
EXTENDS Integers, FiniteSets, QueryCache

CONSTANTS
    FleetWorker,     \* workers
    Order,           \* commands the page sends: stop and restart
    NoFleetWorker,   \* no worker: nothing expanded, no dialog, no request
    MaxFleetWrites   \* bound: writes to the tables

ASSUME FleetConstants ==
    /\ NoFleetWorker \notin FleetWorker
    /\ MaxFleetWrites \in Nat

VARIABLES
    fleet,        \* workers and worker_commands
    fleetWrites,
    fleetList,    \* the cache entry ['workers']
    details,      \* the cache entries ['worker-detail', id]
    expanded,     \* the worker whose row is expanded
    confirm,      \* the dialog: which worker and which command
    orderCall,    \* the POST of a command in flight
    ordered       \* history: the worker of the last write, once the page has the
                  \* reply to it, unless its detail's first fetch was in flight then

fleetVars == <<fleet, fleetWrites, fleetList, details, expanded, confirm, orderCall, ordered>>

FleetRow == [up : BOOLEAN, orders : SUBSET (Order \X (1 .. MaxFleetWrites))]
NoConfirm == [of |-> NoFleetWorker]
NoOrderCall == [stage |-> "none"]

FleetInit ==
    /\ fleet = [h \in FleetWorker |-> [up |-> TRUE, orders |-> {}]]
    /\ fleetWrites = 0
    /\ fleetList = [Empty EXCEPT !.fetch = "asked"]
    /\ details = [h \in FleetWorker |-> Empty]
    /\ expanded = NoFleetWorker
    /\ confirm = NoConfirm
    /\ orderCall = NoOrderCall
    /\ ordered = NoFleetWorker

-----------------------------------------------------------------------------
(* The page. *)

\* One row at a time.  Its WorkerDetail mounts and asks; the other one's entry is
\* no longer observed.
Expand(h) ==
    /\ fleetList.data # NoData
    /\ expanded' = IF expanded = h THEN NoFleetWorker ELSE h
    /\ details' = IF expanded = h THEN details ELSE [details EXCEPT ![h] = Ask(@)]
    \* a fetch from before the reply, which nobody observed, is joined
    /\ ordered' = IF AtRest(details[h]) THEN ordered ELSE NoFleetWorker
    /\ UNCHANGED <<fleet, fleetWrites, fleetList, confirm, orderCall>>

\* The buttons of a worker that the table shows online.
AskOrder(h, order) ==
    /\ confirm = NoConfirm
    /\ fleetList.data # NoData
    /\ fleetList.data[h]
    /\ confirm' = [of |-> h, order |-> order]
    /\ UNCHANGED <<fleet, fleetWrites, fleetList, details, expanded, orderCall, ordered>>

\* Escape closes the dialog also while its command is on the way.
CloseConfirm ==
    /\ confirm # NoConfirm
    /\ confirm' = NoConfirm
    /\ UNCHANGED <<fleet, fleetWrites, fleetList, details, expanded, orderCall, ordered>>

ConfirmOrder ==
    /\ confirm # NoConfirm
    /\ orderCall = NoOrderCall
    /\ orderCall' = [stage |-> "sent", order |-> confirm]
    /\ UNCHANGED <<fleet, fleetWrites, fleetList, details, expanded, confirm, ordered>>

-----------------------------------------------------------------------------
(* The server. *)

WriteFleet(h, row) ==
    /\ fleetWrites < MaxFleetWrites
    /\ fleetWrites' = fleetWrites + 1
    /\ fleet' = [fleet EXCEPT ![h] = row]
    /\ ordered' = NoFleetWorker
    /\ UNCHANGED <<fleetList, details, expanded, confirm>>

WithOrder(h, order) == [fleet[h] EXCEPT !.orders = @ \cup {<<order, fleetWrites + 1>>}]

ApplyOrder ==
    /\ orderCall.stage = "sent"
    /\ fleet[orderCall.order.of].up
    /\ WriteFleet(orderCall.order.of, WithOrder(orderCall.order.of, orderCall.order.order))
    /\ orderCall' = [stage |-> "done", of |-> orderCall.order.of, at |-> fleetWrites + 1]

\* Another administrator's command, and a worker that comes and goes.
OthersOrder(h, order) ==
    /\ fleet[h].up
    /\ WriteFleet(h, WithOrder(h, order))
    /\ UNCHANGED orderCall

TurnWorker(h) ==
    /\ WriteFleet(h, [fleet[h] EXCEPT !.up = ~@])
    /\ UNCHANGED orderCall

-----------------------------------------------------------------------------
(* The replies. *)

PageAlone == UNCHANGED <<fleet, fleetWrites, expanded, confirm, orderCall, ordered>>

RefetchWorkers ==
    \/ /\ AtRest(fleetList)
       /\ fleetList' = Ask(fleetList)
       /\ PageAlone /\ UNCHANGED details
    \/ /\ expanded # NoFleetWorker
       /\ AtRest(details[expanded])
       /\ details' = [details EXCEPT ![expanded] = Ask(@)]
       /\ PageAlone /\ UNCHANGED fleetList

AnswerWorkers ==
    /\ fleetList.fetch = "asked"
    /\ fleetList' = Answer(fleetList, [h \in FleetWorker |-> fleet[h].up])
    /\ PageAlone /\ UNCHANGED details

DeliverWorkers ==
    /\ fleetList.fetch = "answered"
    /\ fleetList' = Deliver(fleetList)
    /\ PageAlone /\ UNCHANGED details

FailWorkers ==
    /\ fleetList.fetch = "asked"
    /\ fleetList' = Fail(fleetList)
    /\ PageAlone /\ UNCHANGED details

AnswerDetails(h) ==
    /\ details[h].fetch = "asked"
    /\ details' = [details EXCEPT ![h] = Answer(@, fleet[h].orders)]
    /\ PageAlone /\ UNCHANGED fleetList

DeliverDetails(h) ==
    /\ details[h].fetch = "answered"
    /\ details' = [details EXCEPT ![h] = Deliver(@)]
    /\ PageAlone /\ UNCHANGED fleetList

\* Any error, or no answer: the detail stays as it was.
FailDetails(h) ==
    /\ details[h].fetch = "asked"
    /\ details' = [details EXCEPT ![h] = Fail(@)]
    /\ PageAlone /\ UNCHANGED fleetList

\* ['worker-detail'] is the prefix of every detail; the one observed is asked for
\* again, the others are when their row is expanded.  The refetch is not waited
\* for, and onSettled closes whichever dialog is open.
\* (Its mutant leaves the details as they are.)
DetailsLeft == details
DetailsAsked == [h \in FleetWorker |-> Invalidate(details[h], h = expanded)]

OrderReplied ==
    /\ orderCall.stage = "done"
    /\ orderCall' = NoOrderCall
    /\ fleetList' = Invalidate(fleetList, TRUE)
    /\ details' = DetailsAsked
    /\ confirm' = NoConfirm
    /\ ordered' = IF fleetWrites = orderCall.at /\ ~Joins(details[orderCall.of])
                  THEN orderCall.of ELSE NoFleetWorker
    /\ UNCHANGED <<fleet, fleetWrites, expanded>>

\* 400 as the worker went offline, 404, 500, or lost.
OrderFails ==
    /\ orderCall # NoOrderCall
    /\ orderCall' = NoOrderCall
    /\ confirm' = NoConfirm
    /\ UNCHANGED <<fleet, fleetWrites, fleetList, details, expanded, ordered>>

FleetPageNext ==
    \/ \E h \in FleetWorker :
        \/ Expand(h) \/ TurnWorker(h)
        \/ AnswerDetails(h) \/ DeliverDetails(h) \/ FailDetails(h)
        \/ \E order \in Order : AskOrder(h, order) \/ OthersOrder(h, order)
    \/ CloseConfirm \/ ConfirmOrder \/ ApplyOrder
    \/ RefetchWorkers \/ AnswerWorkers \/ DeliverWorkers \/ FailWorkers
    \/ OrderReplied \/ OrderFails

FleetPageSpec == FleetInit /\ [][FleetPageNext]_fleetVars

-----------------------------------------------------------------------------
(* Properties. *)

FleetTypeOK ==
    /\ fleet \in [FleetWorker -> FleetRow]
    /\ fleetWrites \in 0 .. MaxFleetWrites
    /\ fleetList \in Entry([FleetWorker -> BOOLEAN])
    /\ \A h \in FleetWorker : details[h].fetch \in {"idle", "asked", "answered", "failed"}
    /\ expanded \in FleetWorker \cup {NoFleetWorker}
    /\ confirm.of \in FleetWorker \cup {NoFleetWorker}
    /\ orderCall.stage \in {"none", "sent", "done"}
    /\ ordered \in FleetWorker \cup {NoFleetWorker}

\* Whichever rows are expanded and collapsed while a command is on its way: once
\* the page has the reply to the last write, nothing is on its way and the last fetch
\* arrived, the detail shown of that worker lists the command.
OrderIsListed ==
    expanded # NoFleetWorker /\ ordered = expanded /\ details[expanded].fetch = "idle" =>
        details[expanded].data = fleet[expanded].orders
=============================================================================
