---------------------------- MODULE WorkerFleet ----------------------------
(***************************************************************************)
(* The worker processes of cmd/worker, the four PostgreSQL tables they     *)
(* share with the API server (workers, machine_workers, machines,          *)
(* worker_commands), and the two API calls that write those tables:        *)
(* worker_api's ListWorkers (stale detection) and SendCommand.             *)
(*                                                                         *)
(* One element of Proc is one operating-system process: it starts,         *)
(* registers under a name, provisions and claims the machines of its       *)
(* config, then runs a heartbeat goroutine, one polling goroutine per      *)
(* machine and a command goroutine until a signal, a stop or restart       *)
(* command, or a crash.  Every SQL statement or transaction is one step.   *)
(*                                                                         *)
(* Time: one Tick is the heartbeat interval (30 s), and StaleAfter ticks   *)
(* are the 90 s threshold.  A row keeps the age of its heartbeat_at in     *)
(* ticks, up to StaleAfter + 1, from where on it is stale for good.        *)
(***************************************************************************)
EXTENDS Integers, FiniteSets

CONSTANTS
    Proc,        \* worker processes
    Name,        \* values of workers.name (UNIQUE; rows are never deleted)
    Machine,     \* machines
    Id,          \* values of machine_workers.worker_id ("hostname-PID")
    None,        \* SQL NULL, and "no row"
    NameOf,      \* the worker_name each process is configured with
    IdOf,        \* the hostname-PID of each process
    MachinesOf,  \* the machines in the config file of each process, at least one
    StaleAfter,  \* staleThreshold / heartbeatInterval
    MaxCommands, \* bound: rows ever inserted in worker_commands
    Events       \* what the environment of this instance may do

AllEvents == {"pause", "crash", "signal", "execfail", "dberr", "readerr"}

ASSUME ConstantsOK ==
    /\ NameOf \in [Proc -> Name]
    /\ IdOf \in [Proc -> Id]
    /\ MachinesOf \in [Proc -> (SUBSET Machine) \ {{}}]
    /\ StaleAfter \in Nat \ {0}
    /\ MaxCommands \in Nat
    /\ Events \subseteq AllEvents
    /\ None \notin Proc \cup Name \cup Id \cup 1 .. MaxCommands

VARIABLES
    workers,    \* table workers, by name; pid is the process that registered
    claims,     \* table machine_workers, by machine
    machines,   \* machines.status
    cmds,       \* table worker_commands, in created_at order
    request,    \* the SendCommand call that has read the status, or None
    pc,         \* where the main and the command goroutine of a process are
    todo,       \* machines left in the loop that goroutine is in
    cancelled,  \* the process has called cancel() on its context
    polls,      \* machines whose RunMachine goroutine has not returned
    due,        \* a heartbeat tick is waiting in ticker.C
    toBeat,     \* machines left in the current round of heartbeats
    cur,        \* the command the command goroutine is handling, or None
    reexeced,   \* the process image was started by syscall.Exec
    won,        \* history: machines for which this image's claim took effect
    lapsed      \* history: processes whose lease was lost under them

dbVars   == <<workers, claims, machines, cmds>>
procVars == <<pc, todo, cancelled, polls, due, toBeat, cur, reexeced, won>>
vars     == <<dbVars, request, procVars, lapsed>>

-----------------------------------------------------------------------------
Thread    == {"main", "poll"}
CommandId == 1 .. MaxCommands
Age       == 0 .. StaleAfter + 1
Places    == {"down", "register", "provision", "claim", "serve", "picked", "marked",
              "drain", "release", "offline", "exit", "exec", "fail"}

Worker  == [status : {"absent", "online", "offline"}, age : Age, pid : Proc \cup {None}]
Claim   == [owner : Id \cup {None}, ref : Name \cup {None}, age : Age]
Command == [status : {"absent", "pending", "in_progress", "completed", "failed"},
            worker : Name \cup {None}, command : {"stop", "restart", "none"}]

NoWorker  == [status |-> "absent", age |-> 0, pid |-> None]
NoClaim   == [owner |-> None, ref |-> None, age |-> 0]
NoCommand == [status |-> "absent", worker |-> None, command |-> "none"]

\* validCommands of the API handler: what SendCommand lets through.
validCommands == {"stop", "restart"}

(***************************************************************************)
(* Every variable has its type.                                            *)
(***************************************************************************)
TypeOK ==
    /\ workers \in [Name -> Worker]
    /\ claims \in [Machine -> Claim]
    /\ machines \in [Machine -> {"offline", "running", "error"}]
    /\ cmds \in [CommandId -> Command]
    /\ request \in [worker : Name, command : validCommands] \cup {None}
    /\ pc \in [Proc -> [Thread -> Places]]
    /\ todo \in [Proc -> [Thread -> SUBSET Machine]]
    /\ cancelled \in [Proc -> BOOLEAN]
    /\ polls \in [Proc -> SUBSET Machine]
    /\ due \in [Proc -> BOOLEAN]
    /\ toBeat \in [Proc -> SUBSET Machine]
    /\ cur \in [Proc -> CommandId \cup {None}]
    /\ reexeced \in [Proc -> BOOLEAN]
    /\ won \in [Proc -> SUBSET Machine]
    /\ lapsed \in SUBSET Proc

Init ==
    /\ workers = [n \in Name |-> NoWorker]
    /\ claims = [m \in Machine |-> NoClaim]
    /\ machines = [m \in Machine |-> "offline"]
    /\ cmds = [i \in CommandId |-> NoCommand]
    /\ request = None
    /\ pc = [p \in Proc |-> [t \in Thread |-> "down"]]
    /\ todo = [p \in Proc |-> [t \in Thread |-> {}]]
    /\ cancelled = [p \in Proc |-> FALSE]
    /\ polls = [p \in Proc |-> {}]
    /\ due = [p \in Proc |-> FALSE]
    /\ toBeat = [p \in Proc |-> {}]
    /\ cur = [p \in Proc |-> None]
    /\ reexeced = [p \in Proc |-> FALSE]
    /\ won = [p \in Proc |-> {}]
    /\ lapsed = {}

-----------------------------------------------------------------------------
Alive(p)   == pc[p]["main"] # "down"
Serving(p) == pc[p]["main"] = "serve" /\ ~cancelled[p]

\* The process relies on its registration: it holds a row and is not shutting down.
Active(p)  == pc[p]["main"] \in {"provision", "claim", "serve"} /\ ~cancelled[p]

Stale(age) == age > StaleAfter

\* Mutation: ages are not capped.
OlderForEver(age) == age + 1

Older(age) == IF Stale(age) THEN age ELSE age + 1

\* Outcomes of a statement whose error the code only logs: executed or not.
Outcome == IF "dberr" \in Events THEN BOOLEAN ELSE {TRUE}

\* What RunMachine writes after a read, or after the third failed read in a row.
ReadStatus == IF "readerr" \in Events THEN {"running", "error"} ELSE {"running"}

\* Thread t of p moves to place, about to work through the machines S.
Goto(p, t, place, S) ==
    /\ pc' = [pc EXCEPT ![p][t] = place]
    /\ todo' = [todo EXCEPT ![p][t] = S]

\* A new image runs in p from place: everything in memory starts afresh.
Reset(p, place, exec) ==
    /\ pc' = [pc EXCEPT ![p] = [t \in Thread |-> IF t = "main" THEN place ELSE "down"]]
    /\ todo' = [todo EXCEPT ![p] = [t \in Thread |-> {}]]
    /\ cancelled' = [cancelled EXCEPT ![p] = FALSE]
    /\ polls' = [polls EXCEPT ![p] = {}]
    /\ due' = [due EXCEPT ![p] = FALSE]
    /\ toBeat' = [toBeat EXCEPT ![p] = {}]
    /\ cur' = [cur EXCEPT ![p] = None]
    /\ reexeced' = [reexeced EXCEPT ![p] = exec]
    /\ won' = [won EXCEPT ![p] = {}]
    /\ lapsed' = lapsed \ {p}

-----------------------------------------------------------------------------
(* Start-up: main.go up to the goroutines.                                 *)

\* A process is started; its hostname-PID is in use by no running process.
Start(p) ==
    /\ ~Alive(p)
    /\ \A q \in Proc : Alive(q) => IdOf[q] # IdOf[p]
    /\ Reset(p, "register", FALSE)
    /\ UNCHANGED <<dbVars, request>>

\* Mutation: the takeover threshold is inclusive.
CanRegisterEarly(n) ==
    workers[n].status \in {"absent", "offline"} \/ workers[n].age >= StaleAfter

\* The branches of Register that insert the row or take it over.
CanRegister(n) == workers[n].status \in {"absent", "offline"} \/ Stale(workers[n].age)

\* Register, in one transaction that locks the row (FOR UPDATE).
Register(p) ==
    LET n == NameOf[p] IN
    /\ pc[p]["main"] = "register"
    /\ CanRegister(n)
    /\ workers' = [workers EXCEPT ![n] = [status |-> "online", age |-> 0, pid |-> p]]
    /\ Goto(p, "main", "provision", MachinesOf[p])
    /\ UNCHANGED <<claims, machines, cmds, request, cancelled, polls, due, toBeat, cur,
                   reexeced, won, lapsed>>

\* Register finds the row online with a fresh heartbeat: log.Fatalf.
RegisterRefused(p) ==
    /\ pc[p]["main"] = "register"
    /\ ~CanRegister(NameOf[p])
    /\ Reset(p, "down", FALSE)
    /\ UNCHANGED <<dbVars, request>>

\* Provision upserts one machine and sets it running; after the last one, claiming.
ProvisionMachine(p, m) ==
    /\ pc[p]["main"] = "provision"
    /\ m \in todo[p]["main"]
    /\ machines' = [machines EXCEPT ![m] = "running"]
    /\ IF todo[p]["main"] = {m}
       THEN Goto(p, "main", "claim", MachinesOf[p])
       ELSE Goto(p, "main", "provision", todo[p]["main"] \ {m})
    /\ UNCHANGED <<workers, claims, cmds, request, cancelled, polls, due, toBeat, cur,
                   reexeced, won, lapsed>>

\* Mutation: the upsert has no WHERE clause.
CanAlwaysClaim(p, m) == TRUE

\* The upsert of ClaimMachines changes a row that is absent, stale or already its own.
CanClaim(p, m) ==
    \/ claims[m].owner \in {None, IdOf[p]}
    \/ Stale(claims[m].age)

\* One round of ClaimMachines; whether a row was changed is not looked at.
ClaimMachine(p, m) ==
    /\ pc[p]["main"] = "claim"
    /\ m \in todo[p]["main"]
    /\ IF CanClaim(p, m)
       THEN /\ claims' = [claims EXCEPT ![m] =
                            [owner |-> IdOf[p], ref |-> NameOf[p], age |-> 0]]
            /\ won' = [won EXCEPT ![p] = @ \cup {m}]
       ELSE UNCHANGED <<claims, won>>
    /\ Goto(p, "main", "claim", todo[p]["main"] \ {m})
    /\ UNCHANGED <<workers, machines, cmds, request, cancelled, polls, due, toBeat, cur,
                   reexeced, lapsed>>

\* Mutation: the command goroutine is not started.
StartWithoutCommands(p) ==
    /\ pc[p]["main"] = "claim"
    /\ todo[p]["main"] = {}
    /\ pc' = [pc EXCEPT ![p]["main"] = "serve"]
    /\ polls' = [polls EXCEPT ![p] = MachinesOf[p]]
    /\ UNCHANGED <<dbVars, request, todo, cancelled, due, toBeat, cur, reexeced, won,
                   lapsed>>

\* The goroutines start: a poller for every machine of the config, claimed or not.
StartThreads(p) ==
    /\ pc[p]["main"] = "claim"
    /\ todo[p]["main"] = {}
    /\ pc' = [pc EXCEPT ![p] = [t \in Thread |-> "serve"]]
    /\ polls' = [polls EXCEPT ![p] = MachinesOf[p]]
    /\ UNCHANGED <<dbVars, request, todo, cancelled, due, toBeat, cur, reexeced, won,
                   lapsed>>

-----------------------------------------------------------------------------
(* The heartbeat and polling goroutines.                                   *)

\* StartHeartbeat, first statement of a round: by row id, whoever registered last.
HeartbeatWorker(p) ==
    /\ Serving(p)
    /\ due[p]
    /\ toBeat[p] = {}
    /\ \E ok \in Outcome :
          workers' = IF ok THEN [workers EXCEPT ![NameOf[p]].age = 0] ELSE workers
    /\ due' = [due EXCEPT ![p] = FALSE]
    /\ toBeat' = [toBeat EXCEPT ![p] = MachinesOf[p]]
    /\ UNCHANGED <<claims, machines, cmds, request, pc, todo, cancelled, polls, cur,
                   reexeced, won, lapsed>>

\* The rest of the round: only a claim that still carries this worker_id.
HeartbeatMachine(p, m) ==
    /\ Serving(p)
    /\ m \in toBeat[p]
    /\ \E ok \in Outcome :
          claims' = IF ok /\ claims[m].owner = IdOf[p]
                    THEN [claims EXCEPT ![m].age = 0] ELSE claims
    /\ toBeat' = [toBeat EXCEPT ![p] = @ \ {m}]
    /\ UNCHANGED <<workers, machines, cmds, request, pc, todo, cancelled, polls, due, cur,
                   reexeced, won, lapsed>>

\* A tick of RunMachine that writes machines.status, by machine id alone.
RunMachine(p, m) ==
    /\ ~cancelled[p]
    /\ m \in polls[p]
    /\ \E s \in ReadStatus : machines' = [machines EXCEPT ![m] = s]
    /\ UNCHANGED <<workers, claims, cmds, request, procVars, lapsed>>

\* Mutation: the polling loop does not look at its context.
MachineKeepsGoing(p, m) == FALSE

\* RunMachine sees ctx.Done() and returns.
MachineStops(p, m) ==
    /\ cancelled[p]
    /\ m \in polls[p]
    /\ polls' = [polls EXCEPT ![p] = @ \ {m}]
    /\ UNCHANGED <<dbVars, request, pc, todo, cancelled, due, toBeat, cur, reexeced, won,
                   lapsed>>

-----------------------------------------------------------------------------
(* The command goroutine: processNextCommand and the handler of main.go.   *)

\* Mutation: the query does not exclude what another process has started.
PendingOrStarted(n) ==
    {i \in CommandId : cmds[i].status \in {"pending", "in_progress"} /\ cmds[i].worker = n}

\* Mutation: the query does not look at the status.
AllCommands(n) == {i \in CommandId : cmds[i].worker = n}

\* The rows the poller's query selects from.
Pending(n) == {i \in CommandId : cmds[i].status = "pending" /\ cmds[i].worker = n}

\* The transaction: oldest pending command of the row, marked in_progress.
PickCommand(p) ==
    /\ Serving(p)
    /\ pc[p]["poll"] = "serve"
    /\ \E i \in Pending(NameOf[p]) :
          /\ \A j \in Pending(NameOf[p]) : i <= j
          /\ cmds' = [cmds EXCEPT ![i].status = "in_progress"]
          /\ cur' = [cur EXCEPT ![p] = i]
    /\ Goto(p, "poll", "picked", {})
    /\ UNCHANGED <<workers, claims, machines, request, cancelled, polls, due, toBeat,
                   reexeced, won, lapsed>>

\* stop and restart are marked completed before the handler runs.
PreMark(p) ==
    /\ pc[p]["poll"] = "picked"
    /\ \E ok \in Outcome :
          cmds' = IF ok THEN [cmds EXCEPT ![cur[p]].status = "completed"] ELSE cmds
    /\ Goto(p, "poll", "marked", {})
    /\ UNCHANGED <<workers, claims, machines, request, cancelled, polls, due, toBeat, cur,
                   reexeced, won, lapsed>>

\* The handler calls cancel() and then waits for the pollers.
HandlerCancels(p) ==
    /\ pc[p]["poll"] = "marked"
    /\ cancelled' = [cancelled EXCEPT ![p] = TRUE]
    /\ Goto(p, "poll", "drain", {})
    /\ UNCHANGED <<dbVars, request, polls, due, toBeat, cur, reexeced, won, lapsed>>

\* syscall.Exec replaces the image, with the same PID; the row is still online.
Exec(p) ==
    /\ pc[p]["poll"] = "exec"
    /\ Reset(p, "register", TRUE)
    /\ UNCHANGED <<dbVars, request>>

\* os.Executable or syscall.Exec fails: the handler returns an error.
ExecFails(p) ==
    /\ "execfail" \in Events
    /\ pc[p]["poll"] = "exec"
    /\ Goto(p, "poll", "fail", {})
    /\ UNCHANGED <<dbVars, request, cancelled, polls, due, toBeat, cur, reexeced, won,
                   lapsed>>

\* The error overrides the pre-mark; the context is cancelled, so the loop ends.
MarkFailed(p) ==
    /\ pc[p]["poll"] = "fail"
    /\ \E ok \in Outcome :
          cmds' = IF ok THEN [cmds EXCEPT ![cur[p]].status = "failed"] ELSE cmds
    /\ cur' = [cur EXCEPT ![p] = None]
    /\ Goto(p, "poll", "down", {})
    /\ UNCHANGED <<workers, claims, machines, request, cancelled, polls, due, toBeat,
                   reexeced, won, lapsed>>

-----------------------------------------------------------------------------
(* Shutting down: the same steps from the handler and, after a signal, from *)
(* the main goroutine; both may be under way at once.                       *)

\* SIGINT or SIGTERM reaches the main goroutine, which cancels the context.
Signal(p) ==
    /\ "signal" \in Events
    /\ pc[p]["main"] = "serve"
    /\ cancelled' = [cancelled EXCEPT ![p] = TRUE]
    /\ Goto(p, "main", "drain", {})
    /\ UNCHANGED <<dbVars, request, polls, due, toBeat, cur, reexeced, won, lapsed>>

\* Mutation: the machines are released without waiting for their pollers.
DrainedAtOnce(p, t) ==
    /\ pc[p][t] = "drain"
    /\ Goto(p, t, "release", MachinesOf[p])
    /\ UNCHANGED <<dbVars, request, cancelled, polls, due, toBeat, cur, reexeced, won,
                   lapsed>>

\* wg.Wait() returns once every poller has.
Drained(p, t) ==
    /\ pc[p][t] = "drain"
    /\ polls[p] = {}
    /\ Goto(p, t, "release", MachinesOf[p])
    /\ UNCHANGED <<dbVars, request, cancelled, polls, due, toBeat, cur, reexeced, won,
                   lapsed>>

\* A restart goes on to exec, every other path to SetOffline.
AfterRelease(p, t) ==
    IF t = "poll" /\ cmds[cur[p]].command = "restart" THEN "exec" ELSE "offline"

\* One DELETE of ReleaseMachines, only of a claim with this worker_id.
ReleaseMachine(p, t, m) ==
    /\ pc[p][t] = "release"
    /\ m \in todo[p][t]
    /\ \E ok \in Outcome :
          claims' = IF ok /\ claims[m].owner = IdOf[p]
                    THEN [claims EXCEPT ![m] = NoClaim] ELSE claims
    /\ Goto(p, t, IF todo[p][t] = {m} THEN AfterRelease(p, t) ELSE "release",
               todo[p][t] \ {m})
    /\ UNCHANGED <<workers, machines, cmds, request, cancelled, polls, due, toBeat, cur,
                   reexeced, won, lapsed>>

\* SetOffline writes the row by its id, whoever has registered since.
SetOffline(p, t) ==
    LET n == NameOf[p] IN
    /\ pc[p][t] = "offline"
    /\ \E ok \in Outcome :
          IF ok
          THEN /\ workers' = [workers EXCEPT ![n].status = "offline"]
               /\ lapsed' = lapsed \cup {q \in Proc : Active(q) /\ NameOf[q] = n}
          ELSE UNCHANGED <<workers, lapsed>>
    /\ Goto(p, t, "exit", {})
    /\ UNCHANGED <<claims, machines, cmds, request, cancelled, polls, due, toBeat, cur,
                   reexeced, won>>

\* os.Exit(0) in the handler, or main returns.
Exit(p, t) ==
    /\ pc[p][t] = "exit"
    /\ Reset(p, "down", FALSE)
    /\ UNCHANGED <<dbVars, request>>

\* The process dies: killed, or log.Fatalf after an error during start-up.
Crash(p) ==
    /\ "crash" \in Events
    /\ Alive(p)
    /\ Reset(p, "down", FALSE)
    /\ UNCHANGED <<dbVars, request>>

-----------------------------------------------------------------------------
(* The API server.                                                         *)

\* Mutation: the reaper's threshold is inclusive.
StaleNamesEarly ==
    {n \in Name : workers[n].status = "online" /\ workers[n].age >= StaleAfter}

\* Mutation: the reaper starts from the claims and misses workers without any.
StaleNamesWithClaims ==
    {n \in Name : /\ workers[n].status = "online" /\ Stale(workers[n].age)
                  /\ \E m \in Machine : claims[m].ref = n}

\* The rows the "stale" part of the statement updates.
StaleNames == {n \in Name : workers[n].status = "online" /\ Stale(workers[n].age)}

\* The statement of ListWorkers: stale rows go offline, with their machines.
ListWorkers ==
    LET stale    == StaleNames
        released == {m \in Machine : claims[m].ref \in stale}
    IN
    /\ stale # {}
    /\ workers' = [n \in Name |-> IF n \in stale THEN [workers[n] EXCEPT !.status = "offline"]
                                  ELSE workers[n]]
    /\ claims' = [m \in Machine |-> IF m \in released THEN NoClaim ELSE claims[m]]
    /\ machines' = [m \in Machine |-> IF m \in released THEN "offline" ELSE machines[m]]
    /\ UNCHANGED <<cmds, request, procVars, lapsed>>

\* SendCommand reads the status; not found and offline workers are turned away.
CheckOnline(n, c) ==
    /\ request = None
    /\ workers[n].status = "online"
    /\ \E i \in CommandId : cmds[i].status = "absent"
    /\ request' = [worker |-> n, command |-> c]
    /\ UNCHANGED <<dbVars, procVars, lapsed>>

\* Then, in a statement of its own, it inserts the pending command.
InsertCommand ==
    /\ request # None
    /\ \E i \in CommandId :
          /\ cmds[i].status = "absent"
          /\ \A j \in CommandId : j < i => cmds[j].status # "absent"
          /\ cmds' = [cmds EXCEPT ![i] = [status |-> "pending", worker |-> request.worker,
                                          command |-> request.command]]
    /\ request' = None
    /\ UNCHANGED <<workers, claims, machines, procVars, lapsed>>

-----------------------------------------------------------------------------
(***************************************************************************)
(* Time.  A tick makes p lapse when p relies on its registration and its   *)
(* row or a claim it won passes the threshold.  Without "pause" among the  *)
(* Events that only happens to a process with nothing left to do, whose    *)
(* start-up took so long that the first heartbeat comes too late; with it, *)
(* a process, or its database, may hang as long as it likes.               *)
(***************************************************************************)
Lapses(p) ==
    /\ Active(p)
    /\ \/ workers[NameOf[p]].age >= StaleAfter
       \/ \E m \in won[p] : claims[m].age >= StaleAfter

HasWork(p) == Serving(p) => due[p] \/ toBeat[p] # {}

Tick ==
    /\ "pause" \notin Events => ~\E p \in Proc \ lapsed : Lapses(p) /\ HasWork(p)
    /\ workers' = [n \in Name |->
                     IF workers[n].status = "absent" THEN workers[n]
                     ELSE [workers[n] EXCEPT !.age = Older(@)]]
    /\ claims' = [m \in Machine |->
                    IF claims[m].owner = None THEN claims[m]
                    ELSE [claims[m] EXCEPT !.age = Older(@)]]
    /\ due' = [p \in Proc |-> due[p] \/ Serving(p)]
    /\ lapsed' = lapsed \cup {p \in Proc : Lapses(p)}
    /\ UNCHANGED <<machines, cmds, request, pc, todo, cancelled, polls, toBeat, cur,
                   reexeced, won>>

-----------------------------------------------------------------------------
Startup(p) ==
    \/ Register(p) \/ RegisterRefused(p)
    \/ \E m \in Machine : ProvisionMachine(p, m) \/ ClaimMachine(p, m)
    \/ StartThreads(p)

Heartbeat(p) == HeartbeatWorker(p) \/ \E m \in Machine : HeartbeatMachine(p, m)

Handler(p) ==
    \/ PreMark(p) \/ HandlerCancels(p)
    \/ Exec(p) \/ ExecFails(p) \/ MarkFailed(p)

Shutdown(p) ==
    \/ \E m \in Machine : MachineStops(p, m)
    \/ \E t \in Thread :
          \/ Drained(p, t)
          \/ \E m \in Machine : ReleaseMachine(p, t, m)
          \/ SetOffline(p, t) \/ Exit(p, t)

Next ==
    \/ \E p \in Proc :
          \/ Start(p) \/ Startup(p) \/ Heartbeat(p)
          \/ \E m \in Machine : RunMachine(p, m)
          \/ PickCommand(p) \/ Handler(p)
          \/ Signal(p) \/ Shutdown(p) \/ Crash(p)
    \/ ListWorkers
    \/ \E n \in Name, c \in validCommands : CheckOnline(n, c)
    \/ InsertCommand
    \/ Tick

Spec == Init /\ [][Next]_vars

(***************************************************************************)
(* Fairness.  The Go scheduler runs every goroutine that can run, and each *)
(* statement returns, so a started process keeps going; clocks advance;    *)
(* the admin page asks for the list of workers again and again.  Nothing   *)
(* obliges anyone to start a process, send a command or kill one.          *)
(***************************************************************************)
FairSpec ==
    /\ Spec
    /\ \A p \in Proc :
          /\ WF_vars(Startup(p))
          /\ WF_vars(Heartbeat(p))
          /\ WF_vars(PickCommand(p))
          /\ WF_vars(Handler(p))
          /\ WF_vars(Shutdown(p))
    /\ WF_vars(ListWorkers)
    /\ WF_vars(Tick)

-----------------------------------------------------------------------------
(***************************************************************************)
(* A process lapses when, while it still relies on its registration, its   *)
(* row or a claim it won passes the 90 s threshold, or another process of  *)
(* the same name sets the row offline late.  The properties below say what *)
(* register, claim, heartbeat and reap together guarantee until then.      *)
(***************************************************************************)
Held(p) == Active(p) /\ p \notin lapsed

(***************************************************************************)
(* The takeover rule: of two processes configured with the same worker     *)
(* name, at most one works under a registration that has not lapsed.       *)
(***************************************************************************)
OneWorkerPerName ==
    \A p, q \in Proc : Held(p) /\ Held(q) /\ NameOf[p] = NameOf[q] => p = q

(***************************************************************************)
(* Stale detection never turns on a worker that keeps its heartbeat: until *)
(* it lapses its row is online, fresh, and the one it wrote itself.        *)
(***************************************************************************)
HeldIsOnline ==
    \A p \in Proc : Held(p) =>
        LET row == workers[NameOf[p]] IN
        row.status = "online" /\ ~Stale(row.age) /\ row.pid = p

(***************************************************************************)
(* A claim that took effect is neither reaped, released nor taken over     *)
(* under a process that keeps its heartbeat.                               *)
(***************************************************************************)
WonClaimKept ==
    \A p \in Proc : Held(p) => \A m \in won[p] :
        claims[m].owner = IdOf[p] /\ claims[m].ref = NameOf[p] /\ ~Stale(claims[m].age)

(***************************************************************************)
(* So no machine is won by two such processes, of whatever names.          *)
(***************************************************************************)
OneOwnerPerMachine ==
    \A p, q \in Proc : Held(p) /\ Held(q) /\ p # q => won[p] \cap won[q] = {}

(***************************************************************************)
(* FOR UPDATE SKIP LOCKED: no command is ever in the hands of two command  *)
(* goroutines, even when two processes poll the same row.                  *)
(***************************************************************************)
OneExecutor ==
    \A p, q \in Proc : cur[p] = cur[q] /\ cur[p] # None => p = q

Rank(s) == CASE s = "absent" -> 0 [] s = "pending" -> 1 [] s = "in_progress" -> 2
             [] s = "completed" -> 3 [] s = "failed" -> 4

\* What a step may do to command i.
MovesForward(i) ==
    cmds'[i] # cmds[i] =>
        /\ Rank(cmds[i].status) < Rank(cmds'[i].status)
        /\ cmds[i].status # "absent" => cmds'[i] = [cmds[i] EXCEPT !.status = cmds'[i].status]

(***************************************************************************)
(* The status of a command only moves forward, and its row is immutable:   *)
(* what was started is not offered again, and the "failed" of a restart    *)
(* that could not exec is not covered up by the earlier "completed".       *)
(***************************************************************************)
CommandsMoveForward == [][\A i \in CommandId : MovesForward(i)]_cmds

(***************************************************************************)
(* An orderly shutdown, by signal, by command or by both at once, leaves   *)
(* no claim behind in the process's name, and stops polling before it      *)
(* gives the machines up.                                                  *)
(***************************************************************************)
ShutdownReleases ==
    \A p \in Proc, t \in Thread :
        pc[p][t] \in {"offline", "exit", "exec", "fail"} =>
            /\ polls[p] = {}
            /\ \A m \in MachinesOf[p] : claims[m].owner = IdOf[p] => "dberr" \in Events

(***************************************************************************)
(* What the documents say and the code does not do; each has a run that    *)
(* shows the counterexample.                                               *)
(*                                                                         *)
(* A worker told to restart registers again after the exec: it is not      *)
(* turned away by its own row.                                             *)
(***************************************************************************)
RestartIsNotRefused ==
    [][\A p \in Proc : reexeced[p] /\ pc[p]["main"] = "register"
                          => pc'[p]["main"] # "down"]_vars

(***************************************************************************)
(* A worker polls only machines whose claim it holds: stale claims are     *)
(* taken over, and machines of others left alone.                          *)
(***************************************************************************)
PolledIsClaimed ==
    \A p \in Proc : Held(p) => \A m \in polls[p] : claims[m].owner = IdOf[p]

(***************************************************************************)
(* A command queued behind a pending stop is not executed.                 *)
(***************************************************************************)
NothingAfterStop ==
    \A i, j \in CommandId : i < j =>
        []( /\ cmds[i].status = "pending" /\ cmds[i].command = "stop"
            /\ cmds[j].status = "pending" /\ cmds[i].worker = cmds[j].worker
              => [](cmds[j].status = "pending"))

-----------------------------------------------------------------------------
(***************************************************************************)
(* A pending command is picked up while a process serves its row.          *)
(***************************************************************************)
CommandIsPicked ==
    \A i \in CommandId, n \in Name :
        cmds[i].status = "pending" /\ cmds[i].worker = n
            ~> \/ cmds[i].status # "pending"
               \/ ~\E p \in Proc : NameOf[p] = n /\ Serving(p)

(***************************************************************************)
(* Once the context is cancelled the process gets to its exit or its exec: *)
(* no wait in the two shutdown paths holds up the other.                   *)
(***************************************************************************)
ShutdownEnds == \A p \in Proc : cancelled[p] ~> ~cancelled[p]

(***************************************************************************)
(* A worker that died without a word, at whatever step of its start-up or  *)
(* shutdown, is in the end shown offline and holds no machine, unless its  *)
(* name is put to work again.                                              *)
(***************************************************************************)
DeadWorkerLetsGo ==
    \A n \in Name :
        workers[n].status = "online"
            ~> \/ /\ workers[n].status = "offline"
                  /\ \A m \in Machine : claims[m].ref # n
               \/ \E p \in Proc : NameOf[p] = n /\ Alive(p)

=============================================================================
