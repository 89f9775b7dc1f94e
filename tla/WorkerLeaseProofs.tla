------------------------ MODULE WorkerLeaseProofs ------------------------
(***************************************************************************)
(* The lease: a process that is registered and keeps its heartbeat owns    *)
(* its row and the machines it won, whatever the other processes, the API  *)
(* server and the scheduler do.                                            *)
(*                                                                         *)
(* HeldIsOnline and WonClaimKept need each other and three more facts: a   *)
(* stale row takes its claims along when it is reaped, so WonClaimKept     *)
(* rests on HeldIsOnline; a claim is recognised by the hostname-PID, so    *)
(* it rests on living processes having distinct ones; and the handler      *)
(* releases machines only after cancel(), when the process no longer       *)
(* counts as active.  Last, the orderly shutdown: what ShutdownReleases    *)
(* says of a process on its way out.                                       *)
(***************************************************************************)
EXTENDS WorkerFleetProofs

\* Where the command goroutine can be, given the rest of its process; and a new
\* image has won nothing yet.
ProcessShape ==
    \A p \in Proc :
        /\ pc[p]["main"] = "register" => won[p] = {}
        /\ pc[p]["poll"] # "down" => Alive(p)
        /\ pc[p]["poll"] \in {"drain", "release", "offline", "exit", "exec", "fail"}
              => cancelled[p]

\* The operating system gives no PID to two running processes.
DistinctIds ==
    \A p, q \in Proc : Alive(p) /\ Alive(q) /\ IdOf[p] = IdOf[q] => p = q

LeaseInv == TypeOK /\ ProcessShape /\ DistinctIds /\ HeldIsOnline /\ WonClaimKept

-----------------------------------------------------------------------------
\* Where a Goto, and a Reset, leave every process.
LEMMA GotoEffect ==
    ASSUME TypeOK, NEW p \in Proc, NEW t \in Thread, NEW place, NEW S, Goto(p, t, place, S)
    PROVE  \A q \in Proc, u \in Thread :
              pc'[q][u] = IF q = p /\ u = t THEN place ELSE pc[q][u]
BY DEF TypeOK, Goto

LEMMA ResetEffect ==
    ASSUME TypeOK, NEW p \in Proc, NEW place, NEW e, Reset(p, place, e)
    PROVE  /\ pc'[p]["main"] = place /\ pc'[p]["poll"] = "down" /\ ~cancelled'[p]
           /\ won'[p] = {}
           /\ \A q \in Proc \ {p} :
                 /\ pc'[q] = pc[q]
                 /\ cancelled'[q] = cancelled[q]
                 /\ won'[q] = won[q]
           /\ lapsed' = lapsed \ {p}
BY DEF TypeOK, Reset, Thread

LEMMA MainAndPoll == "main" \in Thread /\ "poll" \in Thread
BY DEF Thread

-----------------------------------------------------------------------------
\* Every step keeps the shape of the processes and the distinctness of their PIDs.
LEMMA ShapeStep ==
    ASSUME TypeOK, ProcessShape, DistinctIds, [Next]_vars
    PROVE  ProcessShape' /\ DistinctIds'
<1> USE MainAndPoll DEF ProcessShape, DistinctIds, Alive
<1>1. ASSUME NEW p \in Proc, NEW e, Reset(p, "down", e)
      PROVE  ProcessShape' /\ DistinctIds'
  BY <1>1, ResetEffect
<1>2. ASSUME NEW p \in Proc, NEW e, Reset(p, "register", e),
             \A q \in Proc \ {p} : Alive(q) => IdOf[q] # IdOf[p]
      PROVE  ProcessShape' /\ DistinctIds'
  BY <1>2, ResetEffect
<1>3. ASSUME NEW p \in Proc, Start(p) \/ Exec(p) PROVE ProcessShape' /\ DistinctIds'
  <2>1. PICK e : Reset(p, "register", e)
    BY <1>3 DEF Start, Exec
  <2>2. \A q \in Proc \ {p} : Alive(q) => IdOf[q] # IdOf[p]
    BY <1>3 DEF Start, Exec
  <2> QED
    BY <1>2, <2>1, <2>2
<1>4. ASSUME NEW p \in Proc,
             RegisterRefused(p) \/ Crash(p) \/ \E t \in Thread : Exit(p, t)
      PROVE  ProcessShape' /\ DistinctIds'
  BY <1>1, <1>4 DEF RegisterRefused, Exit, Crash
<1>5. ASSUME NEW p \in Proc,
             \/ Register(p)
             \/ \E m \in Machine : ProvisionMachine(p, m) \/ ClaimMachine(p, m)
      PROVE  ProcessShape' /\ DistinctIds'
  <2>1. PICK place, S : place \in {"provision", "claim"} /\ Goto(p, "main", place, S)
    <3>1. CASE Register(p)
      BY <3>1 DEF Register
    <3>2. ASSUME NEW m \in Machine, ProvisionMachine(p, m)
          PROVE  \E place, S : place \in {"provision", "claim"} /\ Goto(p, "main", place, S)
      BY <3>2 DEF ProvisionMachine
    <3>3. ASSUME NEW m \in Machine, ClaimMachine(p, m)
          PROVE  \E place, S : place \in {"provision", "claim"} /\ Goto(p, "main", place, S)
      BY <3>3 DEF ClaimMachine
    <3> QED
      BY <1>5, <3>1, <3>2, <3>3
  <2>2. cancelled' = cancelled /\ pc[p]["main"] # "down"
    BY <1>5 DEF Register, ProvisionMachine, ClaimMachine
  <2>3. \A q \in Proc \ {p} : won'[q] = won[q]
    BY <1>5 DEF Register, ProvisionMachine, ClaimMachine, TypeOK
  <2> QED
    BY <2>1, <2>2, <2>3, GotoEffect
<1>6. ASSUME NEW p \in Proc, StartThreads(p) PROVE ProcessShape' /\ DistinctIds'
  <2>1. /\ cancelled' = cancelled /\ won' = won /\ pc[p]["main"] # "down"
        /\ \A q \in Proc : pc'[q] = IF q = p THEN [t \in Thread |-> "serve"] ELSE pc[q]
    BY <1>6 DEF StartThreads, TypeOK
  <2> QED
    BY <2>1
<1>7. ASSUME NEW p \in Proc, PickCommand(p) \/ PreMark(p)
      PROVE  ProcessShape' /\ DistinctIds'
  <2>1. PICK place \in {"picked", "marked"} : Goto(p, "poll", place, {})
    BY <1>7 DEF PickCommand, PreMark
  <2>2. cancelled' = cancelled /\ won' = won /\ pc[p]["poll"] # "down"
    BY <1>7 DEF PickCommand, PreMark
  <2> QED
    BY <2>1, <2>2, GotoEffect
<1>8. ASSUME NEW p \in Proc, HandlerCancels(p) PROVE ProcessShape' /\ DistinctIds'
  <2>1. Goto(p, "poll", "drain", {}) /\ won' = won /\ pc[p]["poll"] # "down"
    BY <1>8 DEF HandlerCancels
  <2>2. \A q \in Proc : IF q = p THEN cancelled'[q] ELSE cancelled'[q] = cancelled[q]
    BY <1>8 DEF HandlerCancels, TypeOK
  <2> QED
    BY <2>1, <2>2, GotoEffect
<1>9. ASSUME NEW p \in Proc, Signal(p) PROVE ProcessShape' /\ DistinctIds'
  <2>1. Goto(p, "main", "drain", {}) /\ won' = won /\ pc[p]["main"] # "down"
    BY <1>9 DEF Signal
  <2>2. \A q \in Proc : IF q = p THEN cancelled'[q] ELSE cancelled'[q] = cancelled[q]
    BY <1>9 DEF Signal, TypeOK
  <2> QED
    BY <2>1, <2>2, GotoEffect
<1>10. ASSUME NEW p \in Proc, ExecFails(p) \/ MarkFailed(p) PROVE ProcessShape' /\ DistinctIds'
  <2>1. PICK place \in {"fail", "down"} : Goto(p, "poll", place, {})
    BY <1>10 DEF ExecFails, MarkFailed
  <2>2. cancelled' = cancelled /\ won' = won /\ pc[p]["poll"] \in {"exec", "fail"}
    BY <1>10 DEF ExecFails, MarkFailed
  <2> QED
    BY <2>1, <2>2, GotoEffect
<1>11. ASSUME NEW p \in Proc, NEW t \in Thread,
              \/ Drained(p, t) \/ SetOffline(p, t)
              \/ \E m \in Machine : ReleaseMachine(p, t, m)
       PROVE  ProcessShape' /\ DistinctIds'
  <2>1. PICK place, S : /\ place \in {"release", "offline", "exit", "exec"}
                          /\ Goto(p, t, place, S)
    <3>1. CASE Drained(p, t) \/ SetOffline(p, t)
      BY <3>1 DEF Drained, SetOffline
    <3>2. ASSUME NEW m \in Machine, ReleaseMachine(p, t, m)
          PROVE  \E place, S : /\ place \in {"release", "offline", "exit", "exec"}
                              /\ Goto(p, t, place, S)
      <4>1. AfterRelease(p, t) \in {"exec", "offline"}
        BY DEF AfterRelease
      <4> QED
        BY <3>2, <4>1 DEF ReleaseMachine
    <3> QED
      BY <1>11, <3>1, <3>2
  <2>2. cancelled' = cancelled /\ won' = won /\ pc[p][t] \in {"drain", "release", "offline"}
    BY <1>11 DEF Drained, ReleaseMachine, SetOffline
  <2> QED
    BY <2>1, <2>2, GotoEffect
<1>12. CASE \E p \in Proc :
               \/ HeartbeatWorker(p)
               \/ \E m \in Machine : HeartbeatMachine(p, m) \/ RunMachine(p, m) \/ MachineStops(p, m)
  BY <1>12 DEF HeartbeatWorker, HeartbeatMachine, RunMachine, MachineStops, procVars
<1>13. CASE \/ \E n \in Name, c \in validCommands : CheckOnline(n, c)
            \/ ListWorkers \/ InsertCommand \/ Tick
  BY <1>13 DEF ListWorkers, CheckOnline, InsertCommand, Tick, procVars
<1>14. CASE UNCHANGED vars
  BY <1>14 DEF vars, procVars
<1> QED
  <2>1. CASE \E p \in Proc : \/ Start(p) \/ RegisterRefused(p) \/ Crash(p) \/ Exec(p)
                             \/ \E t \in Thread : Exit(p, t)
    BY <2>1, <1>3, <1>4
  <2>2. CASE \E p \in Proc : \/ Register(p) \/ StartThreads(p)
                             \/ \E m \in Machine : ProvisionMachine(p, m) \/ ClaimMachine(p, m)
    BY <2>2, <1>5, <1>6
  <2>3. CASE \E p \in Proc : \/ PickCommand(p) \/ PreMark(p) \/ HandlerCancels(p)
                             \/ ExecFails(p) \/ MarkFailed(p) \/ Signal(p)
    BY <2>3, <1>7, <1>8, <1>9, <1>10
  <2>4. CASE \E p \in Proc, t \in Thread :
                \/ Drained(p, t) \/ SetOffline(p, t)
                \/ \E m \in Machine : ReleaseMachine(p, t, m)
    BY <2>4, <1>11
  <2> QED
    BY <2>1, <2>2, <2>3, <2>4, <1>12, <1>13, <1>14
       DEF Next, Startup, Heartbeat, Handler, Shutdown

-----------------------------------------------------------------------------
\* What HeldIsOnline and WonClaimKept say of one process.
RowKept(p) ==
    LET row == workers[NameOf[p]] IN
    row.status = "online" /\ ~Stale(row.age) /\ row.pid = p

ClaimKept(p, m) ==
    claims[m].owner = IdOf[p] /\ claims[m].ref = NameOf[p] /\ ~Stale(claims[m].age)

LeaseKept(p) == RowKept(p) /\ \A m \in won[p] : ClaimKept(p, m)

\* The two lease invariants, process by process.
LEMMA LeasePerProcess == HeldIsOnline /\ WonClaimKept <=> \A p \in Proc : Held(p) => LeaseKept(p)
BY DEF HeldIsOnline, WonClaimKept, LeaseKept, RowKept, ClaimKept

(***************************************************************************)
(* A process that holds its lease after a step held it before, unless the  *)
(* step was its own registration.                                          *)
(***************************************************************************)
LEMMA HeldBefore ==
    ASSUME TypeOK, [Next]_vars, NEW p \in Proc, Held(p)', ~Register(p)
    PROVE  Held(p)
<1> USE MainAndPoll DEF Held, Active
<1>1. CASE \E q \in Proc : \/ Start(q) \/ RegisterRefused(q) \/ Crash(q) \/ Exec(q)
                           \/ \E t \in Thread : Exit(q, t)
  <2>1. PICK q, place, e : /\ q \in Proc /\ place \in {"down", "register"}
                             /\ Reset(q, place, e)
    BY <1>1 DEF Start, RegisterRefused, Crash, Exec, Exit
  <2> QED
    BY <2>1, ResetEffect
<1>2. ASSUME NEW q \in Proc, q # p, Register(q) PROVE Held(p)
  BY <1>2, GotoEffect DEF Register
<1>3. ASSUME NEW q \in Proc, NEW m \in Machine, ProvisionMachine(q, m) PROVE Held(p)
  BY <1>3, GotoEffect DEF ProvisionMachine
<1>4. ASSUME NEW q \in Proc, NEW m \in Machine, ClaimMachine(q, m) PROVE Held(p)
  BY <1>4, GotoEffect DEF ClaimMachine
<1>5. ASSUME NEW q \in Proc, StartThreads(q) PROVE Held(p)
  BY <1>5 DEF StartThreads, TypeOK
<1>6. ASSUME NEW q \in Proc, PickCommand(q) \/ PreMark(q) PROVE Held(p)
  BY <1>6, GotoEffect DEF PickCommand, PreMark
<1>7. ASSUME NEW q \in Proc, HandlerCancels(q) PROVE Held(p)
  BY <1>7, GotoEffect DEF HandlerCancels, TypeOK
<1>8. ASSUME NEW q \in Proc, Signal(q) PROVE Held(p)
  BY <1>8, GotoEffect DEF Signal, TypeOK
<1>9. ASSUME NEW q \in Proc, ExecFails(q) \/ MarkFailed(q) PROVE Held(p)
  BY <1>9, GotoEffect DEF ExecFails, MarkFailed
<1>10. ASSUME NEW q \in Proc, NEW t \in Thread, Drained(q, t) PROVE Held(p)
  BY <1>10, GotoEffect DEF Drained
<1>11. ASSUME NEW q \in Proc, NEW t \in Thread, NEW m \in Machine, ReleaseMachine(q, t, m)
       PROVE  Held(p)
  <2>1. AfterRelease(q, t) \in {"exec", "offline"}
    BY DEF AfterRelease
  <2> QED
    BY <1>11, <2>1, GotoEffect DEF ReleaseMachine
<1>12. ASSUME NEW q \in Proc, NEW t \in Thread, SetOffline(q, t) PROVE Held(p)
  BY <1>12, GotoEffect DEF SetOffline
<1>13. CASE \E q \in Proc :
               \/ HeartbeatWorker(q)
               \/ \E m \in Machine : HeartbeatMachine(q, m) \/ RunMachine(q, m) \/ MachineStops(q, m)
  BY <1>13 DEF HeartbeatWorker, HeartbeatMachine, RunMachine, MachineStops, procVars
<1>14. CASE \/ \E n \in Name, c \in validCommands : CheckOnline(n, c)
            \/ ListWorkers \/ InsertCommand \/ Tick
  BY <1>14 DEF ListWorkers, CheckOnline, InsertCommand, Tick, procVars
<1>15. CASE UNCHANGED vars
  BY <1>15 DEF vars, procVars
<1> QED
  BY <1>1, <1>2, <1>3, <1>4, <1>5, <1>6, <1>7, <1>8, <1>9, <1>10, <1>11, <1>12, <1>13,
     <1>14, <1>15
     DEF Next, Startup, Heartbeat, Handler, Shutdown

(***************************************************************************)
(* Which actions write the shared tables.                                  *)
(***************************************************************************)
LEMMA WritersOfWorkers ==
    ASSUME [Next]_vars, workers' # workers
    PROVE  \/ \E q \in Proc : \/ Register(q) \/ HeartbeatWorker(q)
                             \/ \E t \in Thread : SetOffline(q, t)
           \/ ListWorkers \/ Tick
<1> USE DEF dbVars
<1>1. ASSUME NEW q \in Proc, Startup(q) \/ Start(q) \/ Crash(q) PROVE Register(q)
  BY <1>1 DEF Startup, Start, Crash, RegisterRefused, ProvisionMachine, ClaimMachine,
              StartThreads
<1>2. ASSUME NEW q \in Proc, Heartbeat(q) PROVE HeartbeatWorker(q)
  BY <1>2 DEF Heartbeat, HeartbeatMachine
<1>3. ASSUME NEW q \in Proc,
             PickCommand(q) \/ Handler(q) \/ Signal(q) \/ \E m \in Machine : RunMachine(q, m)
      PROVE  FALSE
  BY <1>3 DEF PickCommand, Handler, Signal, RunMachine, PreMark, HandlerCancels, Exec,
              ExecFails, MarkFailed
<1>4. ASSUME NEW q \in Proc, Shutdown(q) PROVE \E t \in Thread : SetOffline(q, t)
  BY <1>4 DEF Shutdown, MachineStops, Drained, ReleaseMachine, Exit
<1>5. ~InsertCommand /\ ~\E n \in Name, c \in validCommands : CheckOnline(n, c)
  BY DEF InsertCommand, CheckOnline
<1>6. Next
  BY DEF vars
<1> QED
  BY <1>1, <1>2, <1>3, <1>4, <1>5, <1>6 DEF Next

LEMMA WritersOfClaims ==
    ASSUME TypeOK, [Next]_vars, NEW m \in Machine, claims'[m] # claims[m]
    PROVE  \/ \E q \in Proc : \/ ClaimMachine(q, m) \/ HeartbeatMachine(q, m)
                             \/ \E t \in Thread : ReleaseMachine(q, t, m)
           \/ ListWorkers \/ Tick
<1> USE DEF dbVars
<1>1. ASSUME NEW q \in Proc, Startup(q) \/ Start(q) \/ Crash(q) PROVE ClaimMachine(q, m)
  <2>1. PICK k \in Machine : ClaimMachine(q, k)
    BY <1>1 DEF Startup, Start, Crash, Register, RegisterRefused, ProvisionMachine,
                StartThreads
  <2>2. claims' = [claims EXCEPT ![k] = [owner |-> IdOf[q], ref |-> NameOf[q], age |-> 0]]
    BY <2>1 DEF ClaimMachine
  <2>3. k = m
    BY <2>2 DEF TypeOK
  <2> QED
    BY <2>1, <2>3
<1>2. ASSUME NEW q \in Proc, Heartbeat(q) PROVE HeartbeatMachine(q, m)
  <2>1. PICK k \in Machine : HeartbeatMachine(q, k)
    BY <1>2 DEF Heartbeat, HeartbeatWorker
  <2> QED
    BY <2>1 DEF HeartbeatMachine, TypeOK
<1>3. ASSUME NEW q \in Proc,
             PickCommand(q) \/ Handler(q) \/ Signal(q) \/ \E k \in Machine : RunMachine(q, k)
      PROVE  FALSE
  BY <1>3 DEF PickCommand, Handler, Signal, RunMachine, PreMark, HandlerCancels, Exec,
              ExecFails, MarkFailed
<1>4. ASSUME NEW q \in Proc, Shutdown(q) PROVE \E t \in Thread : ReleaseMachine(q, t, m)
  <2>1. PICK t \in Thread, k \in Machine : ReleaseMachine(q, t, k)
    BY <1>4 DEF Shutdown, MachineStops, Drained, SetOffline, Exit
  <2> QED
    BY <2>1 DEF ReleaseMachine, TypeOK
<1>5. ~InsertCommand /\ ~\E n \in Name, c \in validCommands : CheckOnline(n, c)
  BY DEF InsertCommand, CheckOnline
<1>6. Next
  BY DEF vars
<1> QED
  BY <1>1, <1>2, <1>3, <1>4, <1>5, <1>6 DEF Next

LEMMA WritersOfWon ==
    ASSUME TypeOK, [Next]_vars, NEW p \in Proc, NEW m \in won'[p], m \notin won[p]
    PROVE  ClaimMachine(p, m)
<1>1. ASSUME NEW q \in Proc, NEW place, NEW e, Reset(q, place, e) PROVE FALSE
  BY <1>1, ResetEffect
<1>2. ASSUME NEW q \in Proc, Startup(q) \/ Start(q) \/ Crash(q) PROVE ClaimMachine(p, m)
  <2>1. PICK k \in Machine : ClaimMachine(q, k)
    BY <1>1, <1>2 DEF Startup, Start, Crash, Register, RegisterRefused, ProvisionMachine,
                StartThreads
  <2>2. won' = [won EXCEPT ![q] = @ \cup {k}]
    BY <2>1 DEF ClaimMachine
  <2>3. q = p /\ k = m
    BY <2>2 DEF TypeOK
  <2> QED
    BY <2>1, <2>3
<1>3. ASSUME NEW q \in Proc,
             \/ PickCommand(q) \/ Handler(q) \/ Signal(q) \/ Heartbeat(q)
             \/ \E k \in Machine : RunMachine(q, k)
      PROVE  FALSE
  BY <1>1, <1>3 DEF PickCommand, Handler, Signal, RunMachine, PreMark, HandlerCancels, Exec,
              ExecFails, MarkFailed, Heartbeat, HeartbeatWorker, HeartbeatMachine, procVars
<1>4. ASSUME NEW q \in Proc, Shutdown(q) PROVE FALSE
  BY <1>1, <1>4 DEF Shutdown, MachineStops, Drained, SetOffline, Exit, ReleaseMachine
<1>5. ~ListWorkers /\ ~Tick /\ ~InsertCommand
      /\ ~\E n \in Name, c \in validCommands : CheckOnline(n, c)
  BY DEF InsertCommand, CheckOnline, ListWorkers, Tick, procVars
<1>6. Next
  BY DEF vars, procVars
<1> QED
  BY <1>2, <1>3, <1>4, <1>5, <1>6 DEF Next

(***************************************************************************)
(* A process that holds its lease keeps its row and its claims, whoever    *)
(* moves.                                                                  *)
(***************************************************************************)
LEMMA RowStep ==
    ASSUME LeaseInv, [Next]_vars, NEW p \in Proc, Held(p)', ~Register(p)
    PROVE  RowKept(p)'
<1> USE ConstantTypes
<1>1. Held(p) /\ RowKept(p) /\ TypeOK
  BY HeldBefore, LeasePerProcess DEF LeaseInv, LeaseKept
<1>2. SUFFICES ASSUME workers' # workers PROVE RowKept(p)'
  BY <1>1 DEF RowKept
<1>3. ASSUME NEW q \in Proc, Register(q) PROVE RowKept(p)'
  <2>1. NameOf[q] # NameOf[p]
    BY <1>1, <1>3 DEF Register, CanRegister, RowKept
  <2> QED
    BY <1>1, <1>3, <2>1 DEF Register, RowKept, TypeOK
<1>4. ASSUME NEW q \in Proc, HeartbeatWorker(q) PROVE RowKept(p)'
  <2>1. workers' = [workers EXCEPT ![NameOf[q]].age = 0]
    BY <1>2, <1>4 DEF HeartbeatWorker
  <2>2. workers[NameOf[p]] \in Worker /\ workers'[NameOf[p]] =
           IF NameOf[p] = NameOf[q] THEN [workers[NameOf[p]] EXCEPT !.age = 0]
           ELSE workers[NameOf[p]]
    BY <2>1 DEF LeaseInv, TypeOK
  <2> QED
    BY <1>1, <2>2 DEF RowKept, Worker, Stale
<1>5. ASSUME NEW q \in Proc, NEW t \in Thread, SetOffline(q, t) PROVE RowKept(p)'
  <2>1. /\ workers' = [workers EXCEPT ![NameOf[q]].status = "offline"]
        /\ lapsed' = lapsed \cup {r \in Proc : Active(r) /\ NameOf[r] = NameOf[q]}
    BY <1>2, <1>5 DEF SetOffline
  <2>2. NameOf[p] # NameOf[q]
    BY <1>1, <2>1 DEF Held
  <2> QED
    BY <1>1, <2>1, <2>2 DEF RowKept, TypeOK
<1>6. CASE ListWorkers
  <2>1. NameOf[p] \notin StaleNames
    BY <1>1 DEF StaleNames, RowKept
  <2>2. workers'[NameOf[p]] = workers[NameOf[p]]
    BY <1>6, <2>1 DEF ListWorkers
  <2> QED
    BY <1>1, <2>2 DEF RowKept
<1>7. CASE Tick
  <2>1. ~Lapses(p)
    BY <1>7 DEF Held, Tick
  <2>2. /\ workers[NameOf[p]] \in Worker
        /\ workers[NameOf[p]].age \in Nat
        /\ workers[NameOf[p]].age < StaleAfter
    BY <1>1, <2>1 DEF Lapses, Held, TypeOK, Worker, Age
  <2>3. workers'[NameOf[p]] = [workers[NameOf[p]] EXCEPT !.age = Older(@)]
    BY <1>1, <1>7 DEF Tick, RowKept
  <2> QED
    BY <1>1, <2>2, <2>3 DEF RowKept, Worker, Older, Stale
<1> QED
  BY <1>2, <1>3, <1>4, <1>5, <1>6, <1>7, WritersOfWorkers

(***************************************************************************)
(* A claim that took effect is kept in the same way.                       *)
(***************************************************************************)
LEMMA ClaimStep ==
    ASSUME LeaseInv, [Next]_vars, NEW p \in Proc, Held(p)', ~Register(p), NEW m \in won'[p]
    PROVE  ClaimKept(p, m)'
<1> USE ConstantTypes
<1>1. Held(p) /\ LeaseKept(p) /\ TypeOK /\ Alive(p)
  BY HeldBefore, LeasePerProcess DEF LeaseInv, Held, Active, Alive
<1>2. m \in Machine
  BY TypeStep DEF LeaseInv, TypeOK
<1>3. ASSUME NEW q \in Proc, NEW k \in Machine, ClaimMachine(q, k), k = m
      PROVE  ClaimKept(p, m)'
  <2>1. CASE CanClaim(q, m)
    <3>1. claims' = [claims EXCEPT ![m] = [owner |-> IdOf[q], ref |-> NameOf[q], age |-> 0]]
      BY <1>3, <2>1 DEF ClaimMachine
    <3>2. q = p
      <4> SUFFICES ASSUME q # p PROVE FALSE
        OBVIOUS
      <4>1. won'[p] = won[p] /\ Alive(q)
        BY <1>1, <1>3 DEF ClaimMachine, TypeOK, Alive
      <4>2. IdOf[q] # IdOf[p]
        BY <1>1, <4>1 DEF LeaseInv, DistinctIds
      <4>3. ClaimKept(p, m)
        BY <1>1, <4>1 DEF LeaseKept
      <4> QED
        BY <2>1, <4>2, <4>3 DEF CanClaim, ClaimKept
    <3> QED
      BY <1>1, <1>2, <3>1, <3>2 DEF ClaimKept, TypeOK, Stale
  <2>2. CASE ~CanClaim(q, m)
    <3>1. claims' = claims /\ won' = won
      BY <1>3, <2>2 DEF ClaimMachine
    <3> QED
      BY <1>1, <3>1 DEF LeaseKept, ClaimKept
  <2> QED
    BY <2>1, <2>2
<1>4. ASSUME ~\E q \in Proc : ClaimMachine(q, m) PROVE m \in won[p]
  BY <1>1, <1>4, WritersOfWon DEF Held, Active
<1>5. SUFFICES ASSUME ~\E q \in Proc : ClaimMachine(q, m) PROVE ClaimKept(p, m)'
  BY <1>2, <1>3
<1>6. m \in won[p] /\ ClaimKept(p, m)
  BY <1>1, <1>4, <1>5 DEF LeaseKept
<1>7. SUFFICES ASSUME claims'[m] # claims[m] PROVE ClaimKept(p, m)'
  BY <1>6 DEF ClaimKept
<1>8. ASSUME NEW q \in Proc, HeartbeatMachine(q, m) PROVE ClaimKept(p, m)'
  <2>1. claims' = [claims EXCEPT ![m].age = 0]
    BY <1>7, <1>8 DEF HeartbeatMachine
  <2>2. claims[m] \in Claim /\ claims'[m] = [claims[m] EXCEPT !.age = 0]
    BY <1>1, <1>2, <2>1 DEF TypeOK
  <2> QED
    BY <1>6, <2>2 DEF ClaimKept, Claim, Stale
<1>9. ASSUME NEW q \in Proc, NEW t \in Thread, ReleaseMachine(q, t, m) PROVE FALSE
  <2>1. claims[m].owner = IdOf[q]
    BY <1>7, <1>9 DEF ReleaseMachine
  <2>2. pc[q][t] = "release" /\ Alive(q)
    BY <1>9, MainAndPoll DEF ReleaseMachine, LeaseInv, ProcessShape, Alive, Thread
  <2>3. q = p
    BY <1>1, <1>6, <2>1, <2>2 DEF LeaseInv, DistinctIds, ClaimKept
  <2> QED
    BY <1>1, <2>2, <2>3 DEF LeaseInv, ProcessShape, Held, Active, Thread
<1>10. CASE ListWorkers
  <2>1. NameOf[p] \notin StaleNames
    BY <1>1 DEF StaleNames, LeaseKept, RowKept
  <2>2. claims'[m] = claims[m]
    BY <1>2, <1>6, <1>10, <2>1 DEF ListWorkers, ClaimKept
  <2> QED
    BY <1>7, <2>2
<1>11. CASE Tick
  <2>1. ~Lapses(p)
    BY <1>11 DEF Held, Tick
  <2>2. /\ claims[m] \in Claim
        /\ claims[m].age \in Nat
        /\ claims[m].age < StaleAfter
    BY <1>1, <1>2, <1>6, <2>1 DEF Lapses, Held, TypeOK, Claim, Age
  <2>3. claims'[m] = [claims[m] EXCEPT !.age = Older(@)]
    BY <1>2, <1>7, <1>11 DEF Tick
  <2> QED
    BY <1>6, <2>2, <2>3 DEF ClaimKept, Claim, Older, Stale
<1> QED
  <2>1. \/ \E q \in Proc : \/ HeartbeatMachine(q, m)
                          \/ \E t \in Thread : ReleaseMachine(q, t, m)
        \/ ListWorkers \/ Tick
    BY <1>1, <1>2, <1>5, <1>7, WritersOfClaims
  <2> QED
    BY <2>1, <1>8, <1>9, <1>10, <1>11

\* The lease invariant is inductive.
LEMMA LeaseInit == Init => LeaseInv
BY TypeInit, MainAndPoll
   DEF Init, LeaseInv, ProcessShape, DistinctIds, HeldIsOnline, WonClaimKept, Held, Active, Alive

LEMMA LeaseStep == LeaseInv /\ [Next]_vars => LeaseInv'
<1> SUFFICES ASSUME LeaseInv, [Next]_vars PROVE LeaseInv'
  OBVIOUS
<1>1. TypeOK'
  BY TypeStep DEF LeaseInv
<1>2. ProcessShape' /\ DistinctIds'
  BY ShapeStep DEF LeaseInv
<1>3. ASSUME NEW p \in Proc, Held(p)' PROVE LeaseKept(p)'
  <2>1. CASE Register(p)
    <3>1. /\ workers'[NameOf[p]] = [status |-> "online", age |-> 0, pid |-> p]
          /\ won'[p] = {}
      BY <2>1, ConstantTypes DEF Register, LeaseInv, TypeOK, ProcessShape
    <3> QED
      BY <3>1, ConstantTypes DEF LeaseKept, RowKept, Stale
  <2>2. CASE ~Register(p)
    BY <1>3, <2>2, RowStep, ClaimStep DEF LeaseKept
  <2> QED
    BY <2>1, <2>2
<1>4. HeldIsOnline' /\ WonClaimKept'
  BY <1>3 DEF HeldIsOnline, WonClaimKept, LeaseKept, RowKept, ClaimKept
<1> QED
  BY <1>1, <1>2, <1>4 DEF LeaseInv

(***************************************************************************)
(* The inductive invariant behind the four theorems that follow.           *)
(***************************************************************************)
THEOREM LeaseInvariant == Spec => []LeaseInv
<1>1. Init => LeaseInv
  BY LeaseInit
<1>2. LeaseInv /\ [Next]_vars => LeaseInv'
  BY LeaseStep
<1> QED
  BY <1>1, <1>2, PTL DEF Spec

(***************************************************************************)
(* Stale detection never turns on a worker that keeps its heartbeat: its   *)
(* row stays online, fresh and its own, in every state of every behaviour. *)
(***************************************************************************)
THEOREM HeldRowStaysOnline == Spec => []HeldIsOnline
BY LeaseInvariant, PTL DEF LeaseInv

(***************************************************************************)
(* The claims such a process won are not reaped, released or taken over.   *)
(***************************************************************************)
THEOREM WonClaimStays == Spec => []WonClaimKept
BY LeaseInvariant, PTL DEF LeaseInv

(***************************************************************************)
(* Two processes of one name never both work under a live registration:    *)
(* the row names the last one to register.                                 *)
(***************************************************************************)
THEOREM RegistrationIsExclusive == Spec => []OneWorkerPerName
<1>1. LeaseInv => OneWorkerPerName
  BY DEF LeaseInv, OneWorkerPerName, HeldIsOnline
<1> QED
  BY <1>1, LeaseInvariant, PTL

(***************************************************************************)
(* No machine is won by two processes that keep their heartbeats, whatever *)
(* their names: its claim carries one hostname-PID.                        *)
(***************************************************************************)
THEOREM MachineHasOneOwner == Spec => []OneOwnerPerMachine
<1>1. LeaseInv => OneOwnerPerMachine
  BY DEF LeaseInv, OneOwnerPerMachine, WonClaimKept, DistinctIds, Held, Active, Alive
<1> QED
  BY <1>1, LeaseInvariant, PTL

-----------------------------------------------------------------------------
(***************************************************************************)
(* The orderly shutdown.  A goroutine past wg.Wait() has no poller running *)
(* and no claim left on a machine it has been through.  This stays so as   *)
(* nothing starts pollers or claims machines for a process that is past    *)
(* its start-up, and no other living process claims in its name.           *)
(***************************************************************************)
Left == {"release", "offline", "exit", "exec", "fail"}

StartsAlone ==
    \A p \in Proc :
        pc[p]["main"] \in {"register", "provision", "claim"} => pc[p]["poll"] = "down"

LetGo(p, t) ==
    pc[p][t] \in Left =>
        /\ polls[p] = {}
        /\ \A m \in MachinesOf[p] :
              (pc[p][t] = "release" => m \notin todo[p][t]) /\ claims[m].owner = IdOf[p]
                  => "dberr" \in Events

ShutdownInv ==
    /\ TypeOK /\ ProcessShape /\ DistinctIds /\ StartsAlone
    /\ \A p \in Proc, t \in Thread : LetGo(p, t)

\* The machines a Goto leaves to go through.
LEMMA GotoTodo ==
    ASSUME TypeOK, NEW p \in Proc, NEW t \in Thread, NEW place, NEW S, Goto(p, t, place, S)
    PROVE  \A q \in Proc, u \in Thread :
              todo'[q][u] = IF q = p /\ u = t THEN S ELSE todo[q][u]
BY DEF TypeOK, Goto

\* Only these steps bring a goroutine past wg.Wait() or further.
LEMMA LeftBefore ==
    ASSUME TypeOK, [Next]_vars, NEW p \in Proc, NEW t \in Thread, pc'[p][t] \in Left
    PROVE  \/ Drained(p, t) \/ \E m \in Machine : ReleaseMachine(p, t, m)
           \/ SetOffline(p, t) \/ (t = "poll" /\ ExecFails(p))
           \/ pc'[p][t] = pc[p][t] /\ todo'[p][t] = todo[p][t]
<1> USE MainAndPoll DEF Left
<1>1. ASSUME NEW q \in Proc, NEW place, NEW e, Reset(q, place, e), place \notin Left
      PROVE  pc'[p][t] = pc[p][t] /\ todo'[p][t] = todo[p][t]
  <2>1. q # p
    BY <1>1 DEF Reset, TypeOK, Thread
  <2> QED
    BY <1>1, <2>1 DEF Reset, TypeOK
<1>2. ASSUME NEW q \in Proc, NEW u \in Thread, NEW place, NEW S, Goto(q, u, place, S)
      PROVE  /\ \/ q = p /\ u = t
                \/ pc'[p][t] = pc[p][t] /\ todo'[p][t] = todo[p][t]
             /\ q = p /\ u = t => pc'[p][t] = place
  BY <1>2, GotoEffect, GotoTodo
<1>3. CASE \E q \in Proc : \/ Start(q) \/ RegisterRefused(q) \/ Crash(q) \/ Exec(q)
                           \/ \E u \in Thread : Exit(q, u)
  BY <1>1, <1>3 DEF Start, RegisterRefused, Crash, Exec, Exit
<1>4. CASE \E q \in Proc, m \in Machine : ProvisionMachine(q, m) \/ ClaimMachine(q, m)
  BY <1>2, <1>4 DEF ProvisionMachine, ClaimMachine
<1>5. CASE \E q \in Proc : \/ Register(q) \/ PickCommand(q) \/ PreMark(q) \/ HandlerCancels(q)
                           \/ MarkFailed(q) \/ Signal(q)
  BY <1>2, <1>5 DEF Register, PickCommand, PreMark, HandlerCancels, MarkFailed, Signal
<1>6. CASE \E q \in Proc : StartThreads(q)
  BY <1>6 DEF StartThreads, TypeOK
<1>7. CASE \E q \in Proc : ExecFails(q)
  BY <1>2, <1>7 DEF ExecFails
<1>8. CASE \E q \in Proc, u \in Thread :
              \/ Drained(q, u) \/ SetOffline(q, u)
              \/ \E m \in Machine : ReleaseMachine(q, u, m)
  <2>1. PICK q \in Proc, u \in Thread :
              \/ Drained(q, u) \/ SetOffline(q, u)
              \/ \E m \in Machine : ReleaseMachine(q, u, m)
    BY <1>8
  <2>2. \E place, S : Goto(q, u, place, S)
    BY <2>1 DEF Drained, SetOffline, ReleaseMachine
  <2>3. CASE q = p /\ u = t
    <3>1. CASE Drained(q, u)
      BY <2>3, <3>1, Zenon
    <3>2. CASE SetOffline(q, u)
      BY <2>3, <3>2, Zenon
    <3>3. ASSUME NEW m \in Machine, ReleaseMachine(q, u, m) PROVE ReleaseMachine(p, t, m)
      BY <2>3, <3>3, Zenon
    <3> QED
      BY <2>1, <3>1, <3>2, <3>3
  <2>4. CASE ~(q = p /\ u = t)
    BY <1>2, <2>2, <2>4
  <2> QED
    BY <2>3, <2>4
<1>9. CASE \/ \E q \in Proc : Heartbeat(q) \/ \E m \in Machine : RunMachine(q, m) \/ MachineStops(q, m)
           \/ \E n \in Name, c \in validCommands : CheckOnline(n, c)
           \/ ListWorkers \/ InsertCommand \/ Tick \/ UNCHANGED vars
  BY <1>9 DEF Heartbeat, HeartbeatWorker, HeartbeatMachine, RunMachine, MachineStops,
              ListWorkers, CheckOnline, InsertCommand, Tick, procVars, vars
<1> QED
  BY <1>3, <1>4, <1>5, <1>6, <1>7, <1>8, <1>9 DEF Next, Startup, Handler, Shutdown

\* Pollers only start with their process, and the process's start-up is alone.
LEMMA StartStep ==
    ASSUME TypeOK, ProcessShape, StartsAlone, [Next]_vars
    PROVE  /\ StartsAlone'
           /\ \A p \in Proc : StartThreads(p) \/ polls'[p] \subseteq polls[p]
<1> USE MainAndPoll DEF StartsAlone
<1>1. ASSUME NEW q \in Proc, NEW place, NEW e, Reset(q, place, e)
      PROVE  StartsAlone' /\ \A p \in Proc : polls'[p] \subseteq polls[p]
  <2>1. \A p \in Proc : polls'[p] \subseteq polls[p]
    BY <1>1 DEF Reset, TypeOK
  <2> QED
    BY <1>1, <2>1, ResetEffect
<1>2. CASE \E q \in Proc : \/ Start(q) \/ RegisterRefused(q) \/ Crash(q) \/ Exec(q)
                           \/ \E u \in Thread : Exit(q, u)
  BY <1>1, <1>2 DEF Start, RegisterRefused, Crash, Exec, Exit
<1>3. ASSUME NEW q \in Proc,
             \/ Register(q) \/ \E m \in Machine : ProvisionMachine(q, m) \/ ClaimMachine(q, m)
      PROVE  StartsAlone' /\ polls' = polls
  <2>1. polls' = polls /\ pc[q]["main"] \in {"register", "provision", "claim"}
    BY <1>3 DEF Register, ProvisionMachine, ClaimMachine
  <2>2. \E place, S : Goto(q, "main", place, S)
    BY <1>3 DEF Register, ProvisionMachine, ClaimMachine
  <2> QED
    BY <2>1, <2>2, GotoEffect DEF Thread
<1>4. ASSUME NEW q \in Proc, NEW u \in Thread,
             \/ Drained(q, u) \/ SetOffline(q, u) \/ \E m \in Machine : ReleaseMachine(q, u, m)
             \/ u = "poll" /\ \/ PickCommand(q) \/ PreMark(q) \/ HandlerCancels(q)
                              \/ ExecFails(q) \/ MarkFailed(q)
             \/ u = "main" /\ Signal(q)
      PROVE  StartsAlone' /\ polls' = polls
  <2>1. polls' = polls /\ pc[q][u] \notin {"register", "provision", "claim", "down"}
    BY <1>4 DEF Drained, SetOffline, ReleaseMachine, PickCommand, PreMark, HandlerCancels,
                ExecFails, MarkFailed, Signal, Serving
  <2>2. \E place, S : /\ Goto(q, u, place, S)
                      /\ place \notin {"register", "provision", "claim"}
    <3>1. CASE \E m \in Machine : ReleaseMachine(q, u, m)
      <4>1. AfterRelease(q, u) \notin {"register", "provision", "claim"}
        BY DEF AfterRelease
      <4> QED
        BY <3>1, <4>1 DEF ReleaseMachine
    <3>2. CASE Drained(q, u) \/ SetOffline(q, u)
      BY <3>2 DEF Drained, SetOffline
    <3>3. CASE \/ u = "poll" /\ \/ PickCommand(q) \/ PreMark(q) \/ HandlerCancels(q)
                                \/ ExecFails(q) \/ MarkFailed(q)
               \/ u = "main" /\ Signal(q)
      BY <3>3 DEF PickCommand, PreMark, HandlerCancels, ExecFails, MarkFailed, Signal
    <3> QED
      BY <1>4, <3>1, <3>2, <3>3
  <2> QED
    BY <2>1, <2>2, GotoEffect DEF Thread
<1>5. ASSUME NEW q \in Proc, StartThreads(q)
      PROVE  StartsAlone' /\ \A p \in Proc \ {q} : polls'[p] \subseteq polls[p]
  BY <1>5 DEF StartThreads, TypeOK
<1>6. CASE \E q \in Proc, m \in Machine : MachineStops(q, m)
  BY <1>6 DEF MachineStops, TypeOK
<1>7. CASE \/ \E q \in Proc : Heartbeat(q) \/ \E m \in Machine : RunMachine(q, m)
           \/ \E n \in Name, c \in validCommands : CheckOnline(n, c)
           \/ ListWorkers \/ InsertCommand \/ Tick \/ UNCHANGED vars
  BY <1>7 DEF Heartbeat, HeartbeatWorker, HeartbeatMachine, RunMachine, ListWorkers,
              CheckOnline, InsertCommand, Tick, procVars, vars
<1> QED
  BY <1>2, <1>3, <1>4, <1>5, <1>6, <1>7 DEF Next, Startup, Handler, Shutdown

\* A claim is in a process's name after a step if it was before, or the process has
\* just claimed the machine.
LEMMA OwnerBefore ==
    ASSUME TypeOK, DistinctIds, [Next]_vars, NEW p \in Proc, Alive(p), NEW m \in Machine,
           claims'[m].owner = IdOf[p]
    PROVE  claims[m].owner = IdOf[p] \/ ClaimMachine(p, m)
<1>1. CASE claims'[m] = claims[m]
  BY <1>1
<1>2. ASSUME NEW q \in Proc, ClaimMachine(q, m), claims'[m] # claims[m]
      PROVE  ClaimMachine(p, m)
  <2>1. claims'[m].owner = IdOf[q] /\ Alive(q)
    BY <1>2 DEF ClaimMachine, TypeOK, Alive
  <2> QED
    BY <1>2, <2>1 DEF DistinctIds
<1>3. ASSUME NEW q \in Proc, HeartbeatMachine(q, m)
      PROVE  claims'[m].owner = claims[m].owner
  BY <1>3 DEF HeartbeatMachine, TypeOK, Claim
<1>4. ASSUME NEW q \in Proc, NEW t \in Thread, ReleaseMachine(q, t, m)
      PROVE  claims'[m] = claims[m] \/ claims'[m].owner = None
  BY <1>4 DEF ReleaseMachine, TypeOK, NoClaim
<1>5. IdOf[p] # None
  BY ConstantTypes
<1>6. CASE ListWorkers
  BY <1>5, <1>6 DEF ListWorkers, NoClaim
<1>7. CASE Tick
  <2>1. claims'[m] = claims[m] \/ claims'[m] = [claims[m] EXCEPT !.age = Older(@)]
    BY <1>7 DEF Tick
  <2> QED
    BY <2>1 DEF TypeOK, Claim
<1> QED
  BY <1>1, <1>2, <1>3, <1>4, <1>5, <1>6, <1>7, WritersOfClaims

LEMMA LetGoStep ==
    ASSUME ShutdownInv, [Next]_vars, NEW p \in Proc, NEW t \in Thread
    PROVE  LetGo(p, t)'
<1> SUFFICES ASSUME pc'[p][t] \in Left PROVE LetGo(p, t)'
  BY DEF LetGo
<1> USE DEF ShutdownInv
<1>1. pc[p][t] \in Left \cup {"drain"}
  BY LeftBefore DEF Drained, ReleaseMachine, SetOffline, ExecFails, Left
<1>2. Alive(p) /\ pc[p]["main"] \notin {"register", "provision", "claim"}
  BY <1>1 DEF ProcessShape, StartsAlone, Alive, Thread, Left
<1>3. ~StartThreads(p) /\ \A m \in Machine : ~ClaimMachine(p, m)
  BY <1>2 DEF StartThreads, ClaimMachine
<1>4. \A m \in Machine : claims'[m].owner = IdOf[p] => claims[m].owner = IdOf[p]
  BY <1>2, <1>3, OwnerBefore
<1>5. polls[p] = {} => polls'[p] = {}
  BY <1>3, StartStep
<1>6. MachinesOf[p] \subseteq Machine
  BY ConstantTypes
<1>7. CASE Drained(p, t)
  <2>1. polls[p] = {} /\ pc'[p][t] = "release" /\ todo'[p][t] = MachinesOf[p]
    BY <1>7, GotoEffect, GotoTodo DEF Drained
  <2> QED
    BY <1>5, <2>1 DEF LetGo
<1>8. ASSUME NEW m \in Machine, ReleaseMachine(p, t, m) PROVE LetGo(p, t)'
  <2>1. /\ pc[p][t] = "release" /\ polls[p] = {}
        /\ \A k \in MachinesOf[p] \ todo[p][t] :
              claims[k].owner = IdOf[p] => "dberr" \in Events
    BY <1>8 DEF LetGo, ReleaseMachine, Left
  <2>2. /\ todo'[p][t] = todo[p][t] \ {m}
        /\ pc'[p][t] = IF todo[p][t] = {m} THEN AfterRelease(p, t) ELSE "release"
    BY <1>8, GotoEffect, GotoTodo DEF ReleaseMachine
  <2>3. claims'[m].owner = IdOf[p] => "dberr" \in Events
    <3>1. PICK ok \in Outcome :
            claims' = IF ok /\ claims[m].owner = IdOf[p] THEN [claims EXCEPT ![m] = NoClaim]
                      ELSE claims
      BY <1>8 DEF ReleaseMachine
    <3>2. CASE "dberr" \in Events
      BY <3>2
    <3>3. CASE claims[m].owner # IdOf[p]
      BY <3>1, <3>3
    <3>4. CASE "dberr" \notin Events /\ claims[m].owner = IdOf[p]
      <4>1. claims'[m] = NoClaim
        BY <3>1, <3>4 DEF Outcome, TypeOK
      <4> QED
        BY <4>1, ConstantTypes DEF NoClaim
    <3> QED
      BY <3>2, <3>3, <3>4
  <2>4. pc'[p][t] # "release" => todo[p][t] = {m}
    BY <2>2
  <2> QED
    BY <1>4, <1>5, <1>6, <2>1, <2>2, <2>3, <2>4 DEF LetGo
<1>9. CASE SetOffline(p, t) \/ (t = "poll" /\ ExecFails(p))
  <2>1. pc[p][t] \in {"offline", "exec"}
    BY <1>9 DEF SetOffline, ExecFails
  <2> QED
    BY <1>4, <1>5, <1>6, <2>1 DEF LetGo, Left
<1>10. CASE pc'[p][t] = pc[p][t] /\ todo'[p][t] = todo[p][t]
  BY <1>4, <1>5, <1>6, <1>10 DEF LetGo
<1> QED
  BY <1>7, <1>8, <1>9, <1>10, LeftBefore

(***************************************************************************)
(* By signal, by command or by both at once: when a shutdown has come past *)
(* the release of its machines, no claim carries the process's hostname-   *)
(* PID unless a DELETE failed, and none of its pollers runs.               *)
(***************************************************************************)
THEOREM ShutdownLetsGo == Spec => []ShutdownReleases
<1>1. Init => ShutdownInv
  BY TypeInit, LeaseInit, MainAndPoll DEF Init, ShutdownInv, LeaseInv, StartsAlone, LetGo, Left
<1>2. ShutdownInv /\ [Next]_vars => ShutdownInv'
  BY TypeStep, ShapeStep, StartStep, LetGoStep DEF ShutdownInv
<1>3. ShutdownInv => ShutdownReleases
  BY DEF ShutdownInv, LetGo, ShutdownReleases, Left
<1> QED
  BY <1>1, <1>2, <1>3, PTL DEF Spec
=============================================================================
