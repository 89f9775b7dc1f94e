------------------------ MODULE WorkerFleetProofs ------------------------
(***************************************************************************)
(* Theorems about WorkerFleet, for any set of processes, names, machines   *)
(* and commands, any threshold and any Events.                             *)
(***************************************************************************)
EXTENDS WorkerFleet, TLAPS

\* What ConstantsOK says, one constant at a time.
LEMMA ConstantTypes ==
    /\ \A p \in Proc : NameOf[p] \in Name /\ IdOf[p] \in Id /\ MachinesOf[p] \in SUBSET Machine
    /\ StaleAfter \in Nat /\ StaleAfter > 0 /\ MaxCommands \in Nat
    /\ None \notin Id /\ None \notin Name /\ None \notin Proc /\ None \notin CommandId
BY ConstantsOK DEF ConstantsOK, CommandId

(***************************************************************************)
(* What Goto and Reset do to the types of the variables they write.        *)
(***************************************************************************)
LEMMA GotoType ==
    ASSUME TypeOK, NEW p \in Proc, NEW t \in Thread, NEW place \in Places,
           NEW S \in SUBSET Machine, Goto(p, t, place, S)
    PROVE  /\ pc' \in [Proc -> [Thread -> Places]]
           /\ todo' \in [Proc -> [Thread -> SUBSET Machine]]
BY DEF TypeOK, Goto

LEMMA ResetType ==
    ASSUME TypeOK, NEW p \in Proc, NEW place \in Places, NEW e \in BOOLEAN,
           Reset(p, place, e), UNCHANGED <<dbVars, request>>
    PROVE  TypeOK'
<1>1. pc' \in [Proc -> [Thread -> Places]]
  BY DEF TypeOK, Reset, Places
<1>2. todo' \in [Proc -> [Thread -> SUBSET Machine]]
  BY DEF TypeOK, Reset
<1>3. /\ cancelled' \in [Proc -> BOOLEAN]
      /\ due' \in [Proc -> BOOLEAN]
      /\ reexeced' \in [Proc -> BOOLEAN]
  BY DEF TypeOK, Reset
<1>4. /\ polls' \in [Proc -> SUBSET Machine]
      /\ toBeat' \in [Proc -> SUBSET Machine]
      /\ won' \in [Proc -> SUBSET Machine]
      /\ cur' \in [Proc -> CommandId \cup {None}]
      /\ lapsed' \in SUBSET Proc
  BY DEF TypeOK, Reset
<1>. QED
  BY <1>1, <1>2, <1>3, <1>4 DEF TypeOK, dbVars

(***************************************************************************)
(* The updates of one column leave a row of its table in its type.         *)
(***************************************************************************)
LEMMA WorkerRow ==
    ASSUME NEW w \in Worker
    PROVE  /\ [w EXCEPT !.status = "offline"] \in Worker
           /\ \A a \in Age : [w EXCEPT !.age = a] \in Worker
BY DEF Worker

LEMMA ClaimRow == ASSUME NEW c \in Claim, NEW a \in Age PROVE [c EXCEPT !.age = a] \in Claim
BY DEF Claim

LEMMA CommandRow ==
    ASSUME NEW table \in [CommandId -> Command], NEW i,
           NEW s \in {"in_progress", "completed", "failed"}
    PROVE  [table EXCEPT ![i].status = s] \in [CommandId -> Command]
<1>1. CASE i \in CommandId
  <2>1. [table[i] EXCEPT !.status = s] \in Command
    BY <1>1 DEF Command
  <2> QED
    BY <1>1, <2>1
<1>2. CASE i \notin CommandId
  BY <1>2
<1> QED
  BY <1>1, <1>2

\* The initial state is well typed, and every step keeps the types.
LEMMA TypeInit == Init => TypeOK
BY ConstantTypes DEF Init, TypeOK, NoWorker, NoClaim, NoCommand, Worker, Claim, Command,
                   Age, Thread, Places

LEMMA TypeStep == TypeOK /\ [Next]_vars => TypeOK'
<1> SUFFICES ASSUME TypeOK, [Next]_vars PROVE TypeOK'
  OBVIOUS
<1> USE ConstantTypes
<1>1. ASSUME NEW p \in Proc, Start(p) PROVE TypeOK'
  BY <1>1, ResetType DEF Start, Places
<1>2. ASSUME NEW p \in Proc, Register(p) PROVE TypeOK'
  <2>1. workers' \in [Name -> Worker]
    BY <1>2 DEF Register, TypeOK, Worker, Age
  <2>2. /\ pc' \in [Proc -> [Thread -> Places]]
        /\ todo' \in [Proc -> [Thread -> SUBSET Machine]]
    BY <1>2, GotoType DEF Register, Places, Thread
  <2> QED
    BY <1>2, <2>1, <2>2 DEF Register, TypeOK
<1>3. ASSUME NEW p \in Proc, RegisterRefused(p) PROVE TypeOK'
  BY <1>3, ResetType DEF RegisterRefused, Places
<1>4. ASSUME NEW p \in Proc, NEW m \in Machine, ProvisionMachine(p, m) PROVE TypeOK'
  <2>1. machines' \in [Machine -> {"offline", "running", "error"}]
    BY <1>4 DEF ProvisionMachine, TypeOK
  <2>2. /\ pc' \in [Proc -> [Thread -> Places]]
        /\ todo' \in [Proc -> [Thread -> SUBSET Machine]]
    <3>1. todo[p]["main"] \ {m} \in SUBSET Machine
      BY DEF TypeOK, Thread
    <3> QED
      BY <1>4, <3>1, GotoType DEF ProvisionMachine, Places, Thread
  <2> QED
    BY <1>4, <2>1, <2>2 DEF ProvisionMachine, TypeOK
<1>5. ASSUME NEW p \in Proc, NEW m \in Machine, ClaimMachine(p, m) PROVE TypeOK'
  <2>1. /\ claims' \in [Machine -> Claim]
        /\ won' \in [Proc -> SUBSET Machine]
    <3>1. CASE CanClaim(p, m)
      <4>1. [owner |-> IdOf[p], ref |-> NameOf[p], age |-> 0] \in Claim
        BY DEF Claim, Age
      <4> QED
        <5>1. /\ claims' = [claims EXCEPT ![m] =
                              [owner |-> IdOf[p], ref |-> NameOf[p], age |-> 0]]
              /\ won' = [won EXCEPT ![p] = @ \cup {m}]
          BY <1>5, <3>1 DEF ClaimMachine
        <5> QED
          BY <4>1, <5>1 DEF TypeOK
    <3>2. CASE ~CanClaim(p, m)
      BY <1>5, <3>2 DEF ClaimMachine, TypeOK
    <3> QED
      BY <3>1, <3>2
  <2>2. /\ pc' \in [Proc -> [Thread -> Places]]
        /\ todo' \in [Proc -> [Thread -> SUBSET Machine]]
    <3>1. todo[p]["main"] \ {m} \in SUBSET Machine
      BY DEF TypeOK, Thread
    <3> QED
      BY <1>5, <3>1, GotoType DEF ClaimMachine, Places, Thread
  <2> QED
    BY <1>5, <2>1, <2>2 DEF ClaimMachine, TypeOK
<1>6. ASSUME NEW p \in Proc, StartThreads(p) PROVE TypeOK'
  <2>1. /\ pc' \in [Proc -> [Thread -> Places]]
        /\ polls' \in [Proc -> SUBSET Machine]
    BY <1>6 DEF StartThreads, TypeOK, Places
  <2> QED
    BY <1>6, <2>1 DEF StartThreads, TypeOK, dbVars
<1>7. ASSUME NEW p \in Proc, HeartbeatWorker(p) PROVE TypeOK'
  <2>1. workers' \in [Name -> Worker]
    <3>1. [workers[NameOf[p]] EXCEPT !.age = 0] \in Worker
      <4>1. workers[NameOf[p]] \in Worker /\ 0 \in Age
        BY DEF TypeOK, Age
      <4> QED
        BY <4>1, WorkerRow
    <3> QED
      BY <1>7, <3>1 DEF HeartbeatWorker, TypeOK
  <2>2. /\ due' \in [Proc -> BOOLEAN]
        /\ toBeat' \in [Proc -> SUBSET Machine]
    BY <1>7 DEF HeartbeatWorker, TypeOK
  <2> QED
    BY <1>7, <2>1, <2>2 DEF HeartbeatWorker, TypeOK
<1>8. ASSUME NEW p \in Proc, NEW m \in Machine, HeartbeatMachine(p, m) PROVE TypeOK'
  <2>1. claims' \in [Machine -> Claim]
    <3>1. [claims[m] EXCEPT !.age = 0] \in Claim
      <4>1. claims[m] \in Claim /\ 0 \in Age
        BY DEF TypeOK, Age
      <4> QED
        BY <4>1, ClaimRow
    <3> QED
      BY <1>8, <3>1 DEF HeartbeatMachine, TypeOK
  <2>2. toBeat' \in [Proc -> SUBSET Machine]
    BY <1>8 DEF HeartbeatMachine, TypeOK
  <2> QED
    BY <1>8, <2>1, <2>2 DEF HeartbeatMachine, TypeOK
<1>9. ASSUME NEW p \in Proc, NEW m \in Machine, RunMachine(p, m) PROVE TypeOK'
  <2>1. PICK s \in ReadStatus : machines' = [machines EXCEPT ![m] = s]
    BY <1>9 DEF RunMachine
  <2>2. machines' \in [Machine -> {"offline", "running", "error"}]
    BY <2>1 DEF TypeOK, ReadStatus
  <2> QED
    BY <1>9, <2>2 DEF RunMachine, TypeOK, procVars
<1>10. ASSUME NEW p \in Proc, PickCommand(p) PROVE TypeOK'
  <2>1. /\ cmds' \in [CommandId -> Command]
        /\ cur' \in [Proc -> CommandId \cup {None}]
    <3>1. PICK i \in CommandId : /\ cmds' = [cmds EXCEPT ![i].status = "in_progress"]
                                /\ cur' = [cur EXCEPT ![p] = i]
      BY <1>10 DEF PickCommand, Pending
    <3>2. [cmds EXCEPT ![i].status = "in_progress"] \in [CommandId -> Command]
      BY CommandRow DEF TypeOK
    <3> QED
      BY <3>1, <3>2 DEF TypeOK
  <2>2. /\ pc' \in [Proc -> [Thread -> Places]]
        /\ todo' \in [Proc -> [Thread -> SUBSET Machine]]
    BY <1>10, GotoType DEF PickCommand, Places, Thread
  <2> QED
    BY <1>10, <2>1, <2>2 DEF PickCommand, TypeOK
<1>11. ASSUME NEW p \in Proc, PreMark(p) PROVE TypeOK'
  <2>1. cmds' \in [CommandId -> Command]
    <3>1. cmds' = cmds \/ cmds' = [cmds EXCEPT ![cur[p]].status = "completed"]
      BY <1>11 DEF PreMark
    <3>2. [cmds EXCEPT ![cur[p]].status = "completed"] \in [CommandId -> Command]
      BY CommandRow DEF TypeOK
    <3> QED
      BY <3>1, <3>2 DEF TypeOK
  <2>2. /\ pc' \in [Proc -> [Thread -> Places]]
        /\ todo' \in [Proc -> [Thread -> SUBSET Machine]]
    BY <1>11, GotoType DEF PreMark, Places, Thread
  <2> QED
    BY <1>11, <2>1, <2>2 DEF PreMark, TypeOK
<1>12. ASSUME NEW p \in Proc, HandlerCancels(p) PROVE TypeOK'
  <2>1. /\ pc' \in [Proc -> [Thread -> Places]]
        /\ todo' \in [Proc -> [Thread -> SUBSET Machine]]
    BY <1>12, GotoType DEF HandlerCancels, Places, Thread
  <2> QED
    BY <1>12, <2>1 DEF HandlerCancels, TypeOK, dbVars
<1>13. ASSUME NEW p \in Proc, Exec(p) PROVE TypeOK'
  BY <1>13, ResetType DEF Exec, Places
<1>14. ASSUME NEW p \in Proc, ExecFails(p) PROVE TypeOK'
  <2>1. /\ pc' \in [Proc -> [Thread -> Places]]
        /\ todo' \in [Proc -> [Thread -> SUBSET Machine]]
    BY <1>14, GotoType DEF ExecFails, Places, Thread
  <2> QED
    BY <1>14, <2>1 DEF ExecFails, TypeOK, dbVars
<1>15. ASSUME NEW p \in Proc, MarkFailed(p) PROVE TypeOK'
  <2>1. /\ cmds' \in [CommandId -> Command]
        /\ cur' \in [Proc -> CommandId \cup {None}]
    <3>1. cmds' = cmds \/ cmds' = [cmds EXCEPT ![cur[p]].status = "failed"]
      BY <1>15 DEF MarkFailed
    <3>2. cur' = [cur EXCEPT ![p] = None]
      BY <1>15 DEF MarkFailed
    <3>3. [cmds EXCEPT ![cur[p]].status = "failed"] \in [CommandId -> Command]
      BY CommandRow DEF TypeOK
    <3> QED
      BY <3>1, <3>2, <3>3 DEF TypeOK
  <2>2. /\ pc' \in [Proc -> [Thread -> Places]]
        /\ todo' \in [Proc -> [Thread -> SUBSET Machine]]
    BY <1>15, GotoType DEF MarkFailed, Places, Thread
  <2> QED
    BY <1>15, <2>1, <2>2 DEF MarkFailed, TypeOK
<1>16. ASSUME NEW p \in Proc, Signal(p) PROVE TypeOK'
  <2>1. /\ pc' \in [Proc -> [Thread -> Places]]
        /\ todo' \in [Proc -> [Thread -> SUBSET Machine]]
    BY <1>16, GotoType DEF Signal, Places, Thread
  <2> QED
    BY <1>16, <2>1 DEF Signal, TypeOK, dbVars
<1>17. ASSUME NEW p \in Proc, NEW m \in Machine, MachineStops(p, m) PROVE TypeOK'
  BY <1>17 DEF MachineStops, TypeOK, dbVars
<1>18. ASSUME NEW p \in Proc, NEW t \in Thread, Drained(p, t) PROVE TypeOK'
  <2>1. /\ pc' \in [Proc -> [Thread -> Places]]
        /\ todo' \in [Proc -> [Thread -> SUBSET Machine]]
    BY <1>18, GotoType DEF Drained, Places
  <2> QED
    BY <1>18, <2>1 DEF Drained, TypeOK, dbVars
<1>19. ASSUME NEW p \in Proc, NEW t \in Thread, NEW m \in Machine, ReleaseMachine(p, t, m)
       PROVE  TypeOK'
  <2>1. claims' \in [Machine -> Claim]
    BY <1>19 DEF ReleaseMachine, TypeOK, Claim, NoClaim, Age
  <2>2. /\ pc' \in [Proc -> [Thread -> Places]]
        /\ todo' \in [Proc -> [Thread -> SUBSET Machine]]
    <3> DEFINE place == IF todo[p][t] = {m} THEN AfterRelease(p, t) ELSE "release"
    <3>1. place \in Places
      BY DEF AfterRelease, Places
    <3>2. todo[p][t] \ {m} \in SUBSET Machine
      BY DEF TypeOK
    <3>3. Goto(p, t, place, todo[p][t] \ {m})
      BY <1>19 DEF ReleaseMachine
    <3> QED
      BY <3>1, <3>2, <3>3, GotoType
  <2> QED
    BY <1>19, <2>1, <2>2 DEF ReleaseMachine, TypeOK
<1>20. ASSUME NEW p \in Proc, NEW t \in Thread, SetOffline(p, t) PROVE TypeOK'
  <2>1. /\ workers' \in [Name -> Worker]
        /\ lapsed' \in SUBSET Proc
    <3>1. [workers[NameOf[p]] EXCEPT !.status = "offline"] \in Worker
      BY WorkerRow DEF TypeOK
    <3> QED
      BY <1>20, <3>1 DEF SetOffline, TypeOK
  <2>2. /\ pc' \in [Proc -> [Thread -> Places]]
        /\ todo' \in [Proc -> [Thread -> SUBSET Machine]]
    BY <1>20, GotoType DEF SetOffline, Places
  <2> QED
    BY <1>20, <2>1, <2>2 DEF SetOffline, TypeOK
<1>21. ASSUME NEW p \in Proc, NEW t \in Thread, Exit(p, t) PROVE TypeOK'
  BY <1>21, ResetType DEF Exit, Places
<1>22. ASSUME NEW p \in Proc, Crash(p) PROVE TypeOK'
  BY <1>22, ResetType DEF Crash, Places
<1>23. ASSUME ListWorkers PROVE TypeOK'
  <2>1. /\ workers' \in [Name -> Worker]
        /\ machines' \in [Machine -> {"offline", "running", "error"}]
    <3>1. \A n \in Name : [workers[n] EXCEPT !.status = "offline"] \in Worker
      BY WorkerRow DEF TypeOK
    <3> QED
      BY <1>23, <3>1 DEF ListWorkers, TypeOK
  <2>2. claims' \in [Machine -> Claim]
    BY <1>23 DEF ListWorkers, TypeOK, Claim, NoClaim, Age
  <2> QED
    BY <1>23, <2>1, <2>2 DEF ListWorkers, TypeOK, procVars
<1>24. ASSUME NEW n \in Name, NEW c \in validCommands, CheckOnline(n, c) PROVE TypeOK'
  BY <1>24 DEF CheckOnline, TypeOK, dbVars, procVars
<1>25. ASSUME InsertCommand PROVE TypeOK'
  <2>1. request \in [worker : Name, command : validCommands]
    BY <1>25 DEF InsertCommand, TypeOK
  <2>2. cmds' \in [CommandId -> Command]
    BY <1>25, <2>1 DEF InsertCommand, TypeOK, Command, validCommands
  <2> QED
    BY <1>25, <2>2 DEF InsertCommand, TypeOK, procVars
<1>26. ASSUME Tick PROVE TypeOK'
  <2>1. \A a \in Age : Older(a) \in Age
    BY DEF Age, Older, Stale
  <2>2. workers' \in [Name -> Worker]
    <3>1. \A n \in Name : [workers[n] EXCEPT !.age = Older(@)] \in Worker
      <4> SUFFICES ASSUME NEW n \in Name PROVE [workers[n] EXCEPT !.age = Older(@)] \in Worker
        OBVIOUS
      <4>1. workers[n] \in Worker /\ workers[n].age \in Age
        BY DEF TypeOK, Worker
      <4> QED
        BY <2>1, <4>1, WorkerRow
    <3> QED
      BY <1>26, <3>1 DEF Tick, TypeOK
  <2>3. claims' \in [Machine -> Claim]
    <3>1. \A m \in Machine : [claims[m] EXCEPT !.age = Older(@)] \in Claim
      <4> SUFFICES ASSUME NEW m \in Machine PROVE [claims[m] EXCEPT !.age = Older(@)] \in Claim
        OBVIOUS
      <4>1. claims[m] \in Claim /\ claims[m].age \in Age
        BY DEF TypeOK, Claim
      <4> QED
        BY <2>1, <4>1, ClaimRow
    <3> QED
      BY <1>26, <3>1 DEF Tick, TypeOK
  <2>4. /\ due' \in [Proc -> BOOLEAN]
        /\ lapsed' \in SUBSET Proc
    BY <1>26 DEF Tick, TypeOK, Serving
  <2> QED
    BY <1>26, <2>2, <2>3, <2>4 DEF Tick, TypeOK
<1>27. CASE UNCHANGED vars
  BY <1>27 DEF vars, dbVars, procVars, TypeOK
<1> QED
  BY <1>1, <1>2, <1>3, <1>4, <1>5, <1>6, <1>7, <1>8, <1>9, <1>10, <1>11, <1>12, <1>13,
     <1>14, <1>15, <1>16, <1>17, <1>18, <1>19, <1>20, <1>21, <1>22, <1>23, <1>24,
     <1>25, <1>26, <1>27
     DEF Next, Startup, Heartbeat, Handler, Shutdown

(***************************************************************************)
(* In every reachable state every variable has its type: in particular no  *)
(* heartbeat age leaves its bound and no command row loses its worker.     *)
(***************************************************************************)
THEOREM TypeCorrect == Spec => []TypeOK
<1>1. Init => TypeOK
  BY TypeInit
<1>2. TypeOK /\ [Next]_vars => TypeOK'
  BY TypeStep
<1> QED
  BY <1>1, <1>2, PTL DEF Spec

-----------------------------------------------------------------------------
(***************************************************************************)
(* Commands: each is in the hands of one process at most, and its status   *)
(* only moves forward, for any number of processes polling the same row,   *)
(* and whatever crashes, errors and restarts there are.                    *)
(***************************************************************************)
\* Places of a command goroutine that has a command past the first mark.
Handling == {"marked", "drain", "release", "exec", "fail"}

(***************************************************************************)
(* The command in a process's hands has been started by it, and has the    *)
(* status that the goroutine's place says: nobody else has written it.     *)
(***************************************************************************)
Hand(p) ==
    /\ cur[p] # None => cmds[cur[p]].status \notin {"absent", "pending"}
    /\ pc[p]["poll"] = "picked" => cur[p] # None /\ cmds[cur[p]].status = "in_progress"
    /\ pc[p]["poll"] \in Handling =>
          cur[p] # None /\ cmds[cur[p]].status \in {"in_progress", "completed"}

CommandInv == TypeOK /\ OneExecutor /\ \A p \in Proc : Hand(p)

\* The place of a command goroutine after a Goto and after a Reset.
LEMMA PollAfterGoto ==
    ASSUME TypeOK, NEW p \in Proc, NEW t \in Thread, NEW place, NEW S, Goto(p, t, place, S)
    PROVE  \A q \in Proc : pc'[q]["poll"] = IF q = p /\ t = "poll" THEN place
                                            ELSE pc[q]["poll"]
BY DEF TypeOK, Goto, Thread

LEMMA AfterReset ==
    ASSUME TypeOK, NEW p \in Proc, NEW place, NEW e, Reset(p, place, e)
    PROVE  /\ pc'[p]["poll"] = "down" /\ cur'[p] = None
           /\ \A q \in Proc \ {p} : pc'[q]["poll"] = pc[q]["poll"] /\ cur'[q] = cur[q]
BY DEF TypeOK, Reset, Thread

\* Steps that leave the commands alone.
LEMMA ResetStep ==
    ASSUME CommandInv, TypeOK', NEW p \in Proc, NEW place, NEW e, Reset(p, place, e),
           cmds' = cmds
    PROVE  CommandInv'
<1> USE DEF CommandInv
<1>1. /\ pc'[p]["poll"] = "down" /\ cur'[p] = None
      /\ \A q \in Proc \ {p} : pc'[q]["poll"] = pc[q]["poll"] /\ cur'[q] = cur[q]
  BY AfterReset
<1>2. OneExecutor'
  BY <1>1 DEF OneExecutor
<1>3. \A q \in Proc : Hand(q)'
  BY <1>1 DEF Hand, Handling
<1> QED
  BY <1>2, <1>3

LEMMA QuietStep ==
    ASSUME CommandInv, TypeOK', cmds' = cmds, cur' = cur,
           \A q \in Proc : \/ pc'[q]["poll"] = pc[q]["poll"]
                           \/ pc'[q]["poll"] \notin Handling \cup {"picked"}
                           \/ pc'[q]["poll"] # "picked" /\ pc[q]["poll"] \in Handling
    PROVE  CommandInv'
BY DEF CommandInv, OneExecutor, Hand

\* Steps that write one command, in the hands of p if of anybody.
LEMMA OthersKeep ==
    ASSUME CommandInv, NEW p \in Proc, NEW i \in CommandId,
           \A j \in CommandId \ {i} : cmds'[j] = cmds[j],
           \A q \in Proc \ {p} : /\ cur[q] # i /\ cur'[q] = cur[q]
                                 /\ pc'[q]["poll"] = pc[q]["poll"]
    PROVE  \A q \in Proc \ {p} : Hand(q)'
<1> SUFFICES ASSUME NEW q \in Proc \ {p} PROVE Hand(q)'
  OBVIOUS
<1>1. cur[q] \in CommandId \cup {None}
  BY DEF CommandInv, TypeOK
<1>2. cur[q] # None => cmds'[cur[q]] = cmds[cur[q]]
  BY <1>1
<1>3. Hand(q) /\ cur'[q] = cur[q] /\ pc'[q]["poll"] = pc[q]["poll"]
  BY DEF CommandInv
<1> QED
  BY <1>2, <1>3 DEF Hand, Handling

LEMMA SetStatus ==
    ASSUME TypeOK, NEW i \in CommandId, NEW s, cmds' = [cmds EXCEPT ![i].status = s]
    PROVE  /\ cmds'[i].status = s
           /\ cmds'[i] = [cmds[i] EXCEPT !.status = s]
           /\ \A j \in CommandId \ {i} : cmds'[j] = cmds[j]
<1>1. cmds[i] \in Command
  BY DEF TypeOK
<1> QED
  BY <1>1 DEF TypeOK, Command

-----------------------------------------------------------------------------
LEMMA CommandInit == Init => CommandInv
BY TypeInit DEF Init, CommandInv, OneExecutor, Hand, Handling, Thread

LEMMA PickStep ==
    ASSUME CommandInv, TypeOK', NEW p \in Proc, PickCommand(p)
    PROVE  CommandInv' /\ \A i \in CommandId : MovesForward(i)
<1> USE DEF CommandInv
<1>1. PICK i \in CommandId : /\ cmds[i].status = "pending"
                             /\ cmds' = [cmds EXCEPT ![i].status = "in_progress"]
                             /\ cur' = [cur EXCEPT ![p] = i]
  BY DEF PickCommand, Pending
<1>2. /\ cmds'[i].status = "in_progress"
      /\ cmds'[i] = [cmds[i] EXCEPT !.status = "in_progress"]
      /\ \A j \in CommandId \ {i} : cmds'[j] = cmds[j]
  BY <1>1, SetStatus
<1>3. cur'[p] = i /\ \A q \in Proc \ {p} : cur'[q] = cur[q]
  BY <1>1 DEF TypeOK
<1>4. pc'[p]["poll"] = "picked" /\ \A q \in Proc \ {p} : pc'[q]["poll"] = pc[q]["poll"]
  BY PollAfterGoto DEF PickCommand, Thread
<1>5. i # None
  BY ConstantTypes
<1>6. \A q \in Proc : cur[q] # i
  BY <1>1, <1>5 DEF Hand
<1>7. OneExecutor'
  BY <1>3, <1>6 DEF OneExecutor
<1>8. Hand(p)'
  BY <1>2, <1>3, <1>4, <1>5 DEF Hand, Handling
<1>9. \A q \in Proc \ {p} : Hand(q)'
  BY <1>2, <1>3, <1>4, <1>6, OthersKeep
<1>10. \A j \in CommandId : MovesForward(j)
  BY <1>1, <1>2 DEF MovesForward, Rank
<1> QED
  BY <1>7, <1>8, <1>9, <1>10

LEMMA PreMarkStep ==
    ASSUME CommandInv, TypeOK', NEW p \in Proc, PreMark(p)
    PROVE  CommandInv' /\ \A i \in CommandId : MovesForward(i)
<1> USE DEF CommandInv
<1> DEFINE i == cur[p]
<1>1. i \in CommandId /\ cmds[i].status = "in_progress"
  BY DEF PreMark, Hand, TypeOK
<1>2. cur' = cur
  BY DEF PreMark
<1>3. pc'[p]["poll"] = "marked" /\ \A q \in Proc \ {p} : pc'[q]["poll"] = pc[q]["poll"]
  BY PollAfterGoto DEF PreMark, Thread
<1>4. \A q \in Proc \ {p} : cur[q] # i
  BY <1>1, ConstantTypes DEF OneExecutor
<1>5. i # None
  BY <1>1, ConstantTypes
<1>6. OneExecutor'
  BY <1>2 DEF OneExecutor
<1>7. CASE cmds' = [cmds EXCEPT ![i].status = "completed"]
  <2>1. /\ cmds'[i].status = "completed"
        /\ cmds'[i] = [cmds[i] EXCEPT !.status = "completed"]
        /\ \A j \in CommandId \ {i} : cmds'[j] = cmds[j]
    BY <1>1, <1>7, SetStatus
  <2>2. Hand(p)'
    BY <1>2, <1>3, <1>5, <2>1 DEF Hand, Handling
  <2>3. \A q \in Proc \ {p} : Hand(q)'
    BY <1>1, <1>2, <1>3, <1>4, <2>1, OthersKeep
  <2>4. \A j \in CommandId : MovesForward(j)
    <3>1. Rank(cmds[i].status) < Rank(cmds'[i].status)
      BY <1>1, <2>1 DEF Rank
    <3>2. MovesForward(i)
      BY <2>1, <3>1 DEF MovesForward
    <3>3. \A j \in CommandId \ {i} : MovesForward(j)
      BY <2>1 DEF MovesForward
    <3> QED
      BY <3>2, <3>3
  <2> QED
    BY <1>6, <2>2, <2>3, <2>4
<1>8. CASE cmds' = cmds
  BY <1>1, <1>2, <1>3, <1>5, <1>6, <1>8 DEF Hand, Handling, MovesForward
<1> QED
  BY <1>7, <1>8 DEF PreMark

LEMMA MarkFailedStep ==
    ASSUME CommandInv, TypeOK', NEW p \in Proc, MarkFailed(p)
    PROVE  CommandInv' /\ \A i \in CommandId : MovesForward(i)
<1> USE DEF CommandInv
<1> DEFINE i == cur[p]
<1>1. i \in CommandId /\ cmds[i].status \in {"in_progress", "completed"}
  BY DEF MarkFailed, Hand, Handling, TypeOK
<1>2. cur'[p] = None /\ \A q \in Proc \ {p} : cur'[q] = cur[q]
  BY DEF MarkFailed, TypeOK
<1>3. pc'[p]["poll"] = "down" /\ \A q \in Proc \ {p} : pc'[q]["poll"] = pc[q]["poll"]
  BY PollAfterGoto DEF MarkFailed, Thread
<1>4. \A q \in Proc \ {p} : cur[q] # i
  BY <1>1, ConstantTypes DEF OneExecutor
<1>5. OneExecutor'
  BY <1>2 DEF OneExecutor
<1>6. Hand(p)'
  BY <1>2, <1>3 DEF Hand, Handling
<1>7. CASE cmds' = [cmds EXCEPT ![i].status = "failed"]
  <2>1. /\ cmds'[i].status = "failed"
        /\ cmds'[i] = [cmds[i] EXCEPT !.status = "failed"]
        /\ \A j \in CommandId \ {i} : cmds'[j] = cmds[j]
    BY <1>1, <1>7, SetStatus
  <2>2. \A q \in Proc \ {p} : Hand(q)'
    BY <1>1, <1>2, <1>3, <1>4, <2>1, OthersKeep
  <2>3. \A j \in CommandId : MovesForward(j)
    <3>1. Rank(cmds[i].status) < Rank(cmds'[i].status)
      BY <1>1, <2>1 DEF Rank
    <3>2. MovesForward(i)
      BY <2>1, <3>1 DEF MovesForward
    <3>3. \A j \in CommandId \ {i} : MovesForward(j)
      BY <2>1 DEF MovesForward
    <3> QED
      BY <3>2, <3>3
  <2> QED
    BY <1>5, <1>6, <2>2, <2>3
<1>8. CASE cmds' = cmds
  <2>1. \A q \in Proc \ {p} : Hand(q)'
    BY <1>2, <1>3, <1>8 DEF Hand
  <2> QED
    BY <1>5, <1>6, <1>8, <2>1 DEF MovesForward
<1> QED
  BY <1>7, <1>8 DEF MarkFailed

LEMMA InsertStep ==
    ASSUME CommandInv, TypeOK', InsertCommand
    PROVE  CommandInv' /\ \A i \in CommandId : MovesForward(i)
<1> USE DEF CommandInv
<1>1. PICK i \in CommandId :
         /\ cmds[i].status = "absent"
         /\ cmds' = [cmds EXCEPT ![i] = [status |-> "pending", worker |-> request.worker,
                                         command |-> request.command]]
  BY DEF InsertCommand
<1>2. cmds'[i].status = "pending" /\ \A j \in CommandId \ {i} : cmds'[j] = cmds[j]
  BY <1>1 DEF TypeOK
<1>3. cur' = cur /\ pc' = pc
  BY DEF InsertCommand, procVars
<1>4. \A q \in Proc : cur[q] # None => cmds'[cur[q]] = cmds[cur[q]]
  BY <1>1, <1>2 DEF Hand, TypeOK
<1>5. OneExecutor' /\ \A q \in Proc : Hand(q)'
  BY <1>3, <1>4 DEF OneExecutor, Hand
<1>6. \A j \in CommandId : MovesForward(j)
  BY <1>1, <1>2 DEF MovesForward, Rank
<1> QED
  BY <1>5, <1>6

\* Every other step.
LEMMA OtherSteps ==
    ASSUME CommandInv, [Next]_vars, ~ InsertCommand,
           \A p \in Proc : ~ (PickCommand(p) \/ PreMark(p) \/ MarkFailed(p))
    PROVE  CommandInv' /\ cmds' = cmds
<1> USE DEF CommandInv
<1>0. TypeOK'
  BY TypeStep
<1>1. ASSUME NEW p \in Proc, NEW place, NEW e, Reset(p, place, e), cmds' = cmds
      PROVE  CommandInv' /\ cmds' = cmds
  BY <1>0, <1>1, ResetStep
<1>2. ASSUME NEW p \in Proc, NEW t \in Thread, NEW place, NEW S, Goto(p, t, place, S),
             cmds' = cmds, cur' = cur,
             t = "poll" => /\ place # "picked"
                           /\ place \in Handling => pc[p]["poll"] \in Handling
      PROVE  CommandInv' /\ cmds' = cmds
  BY <1>0, <1>2, PollAfterGoto, QuietStep
<1>3. ASSUME NEW p \in Proc, Start(p) \/ RegisterRefused(p) \/ Exec(p) \/ Crash(p)
                             \/ \E t \in Thread : Exit(p, t)
      PROVE  CommandInv' /\ cmds' = cmds
  BY <1>1, <1>3 DEF Start, RegisterRefused, Exec, Crash, Exit, dbVars
<1>4. ASSUME NEW p \in Proc, Register(p) \/ Signal(p)
      PROVE  CommandInv' /\ cmds' = cmds
  BY <1>2, <1>4 DEF Register, Signal, dbVars, Thread
<1>5. ASSUME NEW p \in Proc, NEW m \in Machine, ProvisionMachine(p, m) \/ ClaimMachine(p, m)
      PROVE  CommandInv' /\ cmds' = cmds
  <2>1. PICK place, S : Goto(p, "main", place, S)
    BY <1>5 DEF ProvisionMachine, ClaimMachine
  <2> QED
    BY <1>2, <1>5, <2>1 DEF ProvisionMachine, ClaimMachine, Thread
<1>6. ASSUME NEW p \in Proc, StartThreads(p)
      PROVE  CommandInv' /\ cmds' = cmds
  <2>1. cmds' = cmds /\ cur' = cur
    BY <1>6 DEF StartThreads, dbVars
  <2>2. \A q \in Proc : pc'[q]["poll"] = IF q = p THEN "serve" ELSE pc[q]["poll"]
    BY <1>6 DEF StartThreads, TypeOK, Thread
  <2> QED
    BY <1>0, <2>1, <2>2, QuietStep DEF Handling
<1>7. ASSUME NEW p \in Proc, HandlerCancels(p) \/ ExecFails(p)
      PROVE  CommandInv' /\ cmds' = cmds
  <2>1. PICK place \in {"drain", "fail"} : Goto(p, "poll", place, {})
    BY <1>7 DEF HandlerCancels, ExecFails
  <2>2. pc[p]["poll"] \in Handling /\ cmds' = cmds /\ cur' = cur
    BY <1>7 DEF HandlerCancels, ExecFails, Handling, dbVars
  <2> QED
    BY <1>2, <2>1, <2>2 DEF Thread
<1>8. ASSUME NEW p \in Proc, NEW t \in Thread, Drained(p, t) \/ SetOffline(p, t)
      PROVE  CommandInv' /\ cmds' = cmds
  <2>1. CASE Drained(p, t)
    BY <1>2, <2>1 DEF Drained, Handling, dbVars
  <2>2. CASE SetOffline(p, t)
    BY <1>2, <2>2 DEF SetOffline, Handling
  <2> QED
    BY <1>8, <2>1, <2>2
<1>9. ASSUME NEW p \in Proc, NEW t \in Thread, NEW m \in Machine, ReleaseMachine(p, t, m)
      PROVE  CommandInv' /\ cmds' = cmds
  <2>1. PICK place, S : /\ place \in {"release", "exec", "offline"}
                        /\ Goto(p, t, place, S)
    BY <1>9 DEF ReleaseMachine, AfterRelease
  <2>2. cmds' = cmds /\ cur' = cur /\ pc[p][t] = "release"
    BY <1>9 DEF ReleaseMachine
  <2> QED
    BY <1>2, <2>1, <2>2 DEF Handling
<1>10. CASE cmds' = cmds /\ cur' = cur /\ pc' = pc
  BY <1>0, <1>10, QuietStep
<1>11. ASSUME NEW p \in Proc,
              \/ Heartbeat(p)
              \/ \E m \in Machine : RunMachine(p, m) \/ MachineStops(p, m)
       PROVE  cmds' = cmds /\ cur' = cur /\ pc' = pc
  BY <1>11 DEF Heartbeat, HeartbeatWorker, HeartbeatMachine, RunMachine, MachineStops,
               dbVars, procVars
<1>12. ASSUME \/ ListWorkers \/ Tick \/ UNCHANGED vars
              \/ \E n \in Name, c \in validCommands : CheckOnline(n, c)
       PROVE  cmds' = cmds /\ cur' = cur /\ pc' = pc
  BY <1>12 DEF ListWorkers, Tick, CheckOnline, dbVars, procVars, vars
<1> QED
  BY <1>3, <1>4, <1>5, <1>6, <1>7, <1>8, <1>9, <1>10, <1>11, <1>12
     DEF Next, Startup, Handler, Shutdown

LEMMA CommandStep ==
    ASSUME CommandInv, [Next]_vars
    PROVE  CommandInv' /\ [\A i \in CommandId : MovesForward(i)]_cmds
<1>1. TypeOK'
  BY TypeStep DEF CommandInv
<1>2. ASSUME NEW p \in Proc, PickCommand(p) \/ PreMark(p) \/ MarkFailed(p)
      PROVE  CommandInv' /\ [\A i \in CommandId : MovesForward(i)]_cmds
  BY <1>1, <1>2, PickStep, PreMarkStep, MarkFailedStep
<1>3. CASE InsertCommand
  BY <1>1, <1>3, InsertStep
<1> QED
  BY <1>2, <1>3, OtherSteps

-----------------------------------------------------------------------------
\* The invariant holds in every reachable state.
THEOREM CommandInvariant == Spec => []CommandInv
BY CommandInit, CommandStep, PTL DEF Spec

(***************************************************************************)
(* No command is in the hands of two processes, however many poll its row. *)
(***************************************************************************)
THEOREM CommandsHaveOneExecutor == Spec => []OneExecutor
BY CommandInvariant, PTL DEF CommandInv

(***************************************************************************)
(* No status is ever taken back: what was started is not offered again,    *)
(* and a failure is not covered up.                                        *)
(***************************************************************************)
THEOREM CommandsNeverGoBack == Spec => CommandsMoveForward
BY CommandInvariant, CommandStep, PTL DEF Spec, CommandsMoveForward

=============================================================================
