\* Two processes under one name: they may hang, crash, lose statements, fail to exec.
CONSTANTS
    p1 = p1
    p2 = p2
    n1 = n1
    n2 = n2
    Proc = {p1, p2}
    Name = {n1}
    Machine = {m1}
    Id = {p1, p2}
    None = None
    NameOf <- SameName
    IdOf <- OwnId
    MachinesOf <- SameMachines
    StaleAfter = 2
    MaxCommands = 1
    Events = {"pause", "crash", "execfail", "dberr"}

SPECIFICATION Spec
SYMMETRY Symmetry

INVARIANTS
    TypeOK
    OneWorkerPerName
    HeldIsOnline
    WonClaimKept
    OneExecutor

PROPERTY CommandsMoveForward
