\* Two workers of different names whose configs share a machine.
CONSTANTS
    p1 = p1
    p2 = p2
    n1 = n1
    n2 = n2
    Proc = {p1, p2}
    Name = {n1, n2}
    Machine = {m1}
    Id = {p1, p2}
    None = None
    NameOf <- OwnName
    IdOf <- OwnId
    MachinesOf <- SameMachines
    StaleAfter = 2
    MaxCommands = 0
    Events = {"pause", "crash", "signal"}

SPECIFICATION Spec

INVARIANT OneOwnerPerMachine
