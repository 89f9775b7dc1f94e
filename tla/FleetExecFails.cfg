\* One process whose restart cannot exec.
CONSTANTS
    p1 = p1
    p2 = p2
    n1 = n1
    n2 = n2
    Proc = {p1}
    Name = {n1}
    Machine = {m1}
    Id = {p1}
    None = None
    NameOf <- SameName
    IdOf <- OwnId
    MachinesOf <- SameMachines
    StaleAfter = 3
    MaxCommands = 1
    Events = {"execfail"}

SPECIFICATION FairSpec

PROPERTY ShutdownEnds
