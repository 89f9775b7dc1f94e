\* Two commands for one worker.
CONSTANTS
    p1 = p1
    p2 = p2
    n1 = n1
    n2 = n2
    Proc = {p1}
    Name = {n1}
    Machine = {m1}
    Id = {p1}
    None = None
    NameOf <- SameName
    IdOf <- OwnId
    MachinesOf <- SameMachines
    StaleAfter = 2
    MaxCommands = 2
    Events = {}

SPECIFICATION FairSpec

PROPERTY NothingAfterStop
