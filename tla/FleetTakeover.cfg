\* A second process takes over the name of one that crashed.
CONSTANTS
    p1 = p1
    p2 = p2
    n1 = n1
    n2 = n2
    Proc = {p1, p2}
    Name = {n1}
    Machine = {m1}
    Id = {p1, p2}
    None = None
    NameOf <- SameName
    IdOf <- OwnId
    MachinesOf <- SameMachines
    StaleAfter = 3
    MaxCommands = 0
    Events = {"crash"}

SPECIFICATION Spec

INVARIANT PolledIsClaimed
