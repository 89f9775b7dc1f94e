\* One process, started again and again, with two machines; signals and commands overlap.
CONSTANTS
    p1 = p1
    p2 = p2
    n1 = n1
    n2 = n2
    Proc = {p1}
    Name = {n1}
    Machine = {m1, m2}
    Id = {p1}
    None = None
    NameOf <- SameName
    IdOf <- OwnId
    MachinesOf <- SameMachines
    StaleAfter = 1
    MaxCommands = 1
    Events = {"crash", "signal", "readerr"}

SPECIFICATION FairSpec

INVARIANT ShutdownReleases

PROPERTIES
    CommandIsPicked
    ShutdownEnds
    DeadWorkerLetsGo
