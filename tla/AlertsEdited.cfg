\* One rule that is edited, switched and deleted under two pollers.
CONSTANTS
    Poller = {p1, p2}
    Rule = {r1}
    Definition <- Edited
    Reading <- Reads
    Metric = {"temp"}
    Value = {0, 1}
    User = {u1}
    MaxEvents = 2
    None = None

SPECIFICATION Spec
SYMMETRY Symmetry

INVARIANTS
    TypeOK
    OneOpenPerPoller
    NoOrphanEvents

PROPERTIES
    EventsFollowRules
