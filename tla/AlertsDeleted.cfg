\* One rule and one poller.
CONSTANTS
    Poller = {p1}
    Rule = {r1}
    Definition <- Switched
    Reading <- Reads
    Metric = {"temp"}
    Value = {0, 1}
    User = {}
    MaxEvents = 2
    None = None

SPECIFICATION FairSpec

PROPERTIES
    EventsPreserved
