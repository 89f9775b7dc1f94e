\* Two rules that are switched and deleted under a poller that may stop and fail.
CONSTANTS
    Poller = {p1}
    Rule = {r1, r2}
    Definition <- Switched
    Reading <- Reads
    Metric = {"temp"}
    Value = {0, 1}
    User = {}
    MaxEvents = 2
    None = None

SPECIFICATION FairSpec

PROPERTIES
    ClearedResolves
    ViolationIsReported
