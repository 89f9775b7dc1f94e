SPECIFICATION ChartSpec
CONSTANTS
    NoData = NoData
    Source = {"x", "y"}
    Sensor = {"a", "b"}
    Quantity = {"q"}
    Unplotted = Unplotted
    MaxApplies = 3
INVARIANT PointsUnderTheirSource
CHECK_DEADLOCK FALSE
