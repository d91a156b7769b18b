\* One crash, one ask, four ticks.
SPECIFICATION Spec
CONSTANTS
    Field <- WeatherField
    None = None
    Asks = 1
    Hwm = 3
    MaxCrashes = 1
    Air <- MCAir
    Pressure = {1, 2, 3}
    Gate = 2
    BaroWindow = 1
    MaxTicks = 4
INVARIANTS AirNear WindowTrue
CHECK_DEADLOCK FALSE
