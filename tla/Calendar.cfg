SPECIFICATION Spec
CONSTANTS
    Years <- SomeYears
    FirstYear = 2020
    LastYear = 2021
    Lookback = {0, 45}
INVARIANTS WindowsTileTime DatabaseHasTheWindows RequestsHoldWholeWindows
CHECK_DEADLOCK FALSE
