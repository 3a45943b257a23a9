SPECIFICATION Spec
CONSTANTS
    Years <- SomeYears
    FirstYear = 2020
    LastYear = 2021
    Lookback = {0, 45}
INVARIANT WeekChartsStartOnMonday
CHECK_DEADLOCK FALSE
