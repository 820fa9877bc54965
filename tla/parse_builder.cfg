SPECIFICATION Spec
CONSTANTS
    Inputs <- MCInputs
    TimesOfDay <- MCTimes
    Noon = 12
    Bad = 99
    Garbled = 99
CHECK_DEADLOCK FALSE
INVARIANTS RunAtIsSortedSet AcceptedDaysExist OnePeriod
