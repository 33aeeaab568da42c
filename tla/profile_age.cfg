SPECIFICATION Spec
CONSTANTS
    FirstYear = 2023
    LastYear = 2025
CHECK_DEADLOCK FALSE
INVARIANT
    AgeCountsBirthdays
PROPERTY
    AgesOneAtATime
