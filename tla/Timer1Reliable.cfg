SPECIFICATION ClockSpec
CONSTANTS
    Width = 24
    Low = 2
    Coef = 3
    Delays = {0, 1, 4}
    MaxGap = 3
    MaxMissed = 2
PROPERTIES
    DelayLasts
