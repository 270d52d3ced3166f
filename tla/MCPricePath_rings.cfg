CONSTANTS
    Seconds = 2
    FiveMinutes = 4
    FiveNeeds = 2
    Minutes = 4
    HalfHour = 2
    TwoHourLeast = 2
    HourLen = 2
    Hours = 2
    HoursOf <- MCHoursOf
    DayLeast = 2
    LivePct = 60
    WeekNeeds = 2
    Asked <- MCAsked
    Room <- MCRoom
    MaxTrade = 3

SPECIFICATION Spec
CONSTRAINT MCFocus

INVARIANTS
    SeriesInOrder
    CandlesInOrder
    FullIsBacked

PROPERTY SampledInOrder
