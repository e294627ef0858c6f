\* A second of two milliseconds of two ticks each; a TTL of two seconds, given at
\* the last moment, would pass the end of the clock.
CONSTANTS
    None = None
    Key <- Keys
    Value <- Values
    TicksPerMs = 2
    Line <- Texts
    Upper <- LowerCase
    Number <- Numbers
    MsPerSecond = 2
    kMaxTtlSeconds = 1
    ClockMax = 8
    Capacity = 2
    MaxTime = 4
SPECIFICATION Spec
INVARIANTS TokensAreTheWords   DeadlinesFitTheClock
