SPECIFICATION Spec
CONSTANTS
    BPS = 20
    YEAR = 3
    DAY = 2
    PROTOCOL_INTEREST_BPS = 7
    BAD_DEBT_RESERVE_BPS = 11
    MaxAmount = 6
    MaxFactor = 4
    Models <- Curves
    DAYS_PER_YEAR = 3
    YIELD_SCALE = 40
    MAX_YIELD_RATE_BPS = 5
    MAX_COMPOUND_PERIODS = 4
    U64_MAX = 9
    U128_MAX = 3500
    NoPosition = NoPosition
    MAX_YIELD_BOOST_BPS = 0
INVARIANTS
    RatesFaithful
    ProjectionsFaithful
CHECK_DEADLOCK FALSE
