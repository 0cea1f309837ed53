SPECIFICATION FairSpec
CONSTANTS
    Connection = {c1, c2}
    MaxInfoCalls = 2
    None = None
INVARIANTS
    TypeOK
    CallErrorsReported
    AnsweredOnce
    SignalKept
PROPERTIES
    DrainProceeds
    SignalEndsProcess
    EventuallyServing
    StaleReleased
