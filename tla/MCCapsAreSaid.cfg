\* The note under a section whose aggregation was cut at one bucket.
CONSTANTS
    NoClient = NoClient
    None = None
    LongSQL = {"long"}
    Log <- MCLines
    Event <- CappedEvents
    AggSize = 1
    CommandListSize = 2
    Windows = {3}
    Period = 6
    Deadline = 2
    CallLimit = 0
    HookLimit = 0
    FirstRun = 4
    MaxTime = 4
SPECIFICATION Spec
INVARIANTS
    CapsAreSaid
CHECK_DEADLOCK FALSE
