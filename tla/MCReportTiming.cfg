\* Two runs in a row, where every call takes up to a unit of time, the post two.
CONSTANTS
    NoClient = NoClient
    None = None
    LongSQL = {"long"}
    Log <- MCLines
    Event <- LateEvents
    AggSize = 1
    CommandListSize = 1
    Windows = {7, 0}
    Period = 7
    Deadline = 6
    CallLimit = 1
    HookLimit = 2
    FirstRun = 2
    MaxTime = 9
SPECIFICATION Spec
INVARIANTS
    RunsDoNotOverlap
    WindowsMeet
PROPERTIES
    ImplementsService
CHECK_DEADLOCK FALSE
