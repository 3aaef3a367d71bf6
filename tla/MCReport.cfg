\* One run over lines that are shipped while it goes on; calls take no time.
CONSTANTS
    NoClient = NoClient
    None = None
    LongSQL = {"long"}
    Log <- MCLines
    Event <- FewEvents
    AggSize = 2
    CommandListSize = 3
    Windows = {3}
    Period = 6
    Deadline = 2
    CallLimit = 0
    HookLimit = 0
    FirstRun = 4
    MaxTime = 4
SPECIFICATION Spec
INVARIANTS
    ReportTypeOK
    ExactWhenStill
    LaterSectionsSeeMore
    NothingMeansNothing
    CommandsAreGrouped
CHECK_DEADLOCK FALSE
