\* One client with a timeout and one without, a daemon that may be restarted and
\* whose handler may fail to respond.
SPECIFICATION FairSpec
CONSTANTS
    Clients = {a, b}
    Statuses = {success}
    Null = Null
    HandlerResults = {success, Null}
    SendErrors = FALSE
    Patient = {a}
    MaxCalls = 1
    MaxLaunches = 2
PROPERTIES StopHonoured SendReturns ListensOrEnds SentIsExecuted WaitersAnswered
CHECK_DEADLOCK FALSE
