\* Two clients with two calls each, a daemon that is restarted, every response.
SPECIFICATION Spec
CONSTANTS
    Clients = {a, b}
    Statuses = {success, error}
    Null = Null
    HandlerResults = {success, error, Null}
    SendErrors = TRUE
    Patient = {}
    MaxCalls = 2
    MaxLaunches = 2
SYMMETRY Symmetry
INVARIANTS TypeOK AtMostOnce AnswersMatch
CHECK_DEADLOCK FALSE
