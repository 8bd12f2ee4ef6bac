SPECIFICATION FairSessions
CONSTANTS
    w1 = w1
    f1 = f1
    o1 = o1
    Sessions = {w1}
    Workers = {w1}
    Observers = {o1}
    Overlap = TRUE
    Crashes = {"runner", "launcher"}
    Duties = {}

PROPERTIES DeadRowsSettle
CHECK_DEADLOCK FALSE
