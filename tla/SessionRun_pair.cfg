SPECIFICATION SessionsSpec
CONSTANTS
    w1 = w1
    f1 = f1
    o1 = o1
    Sessions = {w1, f1}
    Workers = {w1}
    Observers = {o1}
    Overlap = FALSE
    Crashes = {"runner", "launcher", "observer"}
    Duties = {"prune", "stop", "reap"}
INVARIANTS StatusStands WorkerVerdictStands NoFalseDeath DatumHasEvidence
PROPERTIES ReapSparesTheLiving
CHECK_DEADLOCK FALSE
