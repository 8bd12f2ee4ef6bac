SPECIFICATION SupSpec
CONSTANTS
    s1 = s1
    s2 = s2
    owner = owner
    sup1 = sup1
    sup2 = sup2
    base = base
    next = next
    last = last
    Scheds = {s2}
    Clerks = {owner, sup1}
    Supervisors = {sup1}
    Cards = {base, next, last}
    Base = base
    DependsOn <- Chain
    CardOf <- Armed
    MaxAttempts = 1
    MaxHead = 2
    Faults = {"kill"}
    MaxCrashes = 0
    MaxIssued = 1
INVARIANTS MergedWasVerified
CHECK_DEADLOCK FALSE
