SPECIFICATION Spec
CONSTANTS
    s1 = s1
    p1 = p1
    p2 = p2
    l1 = l1
    l2 = l2
    l3 = l3
    deadline = deadline
    red = red
    green = green
    blue = blue
    ask1 = ask1
    ask2 = ask2
    Scheds = {s1}
    Clerks = {p1, p2}
    Faults = {"kill", "rc"}
    MaxCrashes = 2
    MaxIssued = 3
    Legs = {l1, l2, l3}
    LegCard <- Cards1
    Earlier = {}
    Deadline = deadline
    Dying = TRUE
    Requests = {ask1, ask2}
    FreeText = {}
    Hurried = {ask2}
    MaxSays = 1
    MaxRestarts = 1
    MaxLost = 1
INVARIANTS  AckedIsHeard PushedInEarnest FiredOnceAsShown RefusedLeavesNothing OneTruePush
PROPERTIES HaltedNeverFires   AskIsAnswered
CHECK_DEADLOCK FALSE
