SPECIFICATION FairSpec
CONSTANTS
    p1 = p1
    p2 = p2
    a = a
    b = b
    Pid = {p1, p2}
    Ip = {a, b}
    NoFile = NoFile
    Empty = Empty
    Nobody = Nobody
    Fault = {"pidfile", "handler", "config", "bind", "ready", "inotify", "kill"}
    MaxChanges = 1
INVARIANTS TypeOK ParentTellsTruth ReadyMeansBound ServerIsNotifiable StalePidFileMeansFailure
PROPERTIES ParentReturns
CHECK_DEADLOCK FALSE
