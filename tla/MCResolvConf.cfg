SPECIFICATION FairSpec
CONSTANTS
    x4 = x4
    x6 = x6
    junk = junk
    eth0 = eth0
    gone0 = gone0
    V4 = {x4}
    V6 = {x6}
    Zone = {eth0, gone0}
    NoZone = NoZone
    NoScope = NoScope
    ScopeId <- MCScopeId
    Text <- MCText
    Later <- MCLater
    Absent = Absent
    NoWriter = NoWriter
    Rejected = Rejected
    Fault = {"inotify", "resolv"}
    MaxChanges = 3
INVARIANTS TypeOK FirstThreeInOrder FollowsWatchedFile
PROPERTIES OnlySighupEmptiesList EventuallyFollows
CHECK_DEADLOCK FALSE
