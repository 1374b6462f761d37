SPECIFICATION FairSpec
CONSTANTS
    n1 = n1
    n2 = n2
    a4 = a4
    b4 = b4
    c6 = c6
    onlyA = onlyA
    onlyB = onlyB
    dual = dual
    Network = {n1, n2}
    V4 = {a4, b4}
    V6 = {c6}
    Content = {onlyA, dual}
    ListenIps <- MCListenIps
    Absent = Absent
    Malformed = Malformed
    Nobody = Nobody
    Resolv = {r1}
    NoServers = NoServers
    Fault = {"config_io", "bind", "resolv", "pidfile", "ready", "inotify", "accept"}
    MaxChanges = 2
INVARIANTS TypeOK EveryListenerStoppable NoOrphanSockets HandlesMatchBackend OnlyPeersInTheWay
PROPERTIES ImplementsListenerSet SighupTaken KeepsConfiguredListeners ServingEndsOnlyWhenEmpty
