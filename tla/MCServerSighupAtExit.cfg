SPECIFICATION FairSpec
CONSTANTS
    n1 = n1
    n2 = n2
    a4 = a4
    b4 = b4
    c6 = c6
    onlyA = onlyA
    onlyB = onlyB
    dual = dual
    Network = {n1, n2}
    V4 = {a4, b4}
    V6 = {c6}
    Content = {onlyA, onlyB, dual}
    ListenIps <- MCListenIps
    Absent = Absent
    Malformed = Malformed
    Nobody = Nobody
    Resolv = {r1}
    NoServers = NoServers
    Fault = {}
    MaxChanges = 2
PROPERTY ReloadsBeforeStopping
