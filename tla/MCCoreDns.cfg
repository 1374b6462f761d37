SPECIFICATION HangingSpec
CONSTANTS
    n1 = n1
    n2 = n2
    c1 = c1
    d4 = d4
    d6 = d6
    x = x
    s = s
    t = t
    u = u
    q1 = q1
    q2 = q2
    q3 = q3
    q4 = q4
    k1 = k1
    Network = {n1, n2}
    V4 = {c1, d4}
    V6 = {d6}
    Label = {x}
    Server = {s, t, u}
    NoDns = NoDns
    Query = {q1, q2, q3, q4}
    Udp = {q1, q2}
    Garbled = {q2}
    Unencodable = {q4}
    Conn = {k1}
    ConnOf <- MCOneConn
    Asked <- MCAsked
    network_name = n1
    no_proxy = FALSE
    Published <- MCPublished
    HostServers <- MCHostServers
    NoBackend = NoBackend
    NoServer = NoServer
    MaxQueries = 2
    MaxReloads = 1
INVARIANTS TypeOK OneReply RepliesAreCurrent InternalStaysInside EveryServerTried
PROPERTIES ImplementsService UdpNeverBlocked EveryQueryEnds
CHECK_DEADLOCK FALSE
