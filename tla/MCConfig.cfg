SPECIFICATION Spec
CONSTANTS
    n1 = n1
    n2 = n2
    f1 = f1
    f2 = f2
    f2int = f2int
    c1 = c1
    c2 = c2
    x4 = x4
    y4 = y4
    x6 = x6
    l1 = l1
    L1 = L1
    l2 = l2
    s1 = s1
    s2 = s2
    none = none
    Network = {n1, n2}
    V4 = {x4, y4}
    V6 = {x6}
    Label = {l1, l2}
    Server = {s1, s2}
    NoDns = NoDns
    Container = {c1, c2}
    File = {f1, f2, f2int}
    NetworkOf <- MCNetworkOf
    Internal = {f2int}
    Word <- MCWord
    Lower <- MCLower
    Blank = none
    Text <- MCText
    Gone = Gone
    Malformed = Malformed
    NoFile = NoFile
INVARIANTS TypeOK NamesResolveInSharedNetworks InternalIffAllNetworksAre
    ResolversComeFromExternalNetworks RoundTrip ListenersFollowFiles
    DocumentedFilesAreRead CutFileKeepsListeners
