SPECIFICATION Spec
CONSTANTS
    k1 = k1
    k2 = k2
    k3 = k3
    Keys = {k1, k2, k3}
    Sockets = {1, 2}
    Incoming = {k1, k2, k3}
    MaxIos = 2
    MaxNodes = 2
    MaxConnections = 1
    MaxConnectionAge = 1
    MaxConnectionBanAge = 1
    NumConsecutiveFailuresBeforeBanning = 1
    NodeSources = {1, 2}
SYMMETRY Symmetry
INVARIANTS NoIdentityStuck CheckedOutOnce

