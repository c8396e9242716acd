SPECIFICATION ClientSpec
CONSTANTS
    Sess = {s1}
    Client = {c1, c2, c3}
    Handlers = {h1}
    Ports = {"both"}
    NoSess = NoSess
    NoClient = NoClient
    MaxReload = 0
INVARIANT NoIdlePair
PROPERTIES
    RequestsRepeated
    PairsTried
