SPECIFICATION Spec
CONSTANTS
    Clients = {c1, c2, c3}
    Server = Server
    NoSock = NoSock
    Limit = 3
    Scripts <- MCScripts
INVARIANTS
    TypeOK
    AnswersOwnRequest
    CountExact
    UrlOfSock
SYMMETRY Symmetry
CHECK_DEADLOCK FALSE
