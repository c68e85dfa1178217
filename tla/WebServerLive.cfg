SPECIFICATION FairSpec
CONSTANTS
    Clients = {c1, c2}
    Server = Server
    NoSock = NoSock
    Limit = 3
    Scripts <- MCScripts
PROPERTY LastIsServed
CHECK_DEADLOCK FALSE
