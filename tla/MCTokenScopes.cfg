CONSTANTS
    t1 = t1  t2 = t2
    c1 = c1  c2 = c2
    publish = publish  create = create
    publisher = publisher  admin = admin
    Threads = {t1}
    Clients = {c1}
    ClientOf <- OneProcess
    Scopes = {publish, create}
    PublishScope = publish
    Publisher = publisher
    Admin = admin
    StatesScope = FALSE
    None = None
    MaxCommands = 3
    MaxFaults = 1
SPECIFICATION Spec
CHECK_DEADLOCK FALSE
INVARIANTS CachesGrantedScopes
