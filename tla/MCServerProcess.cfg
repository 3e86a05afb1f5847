SPECIFICATION FairSpec
CONSTANTS
    Jobs = {sessions, setups}
    Connections = {c1, c2}
    Grace = 3
    FlushTime = 2
    Off = Off
CHECK_DEADLOCK FALSE
INVARIANTS
    TypeOK
    RequestsServed
    ExitsInTime
PROPERTIES
    JobsGoOn
