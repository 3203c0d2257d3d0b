SPECIFICATION LibrarySpec
CONSTANTS
    Contacts <- AllKinds
    TimeObjects = {object1, object2}
    Zones = {helsinki, london}
    NoZone = NoZone
    MaxSettings = 4
    Threads = {thread1, thread2}
    ZoneNames = {helsinki, london}
    Unset = Unset
    Empty = Empty
    Own = Own
    MaxOpens = 3
    MaxConnections = 3
    Clients = {"accelerometer", "tap"}
    Uninitialised = {"tap"}
    SensorClasses = {"compass"}
    Measurable <- Inputs
    MaxMeasured = 3
    Classes = {"display"}
    Apps = {reader, other}
    Reader = reader
    MaxBrightness = 2
    Timeouts = {15, 30}
    Thresholds <- AllThresholds
    MaxRequests <- Limits
    MaxMoves = 1
CHECK_DEADLOCK FALSE
INVARIANT OneReading
