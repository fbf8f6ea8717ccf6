\* The timer's process acts on a timeout without looking again.
SPECIFICATION Spec
CONSTANTS
    Port = {p1}
    NoPort = NoPort
    Isn = 14
    Iss <- IssTwo
    SeqWrap = 16
    Mss = 2
    RingSize = 2
    Window = 2
    MaxRetries = 1
    ReadMax = 1
    WriteLen = 3
    PeerBytes = 2
    MaxWritten = 3
    NetCap = 1
PROPERTY TimerHasCause
CHECK_DEADLOCK FALSE
