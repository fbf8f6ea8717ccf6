\* One client that may connect twice, a write of two segments, over a line
\* that holds one segment; the server's processes run, its waits time out.
SPECIFICATION FairSpec
CONSTANTS
    Port = {p1}
    NoPort = NoPort
    Isn = 14
    Iss <- IssTwo
    SeqWrap = 16
    Mss = 2
    RingSize = 2
    Window = 2
    MaxRetries = 1
    ReadMax = 1
    WriteLen = 3
    PeerBytes = 2
    MaxWritten = 3
    NetCap = 1
PROPERTIES WriteReturns CloseReturns ReaderReleased
CHECK_DEADLOCK FALSE
