\* One client over a line that holds two segments, so that they overtake each
\* other; the peer's data fills the receive ring and its numbers wrap, as do
\* the server's.
SPECIFICATION Spec
CONSTANTS
    Port = {p1}
    NoPort = NoPort
    Isn = 14
    Iss <- IssOne
    SeqWrap = 16
    Mss = 2
    RingSize = 2
    Window = 2
    MaxRetries = 1
    ReadMax = 1
    WriteLen = 2
    PeerBytes = 2
    MaxWritten = 2
    NetCap = 2
INVARIANTS TypeOK StreamIn StreamOut AckedArrived RtoArmed
CHECK_DEADLOCK FALSE
