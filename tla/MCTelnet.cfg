\* Lines of two characters, reads of three bytes, two connections.  The peer
\* may stop for good.
SPECIFICATION Spec
CONSTANTS
    ReadChunk = 3
    LineMax = 3
    ExitLine <- xx
    MaxWire = 2
    MaxActs = 4
INVARIANTS TypeOK OptionsAgree LineAsTyped
CHECK_DEADLOCK FALSE
