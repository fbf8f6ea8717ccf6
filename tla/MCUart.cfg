SPECIFICATION FairSpec
CONSTANTS
    term = term
    Readers = {term}
    Writers = {term}
    RingSize = 2
    CounterWrap = 4
    RxFifoSize = 2
    TxFifoSize = 2
    TxEmptyAt = 1
    ReadMax = 2
    WriteLen = 4
    MaxBytes = 6
    Nobody = Nobody
INVARIANTS TypeOK BytesInOrder WriterArmed
PROPERTIES WriteReturns
\* A terminal nobody types at leaves its reader parked for good.
CHECK_DEADLOCK FALSE
