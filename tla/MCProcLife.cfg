SPECIFICATION Spec
CONSTANTS
    HeapStart = 8
    HeapEnd = 88
    MinAlloc = 16
    Granule = 8
    Header = 4
    NumProc = 4
    Spawners = {1}
    Lasting = {0, 1}
    StackSizes = {12, 20}
    DataSizes = {4}
INVARIANTS TypeOK HeapTiled RunsOnOwnStack StacksAccounted RowExclusive
\* The machine stops in a reboot.
CHECK_DEADLOCK FALSE
