\* Two channels, four faults; nonces are told apart over four handshakes.
SPECIFICATION FairSpec
CONSTANTS
    Retry = 1
    BeaconLoss = 2
    WpaStall = 3
    Channels = 2
    Nonces = 4
    MaxTry = 1
    MaxFaults = 4
INVARIANTS TypeOK KeysAgree DoneIsKeyed
PROPERTIES LinkUp
