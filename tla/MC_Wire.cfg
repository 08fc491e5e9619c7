SPECIFICATION Spec
CONSTANTS
    x = x
    y = y
    NUL = NUL
    Letter = {x}
    SizeOf <- MCSizeOf
    DefaultName <- MCDefaultName
    MaxDatagram <- MCMaxDatagram
    U16 = 3
    Sample = {1}
    Rtt = {2, 3}
    MaxPlayers = 3
INVARIANTS TextsAsGiven SnapshotIsWhole PingNotBelow TextsEnd
PROPERTIES OnlyWhole
