\* One connection, every counter and every packet: shutdown and time-out under fairness.
SPECIFICATION FairSpec
CONSTANTS
    Conns = {k1}
    MaxCtr = 2
    None = None
PROPERTIES
    FiniReturns
    SilentNeighborLeaves
