\* Two clients; a firmware of two chunks, two attempts for each and to erase.
CONSTANTS
    c1 = c1
    c2 = c2
    dio = dio
    ro = ro
    mio = mio
    Clients = {c1, c2}
    Addresses = {dio, ro, mio}
    ModuleKind <- Kinds
    Live = {dio, ro}
    Nobody = Nobody
    Zero = Zero
    Chunks = 2
    WriteAttempts = 2
    EraseAttempts = 2
    Positions = {"left", "last"}
SPECIFICATION FairSpec
INVARIANTS
    AnswerOwn
    FlashComplete
PROPERTIES
    WrittenOnErased
    ServedOnce
    CallsReturn
