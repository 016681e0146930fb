SPECIFICATION FairSpec
CONSTANTS
    Threads = {t1, t2}
    Points = {"p", "q"}
    Names = {}
    Slots <- MCOneSlot
    Regs <- MCRivals
    Randoms = {0}
    Unordered = TRUE
    MaxEvents = 2
    NoReg = NoReg
    NoSni = NoSni
    Nobody = Nobody
CHECK_DEADLOCK FALSE
INVARIANTS
    WritesToSubscriber
PROPERTIES
    LoggingReturns
