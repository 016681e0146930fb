SPECIFICATION Spec
CONSTANTS
    Threads = {t1, t2}
    Points = {"p"}
    Names = {"a"}
    Slots <- MCTwoSlots
    Regs <- MCSubscribers
    Randoms = {0, 1}
    Unordered = FALSE
    MaxEvents = 2
    NoReg = NoReg
    NoSni = NoSni
    Nobody = Nobody
SYMMETRY MCSymmetry
CHECK_DEADLOCK FALSE
INVARIANTS
    OncePerFd
    NothingMissed
