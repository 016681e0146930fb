SPECIFICATION Spec
CONSTANTS
    Threads = {t1}
    Points = {"p"}
    Names = {"a"}
    Slots <- MCTwoSlots
    Regs <- MCNames
    Randoms = {0}
    Unordered = FALSE
    MaxEvents = 1
    NoReg = NoReg
    NoSni = NoSni
    Nobody = Nobody
CHECK_DEADLOCK FALSE
INVARIANTS
    ConnectionFilter
