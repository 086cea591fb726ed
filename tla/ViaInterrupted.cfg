\* The tail of bus_read_byte can be delayed by an interrupt.
SPECIFICATION Spec
CONSTANTS
    zero = zero
    b1 = b1
    b2 = b2
    Byte <- MCByte
    Zero <- MCZero
    PicoPrompt = FALSE
SYMMETRY MCSymmetry
INVARIANTS
    NoDeadlyEmbrace
CHECK_DEADLOCK FALSE
