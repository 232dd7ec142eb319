SPECIFICATION Spec
CONSTANTS
    ch_a = ch_a
    ch_b = ch_b
    Letter = {ch_a}
    Space = sp
    Slash = sl
    LineBufSize = 3
    HistorySize = 3
    Names <- NoNames
PROPERTIES ImplementsEditSpec
CHECK_DEADLOCK FALSE
