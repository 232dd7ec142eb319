SPECIFICATION Spec
CONSTANTS
    ch_a = ch_a
    ch_b = ch_b
    Letter = {ch_a, ch_b}
    Space = sp
    Slash = sl
    LineBufSize = 4
    HistorySize = 1
    Names <- SomeNames
INVARIANTS TypeOK ScreenMatches
PROPERTIES TabCompletes
CHECK_DEADLOCK FALSE
