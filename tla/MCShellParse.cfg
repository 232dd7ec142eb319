SPECIFICATION Spec
CONSTANTS
    Keyboards <- MCKeyboards
    MaxArgs = 3
INVARIANTS
    TreeIsGrammatical
    BuiltinMeansSimple
CHECK_DEADLOCK FALSE
