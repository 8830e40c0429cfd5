\* Every command of the editor, twice in a row, with a second caller that
\* stabilizes its video at the same time.
SPECIFICATION EditSpec
CONSTANTS
    None = None
    c1 = c1
    c2 = c2
    Shared = Shared
    Callers = {c1, c2}
    Sources <- MCSources
    Starts <- MCStarts
    Images <- MCImages
    Ticks <- MCTicks
    Speeds <- MCSpeeds
    Sides <- MCSides
    Commands <- MCCommands
    MaxEdits = 2
    KeyEvery = 2
INVARIANTS InStep OwnMotion ComputedSizesEncode
CHECK_DEADLOCK FALSE
