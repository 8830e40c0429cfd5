\* Four commands of any kind, one after the other or two at a time, with every
\* failure of the network, the disk and the processes.
CONSTANTS
    MaxCommands = 4
    MaxTogether = 2
    Kinds = {"login", "logout", "job"}
    Faults = {"network", "disk", "kill", "expire", "end"}
    None = None
SPECIFICATION CliSpec
CHECK_DEADLOCK FALSE
INVARIANTS SavedSessionUsable LogoutIsFinal
PROPERTIES DeadSessionGoes
