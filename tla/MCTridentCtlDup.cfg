CONSTANTS
    Cmds <- MCCmds
    MaxData = 2
    MaxLoss = 0
    MaxDup = 1
    MaxReorder = 0
SPECIFICATION Spec
INVARIANTS NoUnreachable
CHECK_DEADLOCK FALSE
