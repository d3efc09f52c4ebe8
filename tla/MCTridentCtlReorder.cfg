CONSTANTS
    Cmds <- MCCmds
    MaxData = 2
    MaxLoss = 0
    MaxDup = 0
    MaxReorder = 1
SPECIFICATION Spec
INVARIANTS NoUnreachable
CHECK_DEADLOCK FALSE
