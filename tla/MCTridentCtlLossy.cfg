CONSTANTS
    Cmds <- MCCmds
    MaxData = 2
    MaxLoss = 1
    MaxDup = 0
    MaxReorder = 0
SPECIFICATION Spec
INVARIANTS TypeOK NoUnreachable PrintsSurvivorsInOrder
CHECK_DEADLOCK FALSE
