CONSTANTS
    Cmds <- MCCmds
    MaxData = 2
    MaxLoss = 1
    MaxDup = 1
    MaxReorder = 1
SPECIFICATION Spec
PROPERTIES CommandEnds
CHECK_DEADLOCK FALSE
