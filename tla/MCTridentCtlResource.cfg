CONSTANTS
    Cmds <- MCCmds
    MaxData = 2
    MaxLoss = 0
    MaxDup = 0
    MaxReorder = 0
SPECIFICATION Spec
INVARIANTS WatcherAsksForResource
CHECK_DEADLOCK FALSE
