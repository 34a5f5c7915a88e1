SPECIFICATION FairSpec
CONSTANTS
    p1 = p1
    p2 = p2
    p3 = p3
    Pids <- MCPids
    Programmes <- MCProgrammes
    Lignes <- LignesPipe
    Ecrit <- MCEcrit
    Lit <- MCLit
    Retours <- MCRetours
    PipeCap = 3
    MaxTubes = 2
    ForkEchoue = FALSE
CHECK_DEADLOCK FALSE
PROPERTY LigneSeTermine
