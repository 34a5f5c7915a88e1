SPECIFICATION FairSpec
CONSTANTS
    p1 = p1
    p2 = p2
    p3 = p3
    Pids <- MCPids
    Programmes <- MCProgrammes
    Lignes <- MCLignes
    Ecrit <- MCEcrit
    Lit <- MCLit
    Retours <- MCRetours
    PipeCap = 4
    MaxTubes = 2
    ForkEchoue = TRUE
CHECK_DEADLOCK FALSE
INVARIANTS
    TypeOK
    AucunFilsAInvite
    AttentesSuffisent
    PipelineSequentiel
    StatutPipeline
    PipelineBranche
PROPERTIES
    TientPromesse
    LigneSaineFinit
