SPECIFICATION FairSpec
CONSTANTS
    MaxPid = 2
    MaxInc = 2
    Genres <- MCGenres
INVARIANTS
    TypeOK
    ListeComplete
    UnSeulProcessus
    LigneFidele
    EchecJustifie
PROPERTY Termine
