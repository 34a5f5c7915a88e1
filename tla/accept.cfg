SPECIFICATION Spec
CONSTANTS
    SOMAXCONN = 4
    MaxSockets = 3
    CreateEchoue = TRUE
    DetachPlante = TRUE
INVARIANTS
    TypeOK
    IndexBorne
    JamaisVide
PROPERTY OrdreDesLectures
