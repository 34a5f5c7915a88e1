SPECIFICATION Spec
CONSTANTS
    sizelgcmd = 22
    sizeWord = 22
    Caracteres <- MCCaracteres
    Lignes <- MCLignes
INVARIANTS
    TypeOK
    CurseurEnFin
    RienPerdu
    Decoupe
    ArgumentGarde
