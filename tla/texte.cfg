SPECIFICATION FairTexte
CONSTANTS
    sizelgcmd = 14
    sizeWord = 14
    MaxPile = 1
    Caracteres <- MCCaracteres
    Lignes <- MCLignes
    Repertoires <- MCRepertoires
INVARIANTS
    TypeTexte
    DernieresValeurs
    MortSiIndefinie
PROPERTY LigneFinit
