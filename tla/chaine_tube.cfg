SPECIFICATION Spec
CONSTANTS
    sizelgcmd = 40
    sizeWord = 37
    Caracteres <- CaracteresEnonce
    Lignes <- LignesEnonce
INVARIANT TubeSansBlanc
