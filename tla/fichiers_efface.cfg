SPECIFICATION MCSpec
CONSTANTS
    Noms = {1, 2, 3}
    Caches = {3}
    Retirables = {1, 2}
    Blocs = 2
    MaxInt = 5
    Commandes <- MCCommandes
    Restes <- MCRestes
INVARIANT EffaceAncien
