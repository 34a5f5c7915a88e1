SPECIFICATION FairSpec
CONSTANTS
    c1 = c1
    c2 = c2
    p1 = p1
    p2 = p2
    Clients <- MCClients
    Pids <- MCPids
    Commandes <- MCCommandes
    Interruptibles <- MCClients
    ForkEchoue = TRUE
INVARIANTS
    TypeOK
    EnfantsComptes
    AuthAvantExecution
    PasAPas
    DemonVit
PROPERTIES
    RendService
    ClientRepart
