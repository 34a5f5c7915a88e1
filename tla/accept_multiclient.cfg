SPECIFICATION Spec
CONSTANTS
    SOMAXCONN = 4
    MaxSockets = 3
    CreateEchoue = FALSE
    DetachPlante = FALSE
INVARIANT UnFilParClient
