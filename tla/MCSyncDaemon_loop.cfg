SPECIFICATION Spec
CONSTANTS
    Stages <- MCStages
    Parts <- MCParts
    Committing = "breakdown"
    Unavailable = Unavailable
    Gone = Gone
    MaxVersion = 1
    MaxCommands = 1
CHECK_DEADLOCK FALSE
INVARIANT TypeOK
PROPERTY ChangesShow
PROPERTY KeepsServing
PROPERTY QuietUnlessCommitting
