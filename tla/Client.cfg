SPECIFICATION ClientSpec
CONSTANTS
    Commands <- MCCommands
    MaxLines = 2
INVARIANTS
    ExitTells
    OffersResolve
    ArgumentsFit
PROPERTY
    ClientMovesOn
