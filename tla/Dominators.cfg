SPECIFICATION DomSpec
CONSTANTS
    NBlocks = 4
    Lists <- UpToTwo
    MaxChanges = 1
INVARIANTS
    
    RpoTopological
    DominatorsRight
PROPERTY
    DomTerminates
