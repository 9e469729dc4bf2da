CONSTANTS
    BlockCapacity = 3
    ScratchCount = 8
    MaxCount = 9
    Handles = {h1, h2}
    NoHandle = NoHandle
SPECIFICATION Spec
CONSTRAINT Explored
INVARIANTS
    TypeOK
    Regions
    Contents
    ChainExtent
    PlansSucceed
    AggregateCorrect
PROPERTY
    ImplementsWindow
