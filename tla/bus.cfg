SPECIFICATION Spec
CONSTANTS
    Top = 31
    Span <- SmallSpan
    Radix = 4
    Cells = 2
    FirstTime = 15
    LastTime = 15
    RomImage <- SmallImage
    Attached = {"spare"}
    Accessed <- Edges
    Data <- Values
    Files <- Images
    Shown = 2
PROPERTIES ImplementsMemory
