SPECIFICATION Spec
CONSTANTS
    Top = 31
    Span <- SmallSpan
    Radix = 4
    Cells = 2
    FirstTime = 15
    LastTime = 17
    RomImage <- SmallImage
    Attached = {"rtc", "video", "spare"}
    Accessed <- Registers
    Data <- Stores
    Files <- Lines
    Shown = 2
INVARIANTS TypeOK
PROPERTIES SecondsRead CursorStored
