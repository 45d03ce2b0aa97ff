SPECIFICATION Spec
CONSTANTS
    main = main
    handler = handler
    junk = junk
    Pcs <- MCPcs
    Data <- junk
    VectorTables <- MCVectorTables
    Flags = {"z"}
    SspTop = 4
    MemTop = 4
    Levels = {2, 5}
    GuestSr <- SupervisorSr
    HandlersUnmask = FALSE
    Traps = {6, 8}
    CpuHasVbr = FALSE
    GuestBases = {"zero"}
    GuestMasks <- NoMasks
    OverlayStates = {TRUE}
INVARIANTS TypeOK StackInvariant MaskCoversHandlers LevelsNest
PROPERTY ResumesSuspended
