SPECIFICATION HostSpec
CONSTANTS
    main = main
    handler = handler
    junk = junk
    Pcs <- OnePc
    Data <- junk
    VectorTables <- OneTable
    Flags = {}
    SspTop = 2
    MemTop = 3
    Levels = {7}
    GuestSr <- AnySr
    HandlersUnmask = TRUE
    Traps = {6, 8}
    CpuHasVbr = TRUE
    GuestBases = {"zero", "hole"}
    GuestMasks <- NoneOrAll
    OverlayStates = {TRUE}
\* An error in a tick ends the process.
CHECK_DEADLOCK FALSE
PROPERTIES SupervisorStackKept NoInterruptLost StopWakes
