SPECIFICATION Spec
CONSTANTS
    Decoded <- Representatives
    MaxBlock = 4
INVARIANTS TypeOK LiveFlagsAgree BlocksFollowSteps
