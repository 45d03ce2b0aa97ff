SPECIFICATION Spec
CONSTANTS
    Names = {"loop", "b1"}
    Reading <- Digits
    Top = 31
    Near = 8
    Short = 2
    Lines <- Forms
    MaxLines = 3
    Starts = {4}
    Absent = {12}
INVARIANTS TypeOK PassesAgree ReferencesLand
CHECK_DEADLOCK FALSE
