CONSTANTS
    a = a
    b = b
    on = on
    off = off
    Absent = Absent
    Unset = Unset
    Broken = Broken
    Option <- Options
    Value <- Values
    Lower <- LowerValues
    Valid <- Accepted
    Editable <- Open
SPECIFICATION Spec
PROPERTIES
    EditsLostOnlyByChoice
