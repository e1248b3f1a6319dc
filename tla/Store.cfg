CONSTANTS
    Switches = {lamp, pump}
    Blinds = {blind}
    Levels = {on, off}
    Level0 = off
    Absent = absent
    Torn = torn
SPECIFICATION Spec
INVARIANTS SwitchesSurvive BlindsSurvive
