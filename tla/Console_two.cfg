SPECIFICATION Spec
CONSTANTS
    Rows = 4
    Cols = 2
    Base = 6
    VideoCells = 12
    Visible = {M}
    Blank = Blank
    LF = LF
    BS = BS
    Control = {}
    Radix = 2
    Digits = 2
    Numbers = {}
    Targets = {}
    Writer = {main, kthread_a}
INVARIANT
    CursorInRange
CHECK_DEADLOCK FALSE
