SPECIFICATION XSpec
CONSTANTS
    Rows = 6
    Cols = 3
    Base = 8
    VideoCells = 22
    Visible = {0, 1}
    Blank = Blank
    LF = LF
    BS = BS
    Control = {}
    Radix = 2
    Digits = 1
    Numbers = {1}
    Targets = {0, 4}
    Writer = {main, kthread_a}
    MaxCalls = 2
    MessageRows = 4
    Indent = 1
    PageFault = PF
    Vectors = {PF}
    Begin = 1
    Name = 0
    End = 1
INVARIANT
    MessageShown
CHECK_DEADLOCK FALSE
