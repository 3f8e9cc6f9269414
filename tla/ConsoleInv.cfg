SPECIFICATION XSpec
CONSTANTS
    Rows = 6
    Cols = 3
    Base = 8
    VideoCells = 22
    Visible = {0, 1}
    Blank = Blank
    LF = LF
    BS = BS
    Control = {LF, BS}
    Radix = 2
    Digits = 2
    Numbers = {0, 1, 2}
    Targets = {0, 4}
    Writer = {main}
    MaxCalls = 2
    MessageRows = 4
    Indent = 1
    PageFault = PF
    Vectors = {GP, PF}
    Begin = 1
    Name = 0
    End = 1
INVARIANTS
    IInv
    NumbersInv
    MessageInv
CHECK_DEADLOCK FALSE
