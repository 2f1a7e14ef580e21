CONSTANTS
    a1 = a1
    a2 = a2
    q1 = q1
    q2 = q2
    NoCall = NoCall
    Calls <- OneCall
    Questions <- TwoQuestions
    Buf = 2
SPECIFICATION Safety
INVARIANT AskedWhatIsOpen
CHECK_DEADLOCK FALSE
