CONSTANTS
    a1 = a1
    a2 = a2
    q1 = q1
    q2 = q2
    NoCall = NoCall
    Calls <- TwoCalls
    Questions <- TwoQuestions
    Buf = 1
SPECIFICATION OrderedSpec
INVARIANTS TypeOK AnsweredOnce NoOrphan
PROPERTIES ImplementsRequestReply CallsAndQuestionsEnd
CHECK_DEADLOCK FALSE
