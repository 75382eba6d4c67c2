SPECIFICATION FairSpec
CONSTANTS
    Request = {r1, r2}
    Base = 2
    MaxAnswer = 3
    ThreadLimits = {1, 2}
    MaxDatagram = 2
    NoReply = NoReply
INVARIANT RepliesAreAnswers
PROPERTIES AnswersForwarded ThreadsEnd
CHECK_DEADLOCK FALSE
