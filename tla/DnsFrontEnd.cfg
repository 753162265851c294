CONSTANTS
    r1 = r1
    r2 = r2
    Capacity = 1
    Requests <- MCRequests
    Failing = {"insert"}
    OverTLS <- MCOverTLS
    Questions <- MCQuestions
    Unreadable = unreadable
    NoQuestion = noQuestion
    Blocked = {"bad", "odd"}
    Odd = {"odd"}
    Strategy = "sinkhole"
    PageIP = "v4"
SPECIFICATION DnsFairSpec
INVARIANTS AcceptedIsWritten  NothingLeftBehind NoHandlerWaits
PROPERTIES EveryQueryAnswered ShutdownEnds
CHECK_DEADLOCK FALSE
