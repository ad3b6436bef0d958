\* A handler that writes up to three times: a header, a body and a flush.
CONSTANTS
    MaxWrites = 3
SPECIFICATION FairSpec
\* Everybody may be done, or the process dead.
CHECK_DEADLOCK FALSE
INVARIANTS ToldIsWritten AnswerComplete ChannelPanicsNeedTimeout ResponseInv
PROPERTIES RequestEnds HandlerReturns
