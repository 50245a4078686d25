SPECIFICATION Spec
CONSTANT MaxCalls = 2
INVARIANTS OriginalsKept AnswerIsTrue LeftoversUntouched
CHECK_DEADLOCK FALSE
