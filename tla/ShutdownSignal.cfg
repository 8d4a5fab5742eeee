SPECIFICATION FairProcess
PROPERTIES InterruptEndsProcess
CHECK_DEADLOCK FALSE
