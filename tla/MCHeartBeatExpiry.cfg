\* Is a timed-out session found and expired, as the comment says?
SPECIFICATION Spec
CONSTANTS
    HandlerThreads = {"other"}
    MaxBeats = 1
PROPERTIES
    TimedOutSessionExpires
CHECK_DEADLOCK FALSE
