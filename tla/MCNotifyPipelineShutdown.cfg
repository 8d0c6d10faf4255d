\* The final flush against a queue goroutine still draining.
CONSTANTS
    AggMsgs <- MCAggMsgs
    DirectMsgs <- MCDirectMsgs
    MaxBuffer <- MCMaxBuffer
    MsgType <- MCMsgType
SPECIFICATION Spec
CHECK_DEADLOCK FALSE
INVARIANT ShutdownLosesNothing
