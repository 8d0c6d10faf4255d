\* The queue and flush goroutines with producers and a shutdown.  The
\* process stops once both goroutines have returned.
CONSTANTS
    AggMsgs <- MCAggMsgs
    DirectMsgs <- MCDirectMsgs
    MaxBuffer <- MCMaxBuffer
    MsgType <- MCMsgType
SPECIFICATION Spec
CHECK_DEADLOCK FALSE
INVARIANT TypeOK
PROPERTY ImplementsDelivery
PROPERTY EnqueuedEventuallyHandled
