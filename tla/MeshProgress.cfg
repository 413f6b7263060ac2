SPECIFICATION Spec
PROPERTIES
    StreamIsForgotten
    
    WritesOn
    FailureIsRetried
    GossipSettles
CHECK_DEADLOCK FALSE
