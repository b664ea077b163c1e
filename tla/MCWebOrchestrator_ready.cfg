SPECIFICATION Spec
CONSTANTS
    s1 = s1
    s2 = s2
    o1 = o1
    o2 = o2
    Sends <- WebSends
    Inbound <- WebInbound
    None = None
    Workloads <- OneSend
    Overlap = FALSE
INVARIANT ReadySuffices
CHECK_DEADLOCK FALSE
