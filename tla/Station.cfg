SPECIFICATION Spec
CONSTANTS
    MaxCables = 1
    PortIndex = 0
    MaxTransfers = 2
    MaxPlugs = 2
INVARIANTS TypeOK NoFalseLoss HarmlessDismissal NothingLeftRunning
PROPERTIES StopReturns PresenceSettles
CHECK_DEADLOCK FALSE
