CONSTANTS
    W = 14
    Half = 8192
    MAX_BLOCKS = 6
    Regs = {0, 1, 2, 5, 6, 8, 10, 11, 17}
    Wide = 1048576
    STEP_CAP = 40
    Outcomes = {0, 3}
    Fuel = 10
    Objects <- MCObjects
SPECIFICATION Spec
INVARIANTS
    FixtureVerdicts
    DominatorsRight
    FixpointReached
    AcceptedLoopsGated
    AbstractCovers
    StackInFrame
    CallsAllowed
    PortsAgree
    ZephyrSound
    JitAgrees
    DomainSound
    ExitStatus
