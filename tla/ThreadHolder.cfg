SPECIFICATION Spec
CONSTANTS
    ui = ui
    peer = peer
    Frontends = {ui}
    FrontendOps <- SelfOps
    CoreOps <- SelfCoreOps
INVARIANT MachineStandsWhileHeld
