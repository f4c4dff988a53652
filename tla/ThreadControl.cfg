SPECIFICATION Spec
CONSTANTS
    ui = ui
    peer = peer
    Frontends = {ui, peer}
    FrontendOps <- ControlOps
    CoreOps <- ControlCoreOps
INVARIANTS TypeOK NoLostRequest PausedMachineStands DepthCountsHolders
PROPERTIES RequestServedOnReturn ExitIsFinal InterruptKept
