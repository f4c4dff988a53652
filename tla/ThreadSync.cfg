SPECIFICATION Spec
CONSTANTS
    ui = ui
    peer = peer
    Frontends = {ui}
    FrontendOps <- SyncOps
    CoreOps <- SyncCoreOps
PROPERTY SyncKept
