SPECIFICATION FairSpec
CONSTANTS
    ui = ui
    peer = peer
    Frontends = {ui, peer}
    FrontendOps <- DeviceOps
    CoreOps <- DeviceCoreOps
INVARIANT InterruptExclusion
PROPERTIES CallsAnswered EndReached
