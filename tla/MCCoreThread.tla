---------------------------- MODULE MCCoreThread ----------------------------
(* Instances of CoreThread: who calls what in each run. *)
EXTENDS CoreThread

CONSTANTS ui, peer    \* the user interface, the thread of a linked player

Ops(uiOps, peerOps) == [t \in Frontends |-> IF t = ui THEN uiOps ELSE peerOps]
OnlyUI(ops) == Ops(ops, {"StopWaiting"})

\* Everything the user interface calls, a machine that may crash or shut down, the
\* callbacks of a linked player, and callbacks that interrupt their own thread.
ControlOps     == OnlyUI(FrontendOpNames)
ControlCoreOps == {"crash", "shutdown", "PauseFromThread", "WaitFromThread", "SetSync",
                   "InterruptFromThread"}

\* The machine posts frames and produces samples, so it may be asleep in either; its
\* callbacks, and those of the linked player, turn its switches at any time.
DeviceOps     == Ops({"Interrupt", "Continue", "Reset", "Pause", "Unpause",
                      "End", "Join"}, {"SetSync"})
DeviceCoreOps == {"PostFrame", "ProduceAudio", "shutdown", "PauseFromThread", "SetSync"}

\* The same callbacks beside a frontend that interrupts, and no crash.
SelfOps     == OnlyUI({"Interrupt", "Continue", "Pause", "TogglePause", "End", "Join"})
SelfCoreOps == {"shutdown", "PauseFromThread", "WaitFromThread", "InterruptFromThread"}

\* A linked player's core switches its own sync while the user interface waits for it.
SyncOps     == OnlyUI({"Interrupt", "Continue", "Pause", "Unpause"})
SyncCoreOps == {"ProduceAudio", "SetSync"}
=============================================================================
