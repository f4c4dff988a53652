----------------------------- MODULE CoreThread -----------------------------
(***************************************************************************)
(* The emulator core thread (src/core/thread.c) and the frame and audio    *)
(* synchronisation it blocks in (src/core/sync.c).                         *)
(*                                                                         *)
(* One thread runs the emulated machine.  Frontend threads (the user       *)
(* interface, the threads of linked players) steer it through stateMutex:  *)
(* they interrupt it, pause it, make it reset or run a function, end it.   *)
(* A renderer takes its frames, an audio device its samples.               *)
(*                                                                         *)
(* A section under stateMutex with no wait inside is one action, and so is *)
(* a section under one of the two sync mutexes.  A ConditionWait ends the  *)
(* action; its wake-up starts another.  ConditionWake is a broadcast       *)
(* (pthread_cond_broadcast).  The core reads `state` without the mutex on  *)
(* lines 326 and 337, and these reads are actions of their own.            *)
(***************************************************************************)
EXTENDS Integers, FiniteSets

CONSTANTS
    Frontends,     \* the threads that call the mCoreThread API from outside
    FrontendOps,   \* FrontendOps[t]: the operations thread t calls
    CoreOps        \* what the code run by the core thread does to its own thread

FrontendOpNames ==
    {"Interrupt", "Continue", "Reset", "RunFunction", "Pause", "Unpause",
     "TogglePause", "StopWaiting", "MarkCrashed", "ClearCrashed",
     "SetRewinding", "End", "Join", "SetSync"}

CoreOpNames ==
    {"PostFrame", "ProduceAudio", "crash", "shutdown", "PauseFromThread",
     "WaitFromThread", "InterruptFromThread", "SetSync"}

ASSUME OpsAssumption ==
    /\ FrontendOps \in [Frontends -> SUBSET FrontendOpNames]
    /\ CoreOps \subseteq CoreOpNames

ASSUME FrontendsAssumption == IsFiniteSet(Frontends)

VARIABLES
    state,            \* impl->state
    requested,        \* impl->requested, the set of its bits
    interruptDepth,   \* impl->interruptDepth
    run,              \* threadContext->run: the frontend whose function it is, or "none"
    core,             \* where the core thread is
    pending,          \* its local pendingRequests
    wasPaused,        \* its local wasPaused
    todo,             \* the deferred callbacks it has yet to run
    coreHolds,        \* the core thread itself holds an interrupt
    pc, op,           \* where each frontend is, and in which operation ("none" when idle)
    saved,            \* its locals videoFrameWait and audioWait of _waitPrologue
    holds,            \* it has an interrupt of its own to continue
    videoFrameWait, audioWait,   \* the two switches of mCoreSync
    framePending,     \* sync.videoFramePending is not 0
    audioFull,        \* the audio buffer holds as many samples as it may
    renderer,         \* where the renderer is
    served,           \* history: frontends whose Reset or RunFunction was executed
    turned            \* history: {}, or what the two switches were set to since they were
                      \* last turned off for a caller that polls or for the end

threadVars == <<state, requested, interruptDepth, run>>
coreLocals == <<pending, wasPaused, todo>>
coreVars   == <<core, pending, wasPaused, todo, coreHolds>>
callerVars == <<pc, op, saved, holds>>
waitFlags  == <<videoFrameWait, audioWait>>
avVars     == <<framePending, audioFull, renderer>>
history    == <<served, turned>>
vars == <<threadVars, coreVars, callerVars, waitFlags, avVars, history>>

States   == {"initialized", "running", "request", "interrupted", "paused",
             "crashed", "interrupting", "exiting", "shutdown"}
Waiting  == {"interrupted", "paused", "crashed"}     \* MIN_WAITING .. MAX_WAITING
Ended    == {"exiting", "shutdown"}                  \* >= mTHREAD_EXITING
Active   == {"running", "request", "interrupted", "paused", "interrupting"}
Interrupts == {"interrupted", "interrupting"}
Requests == {"PAUSE", "WAIT", "RESET", "RUN_ON"}
Todos    == {"paused", "unpaused", "RESET", "resetCallback", "RUN_ON"}

CorePlaces ==
    {"boot", "check", "loop", "runLoop", "postFrame", "postFrameWoken",
     "produceAudio", "produceAudioWoken", "lock", "parked", "woken",
     "parkedAudio", "parkedAudioWoken", "relock", "callbacks", "exit", "done"}

\* The places in the wait of lines 343-378, where no emulated code can run.
Parked == {"parked", "woken", "parkedAudio", "parkedAudioWoken", "relock"}

FrontendPlaces == {"idle", "asleep", "woken", "poll", "ending", "gone"}
RendererPlaces == {"idle", "waiting", "notified", "drawing"}
Settings == [video : BOOLEAN, audio : BOOLEAN]       \* of the two switches
BothOff  == [video |-> FALSE, audio |-> FALSE]

Drawing == renderer = "drawing"      \* the renderer holds videoFrameMutex

Init ==
    /\ state = "initialized" /\ requested = {} /\ interruptDepth = 0 /\ run = "none"
    /\ core = "boot" /\ pending = {} /\ wasPaused = FALSE /\ todo = {} /\ coreHolds = FALSE
    /\ pc = [t \in Frontends |-> "idle"] /\ op = [t \in Frontends |-> "none"]
    /\ saved = [t \in Frontends |-> BothOff]
    /\ holds = [t \in Frontends |-> FALSE]
    /\ videoFrameWait \in BOOLEAN /\ audioWait \in BOOLEAN     \* the core's options
    /\ framePending = FALSE /\ audioFull = FALSE /\ renderer = "idle"
    /\ served = {} /\ turned = {}

----------------------------------------------------------------------------
(* Condition variables: who a broadcast moves.                             *)

Moved(place, from, to) == IF place = from THEN to ELSE place

WakeState(c)    == Moved(c, "parked", "woken")
WakeRequired(c) == Moved(c, "postFrame", "postFrameWoken")
WakeAudio(c)    == Moved(Moved(c, "produceAudio", "produceAudioWoken"),
                         "parkedAudio", "parkedAudioWoken")

\* Frontends asleep in _waitOnInterrupt wait on stateCond too.
WokenFrontends == [t \in Frontends |-> Moved(pc[t], "asleep", "woken")]

WakeRenderer == renderer' = Moved(renderer, "waiting", "notified")

----------------------------------------------------------------------------
(* Helpers of thread.c.                                                    *)

\* Mutant of Poked: an exiting thread is poked as well.
PokedWhenExiting(s) == IF s \in {"running", "paused", "crashed", "exiting"} THEN "request" ELSE s

\* _pokeRequest: the state after it.
Poked(s) == IF s \in {"running", "paused", "crashed"} THEN "request" ELSE s

\* mCoreThreadIsActive
IsActive == state \in Active

\* The request an operation waits on.
Bit(o) == IF o = "Reset" THEN "RESET" ELSE "RUN_ON"

\* The switches become s; this is kept in mind while somebody of `callers` polls or
\* the thread is ended.
Turn(callers, s) ==
    /\ videoFrameWait' = s.video /\ audioWait' = s.audio
    /\ turned' = IF state \in Ended \/ \E u \in callers : pc[u] = "poll" THEN {s} ELSE {}

TurnOff == videoFrameWait' = FALSE /\ audioWait' = FALSE /\ turned' = {}

\* Mutant of WaitPrologue: the switches are kept, and left on.
WaitPrologueLeavesSync(t) ==
    /\ ~Drawing
    /\ saved' = [saved EXCEPT ![t] = [video |-> videoFrameWait, audio |-> audioWait]]
    /\ turned' = {} /\ UNCHANGED waitFlags

\* _waitPrologue: keep the two switches and turn them off.
WaitPrologue(t) ==
    /\ ~Drawing
    /\ saved' = [saved EXCEPT ![t] = [video |-> videoFrameWait, audio |-> audioWait]]
    /\ TurnOff

\* _waitEpilogue: put them back.
WaitEpilogue(t) ==
    /\ ~Drawing
    /\ Turn(Frontends \ {t}, saved[t])
    /\ saved' = [saved EXCEPT ![t] = BothOff]         \* out of scope

\* Mutant of WaitOver: an interrupt is granted as soon as the core thread is not RUNNING.
WaitOverEarly(o, s, r) ==
    CASE o \in {"Reset", "RunFunction"} -> Bit(o) \notin r
      [] o = "Interrupt" -> s # "running"
      [] OTHER -> s # "request"

\* The condition of the while of _waitOnRequest and _waitUntilNotState, negated.
WaitOver(o, s, r) ==
    CASE o \in {"Reset", "RunFunction"} -> Bit(o) \notin r
      [] o = "Interrupt" -> s # "interrupting"
      [] OTHER -> s # "request"

----------------------------------------------------------------------------
(* Frontend operations.  Each is the section from MutexLock to the return, *)
(* or to the first place where it gives stateMutex away.                   *)

\* The operations that start with _waitOnInterrupt.
WaitsOnInterrupt == {"Reset", "RunFunction", "Pause", "TogglePause", "End"}

Joined == \E t \in Frontends : pc[t] = "gone"

\* t may call o: once mCoreThreadStart has returned and before the thread is
\* joined.  A thread that holds an interrupt does not call an operation that
\* would wait for the end of it.  Nor, here, does it interrupt once more: Qt does
\* (a Python session keeps its Interrupter while setAudioKillswitch takes another,
\* CoreController.cpp:731), but a nested interrupt finds interruptDepth > 1 and
\* returns at once, and its continue only counts down again.
MayCall(t, o) ==
    /\ o \in FrontendOps[t] /\ state # "initialized" /\ ~Joined
    /\ pc[t] = "idle" \/ (pc[t] = "woken" /\ op[t] = o)
    /\ o \in WaitsOnInterrupt => ~holds[t]

Enter(t, o) ==
    /\ MayCall(t, o)
    /\ o \in WaitsOnInterrupt => state \notin Interrupts
    /\ UNCHANGED <<coreLocals, coreHolds, avVars>>

\* t goes to `place` in operation o; `places` are the frontends' places before,
\* pc or, where the section wakes stateCond, WokenFrontends.
Go(places, t, place, o) ==
    /\ pc' = [places EXCEPT ![t] = place]
    /\ op' = [op EXCEPT ![t] = o]

\* _waitOnInterrupt finds an interrupt and sleeps on stateCond.
SleepOnInterrupt(t, o) ==
    /\ MayCall(t, o) /\ o \in WaitsOnInterrupt /\ state \in Interrupts
    /\ Go(pc, t, "asleep", o)
    /\ UNCHANGED <<threadVars, coreVars, saved, holds, waitFlags, avVars, history>>

Back(t) == Go(pc, t, "idle", "none")

\* ConditionWake(&stateCond), and t returns.
WakeAndReturn(t) == Go(WokenFrontends, t, "idle", "none") /\ core' = WakeState(core)

\* Either the loop of the wait is over at once, or t unlocks and polls.
WaitFrom(places, t, o) ==
    IF WaitOver(o, state', requested')
    THEN /\ ~Drawing /\ Go(places, t, "idle", "none")
         /\ UNCHANGED <<saved, waitFlags, turned>>
    ELSE /\ WaitPrologue(t) /\ Go(places, t, "poll", o)

Send(bit)   == requested' = requested \cup {bit} /\ state' = Poked(state)
Cancel(bit) == requested' = requested \ {bit} /\ state' = Poked(state)

\* Mutant of Deeper: an interrupt of an inactive thread is not counted.
DeeperWhenActive == interruptDepth' = IF IsActive THEN interruptDepth + 1 ELSE interruptDepth

Deeper == interruptDepth' = interruptDepth + 1

Interrupt(t) ==
    /\ Enter(t, "Interrupt") /\ ~holds[t]
    /\ Deeper
    /\ IF interruptDepth' > 1 \/ ~IsActive
       THEN /\ Back(t) /\ holds' = [holds EXCEPT ![t] = TRUE]
            /\ UNCHANGED <<state, saved, waitFlags, turned>>
       ELSE /\ state' = "interrupting"
            /\ WaitPrologue(t) /\ Go(pc, t, "poll", "Interrupt")
            /\ UNCHANGED holds
    /\ UNCHANGED <<requested, run, core, served>>

\* Mutant of Resumes: off by one, the last interrupt but one resumes the thread.
ResumesEarly == interruptDepth' < 2 /\ IsActive

\* mCoreThreadContinue, called by a frontend or by the core thread.
Resumes == interruptDepth' < 1 /\ IsActive

\* Mutant of ContinueState: requests made meanwhile are forgotten.
ContinueRunning ==
    /\ interruptDepth' = interruptDepth - 1
    /\ state' = IF Resumes THEN "running" ELSE state

ContinueState ==
    /\ interruptDepth' = interruptDepth - 1
    /\ state' = IF ~Resumes THEN state ELSE IF requested # {} THEN "request" ELSE "running"

Continue(t) ==
    /\ Enter(t, "Continue") /\ holds[t]
    /\ ContinueState
    /\ IF Resumes THEN WakeAndReturn(t) ELSE Back(t) /\ UNCHANGED core
    /\ holds' = [holds EXCEPT ![t] = FALSE]
    /\ UNCHANGED <<requested, run, saved, waitFlags, history>>

Reset(t) ==
    /\ Enter(t, "Reset")
    /\ Send("RESET") /\ WaitFrom(pc, t, "Reset")
    /\ served' = served \ {t}
    /\ UNCHANGED <<interruptDepth, run, core, holds>>

RunFunction(t) ==
    /\ Enter(t, "RunFunction")
    /\ run' = t
    /\ Send("RUN_ON") /\ WaitFrom(pc, t, "RunFunction")
    /\ served' = served \ {t}
    /\ UNCHANGED <<interruptDepth, core, holds>>

SendPause(t) ==
    /\ Send("PAUSE") /\ WaitFrom(pc, t, "Pause")
    /\ UNCHANGED <<interruptDepth, run, core, holds, served>>

CancelPause(t) ==
    /\ Cancel("PAUSE")
    /\ WaitFrom(WokenFrontends, t, "Unpause") /\ core' = WakeState(core)
    /\ UNCHANGED <<interruptDepth, run, holds, served>>

Pause(t) == Enter(t, "Pause") /\ SendPause(t)

Unpause(t) == Enter(t, "Unpause") /\ CancelPause(t)

TogglePause(t) ==
    /\ Enter(t, "TogglePause")
    /\ IF "PAUSE" \in requested THEN CancelPause(t) ELSE SendPause(t)

\* Called by the thread of a linked player (MultiplayerController::signal).
StopWaiting(t) ==
    /\ Enter(t, "StopWaiting")
    /\ Cancel("WAIT") /\ WakeAndReturn(t)
    /\ UNCHANGED <<interruptDepth, run, saved, holds, waitFlags, history>>

MarkCrashed(t) ==
    /\ Enter(t, "MarkCrashed")
    /\ state' = "crashed" /\ Back(t)
    /\ UNCHANGED <<requested, interruptDepth, run, core, saved, holds, waitFlags, history>>

\* mCoreThreadClearCrashed; mCoreThreadSetRewinding(TRUE) does the same to `state`.
LeaveCrash(t, o) ==
    /\ Enter(t, o)
    /\ IF state = "crashed" THEN state' = "request" /\ WakeAndReturn(t)
                            ELSE Back(t) /\ UNCHANGED <<state, core>>
    /\ UNCHANGED <<requested, interruptDepth, run, saved, holds, waitFlags, history>>

\* The first section of mCoreThreadEnd; EndSync is the other two.
End(t) ==
    /\ Enter(t, "End")
    /\ state' = "exiting"
    /\ Go(WokenFrontends, t, "ending", "End") /\ core' = WakeState(core)
    /\ UNCHANGED <<requested, interruptDepth, run, saved, holds, waitFlags, history>>

\* Mutant of SyncOff: only the frame wait is ended.
SyncOffVideoOnly == videoFrameWait' = FALSE /\ turned' = {} /\ UNCHANGED audioWait

SyncOff == TurnOff

EndSync(t) ==
    /\ pc[t] = "ending" /\ ~Drawing
    /\ SyncOff
    /\ core' = WakeAudio(WakeRequired(core)) /\ WakeRenderer
    /\ Back(t)
    /\ UNCHANGED <<threadVars, coreLocals, coreHolds, saved, holds, framePending, audioFull, served>>

\* mCoreThreadJoin returns; the other frontends are done with the thread by then.
Join(t) ==
    /\ Enter(t, "Join") /\ core = "done" /\ \A u \in Frontends : pc[u] = "idle"
    /\ Go(pc, t, "gone", "none")
    /\ UNCHANGED <<threadVars, core, saved, holds, waitFlags, history>>

\* CoreController::setSync, by any thread: setSync(FALSE) turns both switches off,
\* setSync(TRUE) turns each on or off as its option is then, so the outcome is any
\* setting.  It wakes a core asleep in mCoreSyncProduceAudio when that is to end,
\* but not one asleep in mCoreSyncPostFrame.  Its two writes are one step.
SetSyncTo(s) ==
    /\ Turn(Frontends, s)
    /\ core' = IF s.audio THEN core ELSE WakeAudio(core)

SetSync(t) ==
    /\ Enter(t, "SetSync")
    /\ \E s \in Settings : SetSyncTo(s)
    /\ Back(t)
    /\ UNCHANGED <<threadVars, saved, holds, served>>

\* One round of _wait: with stateMutex given away, wake whoever keeps the core
\* thread in the frame or audio wait (MutexTryLock: not while the renderer
\* draws), then lock it again, wake stateCond, and poke if the request is still there.
Poll(t) ==
    /\ pc[t] = "poll"
    /\ LET required == IF Drawing THEN core ELSE WakeRequired(core)
       IN core' = WakeState(WakeAudio(required))
    /\ pc' = WokenFrontends
    /\ state' = IF op[t] \in {"Reset", "RunFunction"} /\ Bit(op[t]) \in requested
                THEN Poked(state) ELSE state
    /\ UNCHANGED <<requested, interruptDepth, run, coreLocals, coreHolds, op, saved,
                   holds, waitFlags, avVars, history>>

\* The loop around _wait ends: _waitEpilogue, and the operation returns.
PollDone(t) ==
    /\ pc[t] = "poll" /\ WaitOver(op[t], state, requested)
    /\ WaitEpilogue(t) /\ Back(t)
    /\ holds' = [holds EXCEPT ![t] = @ \/ op[t] = "Interrupt"]
    /\ UNCHANGED <<threadVars, coreVars, avVars, served>>

----------------------------------------------------------------------------
(* The core thread.                                                        *)

\* ConditionWake(&stateCond) by the core thread.
WakeFrontends == pc' = WokenFrontends

\* core->reset, then _changeState(RUNNING): mCoreThreadStart returns after it.
Boot ==
    /\ core = "boot"
    /\ state' = "running" /\ WakeFrontends
    /\ core' = "callbacks" /\ todo' = {"resetCallback"}
    /\ UNCHANGED <<requested, interruptDepth, run, pending, wasPaused, coreHolds, op,
                   saved, holds, waitFlags, avVars, history>>

CoreGoes(place) ==
    /\ core' = place
    /\ UNCHANGED <<threadVars, coreLocals, coreHolds, callerVars, waitFlags, avVars, history>>

\* while (impl->state < mTHREAD_EXITING)
Check ==
    /\ core = "check"
    /\ CoreGoes(IF state \in Ended THEN "exit" ELSE "loop")

\* while (impl->state == mTHREAD_RUNNING) core->runLoop(core)
Loop ==
    /\ core = "loop"
    /\ CoreGoes(IF state = "running" THEN "runLoop" ELSE "lock")

\* Inside runLoop, and not inside a callback that holds an interrupt.
InMachine == core = "runLoop" /\ ~coreHolds

RunLoopReturns == InMachine /\ CoreGoes("loop")

\* mCoreSyncPostFrame, up to the ConditionWait when there is one.
PostFrame ==
    /\ "PostFrame" \in CoreOps /\ InMachine /\ ~Drawing
    /\ framePending' = TRUE /\ WakeRenderer
    /\ core' = IF videoFrameWait THEN "postFrame" ELSE core
    /\ UNCHANGED <<threadVars, coreLocals, coreHolds, callerVars, waitFlags, audioFull, history>>

PostFrameWoken ==
    /\ core = "postFrameWoken" /\ ~Drawing
    /\ IF videoFrameWait /\ framePending
       THEN core' = "postFrame" /\ WakeRenderer
       ELSE core' = "runLoop" /\ UNCHANGED renderer
    /\ UNCHANGED <<threadVars, coreLocals, coreHolds, callerVars, waitFlags, framePending,
                   audioFull, history>>

\* The samples of one audio event, then mCoreSyncProduceAudio.
ProduceAudio ==
    /\ "ProduceAudio" \in CoreOps /\ InMachine
    /\ audioFull' \in {audioFull, TRUE}
    /\ core' = IF audioWait /\ audioFull' THEN "produceAudio" ELSE core
    /\ UNCHANGED <<threadVars, coreLocals, coreHolds, callerVars, waitFlags, framePending,
                   renderer, history>>

AudioWaitOver == ~(audioWait /\ audioFull)

ProduceAudioWoken ==
    /\ core = "produceAudioWoken"
    /\ CoreGoes(IF AudioWaitOver THEN "runLoop" ELSE "produceAudio")

\* _crashed and _coreShutdown: _changeState from inside runLoop, whatever the state is.
ChangeStateInLoop(event, newState) ==
    /\ event \in CoreOps /\ InMachine
    /\ state' = newState /\ WakeFrontends
    /\ UNCHANGED <<requested, interruptDepth, run, coreVars, op, saved, holds, waitFlags,
                   avVars, history>>

Crash    == ChangeStateInLoop("crash", "crashed")
Shutdown == ChangeStateInLoop("shutdown", "exiting")

\* The next deferred callback, in the order of lines 399-426.
NextTodo ==
    CASE "paused" \in todo -> "paused" [] "unpaused" \in todo -> "unpaused"
      [] "RESET" \in todo -> "RESET"   [] "resetCallback" \in todo -> "resetCallback"
      [] OTHER -> "RUN_ON"

\* Where the frontend's own code runs on the core thread.
InUserCode ==
    \/ core = "runLoop"
    \/ core = "callbacks" /\ todo # {} /\ NextTodo \in {"resetCallback", "RUN_ON"}

\* Mutant of RequestFromThread: the pause is shown at once.
PauseAtOnceFromThread(o, bit) ==
    /\ o \in CoreOps /\ InUserCode
    /\ requested' = requested \cup {bit} /\ state' = "paused"
    /\ UNCHANGED <<interruptDepth, run, coreVars, callerVars, waitFlags, avVars, history>>

\* mCoreThreadPauseFromThread and mCoreThreadWaitFromThread.
RequestFromThread(o, bit) ==
    /\ o \in CoreOps /\ InUserCode
    /\ Send(bit)
    /\ UNCHANGED <<interruptDepth, run, coreVars, callerVars, waitFlags, avVars, history>>

PauseFromThread == RequestFromThread("PauseFromThread", "PAUSE")
WaitFromThread  == RequestFromThread("WaitFromThread", "WAIT")

InterruptFromThread ==
    /\ "InterruptFromThread" \in CoreOps /\ InUserCode /\ ~coreHolds
    /\ Deeper
    /\ IF interruptDepth' > 1 \/ ~IsActive
       THEN /\ state' = IF state = "interrupting" THEN "interrupted" ELSE state
            /\ UNCHANGED pc
       ELSE state' = "interrupting" /\ WakeFrontends
    /\ coreHolds' = TRUE
    /\ UNCHANGED <<requested, run, core, coreLocals, op, saved, holds, waitFlags, avVars, history>>

ContinueFromThread ==
    /\ coreHolds
    /\ ContinueState
    /\ IF Resumes THEN WakeFrontends ELSE UNCHANGED pc
    /\ coreHolds' = FALSE
    /\ UNCHANGED <<requested, run, core, coreLocals, op, saved, holds, waitFlags, avVars, history>>

SetSyncFromThread ==
    /\ "SetSync" \in CoreOps /\ InUserCode
    /\ \E s \in Settings : SetSyncTo(s)
    /\ UNCHANGED <<threadVars, coreLocals, coreHolds, callerVars, avVars, served>>

\* One turn of the loop of lines 343-378, with stateMutex.
Park == CoreGoes("parked")

BecomeInterrupted ==
    /\ state' = "interrupted" /\ WakeFrontends /\ core' = "parked"
    /\ UNCHANGED <<requested, interruptDepth, run, coreLocals, coreHolds, op, saved, holds,
                   waitFlags, avVars, history>>

\* Mutant of Left: RESET and RUN_ON are cleared before they are carried out.
LeftTooFew == requested \ {"RESET", "RUN_ON"}

\* Lines 380-381: what was carried out since the last turn is cleared.
Left == requested \ (pending \cap {"RESET", "RUN_ON"})

\* Lines 380-396, and the callbacks that are due after it.
Dispatch ==
    LET resumes == state = "request" /\ Left = {}
        pauses  == state = "request" /\ Left \cap {"PAUSE", "WAIT"} # {}
    IN  /\ requested' = Left /\ pending' = Left
        /\ state' = IF resumes THEN "running" ELSE IF pauses THEN "paused" ELSE state
        /\ IF resumes THEN WakeFrontends ELSE UNCHANGED pc
        /\ todo' = (IF ~wasPaused /\ "PAUSE" \in Left THEN {"paused"} ELSE {})
                   \cup (IF wasPaused /\ "PAUSE" \notin Left THEN {"unpaused"} ELSE {})
                   \cup (Left \cap {"RESET", "RUN_ON"})
        /\ wasPaused' = ("PAUSE" \in Left)
        /\ core' = "callbacks"
        /\ UNCHANGED <<interruptDepth, run, coreHolds, op, saved, holds, waitFlags, avVars, history>>

LockAndTest ==
    /\ core = "lock"
    /\ CASE state \in Waiting -> Park
         [] state = "interrupting" -> BecomeInterrupted
         [] OTHER -> Dispatch

\* After a wake-up the core thread first empties its audio wait, if there is one.
Woken ==
    /\ core = "woken"
    /\ CoreGoes(IF audioWait THEN "parkedAudioWoken" ELSE "relock")

ParkedAudioWoken ==
    /\ core = "parkedAudioWoken"
    /\ CoreGoes(IF AudioWaitOver THEN "relock" ELSE "parkedAudio")

Retest ==
    /\ core = "relock"
    /\ CASE state \in Waiting -> Park
         [] state = "interrupting" /\ ~(wasPaused /\ "PAUSE" \notin requested) -> BecomeInterrupted
         [] OTHER -> Dispatch

\* pthread_cond_wait may return without a broadcast.
SpuriousWake == core = "parked" /\ CoreGoes("woken")

RunCallback ==
    /\ core = "callbacks" /\ todo # {} /\ ~coreHolds
    /\ todo' = (todo \ {NextTodo}) \cup (IF NextTodo = "RESET" THEN {"resetCallback"} ELSE {})
    /\ served' = CASE NextTodo = "RESET" ->
                        served \cup {t \in Frontends : pc[t] = "poll" /\ op[t] = "Reset"}
                   [] NextTodo = "RUN_ON" -> served \cup {run}
                   [] OTHER -> served
    /\ UNCHANGED <<threadVars, core, pending, wasPaused, coreHolds, callerVars, waitFlags,
                   avVars, turned>>

CallbacksDone == core = "callbacks" /\ todo = {} /\ CoreGoes("check")

\* while (impl->state < mTHREAD_SHUTDOWN) _changeState(SHUTDOWN, false)
Exit ==
    /\ core = "exit"
    /\ state' = "shutdown" /\ core' = "done"
    /\ UNCHANGED <<requested, interruptDepth, run, coreLocals, coreHolds, callerVars,
                   waitFlags, avVars, history>>

----------------------------------------------------------------------------
(* The renderer and the audio device.                                      *)

\* mCoreSyncWaitFrameStart up to its wait, or to its return with the mutex held.
FrameStart ==
    /\ "PostFrame" \in CoreOps /\ renderer = "idle" /\ state # "initialized"
    /\ IF videoFrameWait
       THEN renderer' = "waiting" /\ core' = WakeRequired(core) /\ UNCHANGED framePending
       ELSE renderer' = "drawing" /\ framePending' = FALSE /\ UNCHANGED core
    /\ UNCHANGED <<threadVars, coreLocals, coreHolds, callerVars, waitFlags, audioFull, history>>

\* The timed wait ends, by a broadcast (the frame is taken) or after 50 ms (it is not).
FrameWaited ==
    /\ renderer \in {"waiting", "notified"}
    /\ framePending' = IF renderer = "notified" THEN FALSE ELSE framePending
    /\ renderer' = "drawing"
    /\ UNCHANGED <<threadVars, coreVars, callerVars, waitFlags, audioFull, history>>

FrameEnd ==
    /\ renderer = "drawing"
    /\ renderer' = "idle" /\ core' = WakeRequired(core)
    /\ UNCHANGED <<threadVars, coreLocals, coreHolds, callerVars, waitFlags, framePending,
                   audioFull, history>>

\* The device reads some of the samples (mCoreSyncConsumeAudio).
ConsumeAudio ==
    /\ "ProduceAudio" \in CoreOps /\ state # "initialized"
    /\ audioFull' \in {FALSE, audioFull}
    /\ core' = WakeAudio(core)
    /\ UNCHANGED <<threadVars, coreLocals, coreHolds, callerVars, waitFlags, framePending,
                   renderer, history>>

----------------------------------------------------------------------------
FrontendStep(t) ==
    \/ \E o \in WaitsOnInterrupt : SleepOnInterrupt(t, o)
    \/ Interrupt(t) \/ Continue(t) \/ Reset(t) \/ RunFunction(t)
    \/ Pause(t) \/ Unpause(t) \/ TogglePause(t) \/ StopWaiting(t)
    \/ MarkCrashed(t) \/ LeaveCrash(t, "ClearCrashed") \/ LeaveCrash(t, "SetRewinding")
    \/ End(t) \/ EndSync(t) \/ Join(t) \/ SetSync(t)
    \/ Poll(t) \/ PollDone(t)

\* What the core thread goes on to do by itself.
CoreProgress ==
    \/ Boot \/ Check \/ Loop \/ PostFrameWoken \/ ProduceAudioWoken
    \/ LockAndTest \/ Woken \/ ParkedAudioWoken \/ Retest
    \/ RunCallback \/ CallbacksDone \/ Exit

\* What the emulated machine and the code called from it may do.
CoreChoice ==
    \/ PostFrame \/ ProduceAudio \/ Crash \/ Shutdown \/ PauseFromThread
    \/ WaitFromThread \/ InterruptFromThread \/ SetSyncFromThread \/ SpuriousWake

CoreStep == CoreProgress \/ RunLoopReturns \/ ContinueFromThread \/ CoreChoice

DeviceStep == FrameStart \/ FrameWaited \/ FrameEnd \/ ConsumeAudio

\* The thread is joined: there is nothing left to do.
Terminated == Joined /\ UNCHANGED vars

Next == (\E t \in Frontends : FrontendStep(t)) \/ CoreStep \/ DeviceStep \/ Terminated

Spec == Init /\ [][Next]_vars

\* The frontends that call an operation that waits.
Callers == {t \in Frontends : FrontendOps[t] \ {"Continue", "StopWaiting", "SetSync"} # {}}

\* The core thread is scheduled, runLoop returns after a bounded batch of events
\* whatever happens in it, a thread in _wait keeps polling, and a mutex that is
\* given back over and over is obtained.  The renderer finishes its frames and its
\* wait has a timeout.  Nothing makes a frontend call, nor the audio device read.
Fairness ==
    /\ WF_vars(CoreProgress) /\ SF_vars(PostFrameWoken) /\ SF_vars(RunLoopReturns)
    /\ WF_vars(ContinueFromThread)
    /\ \A t \in Callers : WF_vars(Poll(t)) /\ SF_vars(PollDone(t)) /\ SF_vars(EndSync(t))
    /\ WF_vars(FrameWaited) /\ WF_vars(FrameEnd)

FairSpec == Spec /\ Fairness
----------------------------------------------------------------------------
(* Properties.                                                             *)

TypeOK ==
    /\ state \in States /\ requested \in SUBSET Requests /\ interruptDepth \in Nat
    /\ run \in Frontends \cup {"none"}
    /\ core \in CorePlaces /\ pending \in SUBSET Requests /\ wasPaused \in BOOLEAN
    /\ todo \in SUBSET Todos /\ coreHolds \in BOOLEAN
    /\ pc \in [Frontends -> FrontendPlaces] /\ op \in [Frontends -> FrontendOpNames \cup {"none"}]
    /\ saved \in [Frontends -> Settings]
    /\ holds \in [Frontends -> BOOLEAN]
    /\ videoFrameWait \in BOOLEAN /\ audioWait \in BOOLEAN
    /\ framePending \in BOOLEAN /\ audioFull \in BOOLEAN /\ renderer \in RendererPlaces
    /\ served \in SUBSET (Frontends \cup {"none"}) /\ turned \in SUBSET Settings

\* No request is left behind: while the state says RUNNING, so that the core
\* thread looks at no request, none is set.
NoLostRequest == state = "running" => requested = {}

\* The places where emulated code runs, or where it is stopped half-way.
Machine == {"runLoop", "postFrame", "postFrameWoken", "produceAudio", "produceAudioWoken"}

\* The state PAUSED is never shown while the machine is inside runLoop.
PausedMachineStands == state = "paused" => core \notin Machine

\* While one caller keeps its interrupt, no step but a crash lets the thread go
\* on, however many others give theirs back or send requests meanwhile.
InterruptKept ==
    [][(coreHolds /\ coreHolds') \/ (\E t \in Frontends : holds[t] /\ holds'[t])
         => (state \in Interrupts => state' \in Interrupts \cup Ended \cup {"crashed"})]_vars

\* Who holds an interrupt has the core thread in its wait, unless the core
\* thread is on its way out.
InterruptExclusion ==
    \A t \in Frontends : holds[t] => core \in Parked \/ state \in Ended

\* No emulated code runs while a caller holds an interrupt; a callback inside
\* runLoop that holds an interrupt of its own is not emulated code.
MachineStandsWhileHeld ==
    \A t \in Frontends : holds[t] => core \notin Machine \/ coreHolds

\* mCoreThreadReset and mCoreThreadRunFunction return only after the core
\* thread reset, or ran the function given to them.
RequestServedOnReturn ==
    [][\A t \in Frontends :
         PollDone(t) /\ op[t] \in {"Reset", "RunFunction"} => t \in served]_vars

\* An ended thread is not brought back, except by a crash that is reported after
\* mCoreThreadEnd.
ExitIsFinal ==
    [][(state \in Ended /\ ~Crash /\ ~\E t \in Frontends : MarkCrashed(t))
         => state' \in Ended]_vars

\* interruptDepth counts the interrupts that are held or being waited for.
Holders ==
    Cardinality({t \in Frontends : holds[t] \/ (pc[t] = "poll" /\ op[t] = "Interrupt")})
DepthCountsHolders == interruptDepth = Holders + (IF coreHolds THEN 1 ELSE 0)

\* The core thread is asleep for a device that does not answer, in a wait that was
\* turned on again after a caller, or mCoreThreadEnd, had turned it off.
HeldByDevice ==
    \E s \in turned :
        \/ s.video /\ framePending /\ core \in {"postFrame", "postFrameWoken"}
        \/ s.audio /\ audioFull
           /\ core \in {"produceAudio", "produceAudioWoken", "parkedAudio", "parkedAudioWoken"}

\* Every call comes back, whatever the machine was blocked in and whoever else wakes
\* the core thread: an interrupt is granted; a wait for a reset, a function, a pause
\* or the end of one returns, unless the core thread has ended meanwhile.  The one
\* exception: after a setSync(TRUE) made during the call, by the core thread's own
\* callbacks or by another player's thread, and with a device that has stopped, the
\* caller polls on until that device goes on (HeldByDevice).  When both devices go on
\* taking frames and samples there is no exception.
Waits(t) == pc[t] = "poll" /\ (op[t] = "Interrupt" \/ state \notin Ended)

CallsAnswered ==
    \A t \in Callers :
        /\ Waits(t) ~> (~Waits(t) \/ HeldByDevice)
        /\ []<>~framePending /\ []<>~audioFull => (Waits(t) ~> ~Waits(t))

\* After mCoreThreadEnd the core thread gets to its end, whatever it was asleep in, so
\* that mCoreThreadJoin can return; a setSync(TRUE) made after the end, with a device
\* that stopped, keeps it away like a caller.
EndReached == \A t \in Callers : pc[t] = "ending" ~> (core = "done" \/ HeldByDevice)

\* A call that returns leaves the audio switch as others turned it meanwhile.
SyncKept ==
    [][\A t \in Frontends : PollDone(t) => \A s \in turned : audioWait' = s.audio]_vars

=============================================================================
