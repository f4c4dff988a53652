----------------------- MODULE CoreThreadSafetyProofs -----------------------
(***************************************************************************)
(* What the core thread promises about its state and its requests, for any *)
(* set of frontend threads and any choice of the operations they call: the *)
(* order of its states, interrupts, requests, and who wakes each sleeper.  *)
(***************************************************************************)
EXTENDS CoreThreadProofs

\* The core thread has not left mCoreThreadStart: nobody has reached it yet.
BootQuiet ==
    /\ core = "boot" <=> state = "initialized"
    /\ core = "boot" => requested = {} /\ ~coreHolds

RequestInv == BootQuiet /\ NoLostRequest

\* Broadcasts move the core thread neither out of its start nor to it, and
\* neither into the machine nor out of it, nor out of its wait or into it.
LEMMA WakingKeepsPlace ==
    ASSUME NEW c, NEW d, d \in {c, WakeState(c), WakeRequired(c), WakeAudio(c),
               WakeAudio(WakeRequired(c)), WakeState(WakeAudio(c)),
               WakeState(WakeAudio(WakeRequired(c)))}
    PROVE  /\ d = "boot" <=> c = "boot"
           /\ d \in Machine <=> c \in Machine
           /\ d \in Parked <=> c \in Parked
  BY DEF WakeState, WakeRequired, WakeAudio, Moved, Machine, Parked

LEMMA PokedFacts ==
    ASSUME NEW s
    PROVE  /\ Poked(s) \in {s, "request"} \ {"running", "paused", "crashed"}
           /\ Poked(s) = "initialized" <=> s = "initialized"
           /\ s \in Ended \cup Interrupts => Poked(s) = s
  BY DEF Poked, Ended, Interrupts

\* A frontend leaves the core thread where it is, but for waking it, and
\* leaves no request behind.
LEMMA FrontendPlace ==
    ASSUME NEW t \in Frontends, FrontendStep(t)
    PROVE  /\ core' = "boot" <=> core = "boot"
           /\ core' \in Machine <=> core \in Machine
           /\ core' \in Parked <=> core \in Parked
           /\ coreHolds' = coreHolds
<1>1. core' \in {core, WakeState(core), WakeRequired(core), WakeAudio(core),
               WakeAudio(WakeRequired(core)), WakeState(WakeAudio(core)),
               WakeState(WakeAudio(WakeRequired(core)))}
  BY DEF FrontendStep, SleepOnInterrupt, Interrupt, Continue, WakeAndReturn, Reset, RunFunction,
     Pause, Unpause, TogglePause, SendPause, CancelPause, StopWaiting, MarkCrashed, LeaveCrash,
     End, EndSync, Join, SetSync, SetSyncTo, Poll, PollDone, coreVars, threadVars
<1>2. coreHolds' = coreHolds
  BY DEF FrontendStep, SleepOnInterrupt, Interrupt, Continue, Enter, Reset, RunFunction,
     Pause, Unpause, TogglePause, StopWaiting, MarkCrashed, LeaveCrash, End, EndSync, Join,
     SetSync, Poll, PollDone, coreVars
<1>. QED
  BY <1>1, <1>2, WakingKeepsPlace

LEMMA FrontendRequest ==
    ASSUME RequestInv, NEW t \in Frontends, FrontendStep(t)
    PROVE  RequestInv'
<1>. SUFFICES /\ state' = "initialized" <=> state = "initialized"
              /\ state = "initialized" => requested' = requested
              /\ NoLostRequest'
  BY FrontendPlace DEF RequestInv, BootQuiet
<1>1. CASE UNCHANGED <<state, requested>>
  BY <1>1 DEF RequestInv, NoLostRequest
<1>2. CASE \/ Interrupt(t) \/ Continue(t) \/ MarkCrashed(t) \/ End(t)
           \/ \E o \in {"ClearCrashed", "SetRewinding"} : LeaveCrash(t, o)
  <2>1. state # "initialized" /\ requested' = requested
    BY <1>2, EnterIdle DEF Interrupt, Continue, MarkCrashed, End, LeaveCrash
  <2>2. state' = state \/ state' \in {"interrupting", "crashed", "exiting", "request"}
        \/ (state' = "running" /\ requested = {})
    BY <1>2 DEF Interrupt, Continue, ContinueState, MarkCrashed, End, LeaveCrash
  <2>. QED
    BY <2>1, <2>2 DEF RequestInv, NoLostRequest
<1>3. ASSUME Reset(t) \/ RunFunction(t) \/ Pause(t) \/ Unpause(t) \/ TogglePause(t) \/ StopWaiting(t)
      PROVE  state # "initialized" /\ state' = Poked(state)
  BY <1>3, EnterIdle DEF Reset, RunFunction, Pause, Unpause, TogglePause, SendPause, CancelPause,
     StopWaiting, Send, Cancel
<1>4. CASE Poll(t)
  <2>1. requested' = requested /\ (state' = state \/ state' = Poked(state))
    BY <1>4 DEF Poll
  <2>. QED
    BY <2>1, PokedFacts DEF RequestInv, NoLostRequest
<1>5. CASE \/ \E o \in WaitsOnInterrupt : SleepOnInterrupt(t, o)
           \/ EndSync(t) \/ Join(t) \/ SetSync(t) \/ PollDone(t)
  BY <1>1, <1>5 DEF SleepOnInterrupt, EndSync, Join, SetSync, PollDone, threadVars
<1>. QED
  BY <1>2, <1>3, <1>4, <1>5, PokedFacts DEF FrontendStep, NoLostRequest

LEMMA CoreRequest == ASSUME RequestInv, CoreStep PROVE RequestInv'
<1>1. CASE Boot
  BY <1>1 DEF Boot, RequestInv, BootQuiet, NoLostRequest
<1>2. ASSUME NEW place, place # "boot", CoreGoes(place), core # "boot" PROVE RequestInv'
  BY <1>2 DEF CoreGoes, RequestInv, BootQuiet, NoLostRequest, threadVars
<1>3. CASE \/ Check \/ Loop \/ RunLoopReturns \/ ProduceAudioWoken \/ Woken
           \/ ParkedAudioWoken \/ SpuriousWake \/ CallbacksDone
  BY <1>2, <1>3 DEF Check, Loop, RunLoopReturns, InMachine, ProduceAudioWoken, Woken,
     ParkedAudioWoken, SpuriousWake, CallbacksDone
<1>4. CASE PostFrame \/ PostFrameWoken \/ ProduceAudio \/ RunCallback
  <2>1. core # "boot" /\ core' # "boot" /\ UNCHANGED threadVars
    BY <1>4 DEF PostFrame, InMachine, PostFrameWoken, ProduceAudio, RunCallback
  <2>. QED
    BY <2>1 DEF RequestInv, BootQuiet, NoLostRequest, threadVars
<1>5. CASE Crash \/ Shutdown
  BY <1>5 DEF Crash, Shutdown, ChangeStateInLoop, InMachine, coreVars, RequestInv, BootQuiet,
     NoLostRequest
<1>6. CASE PauseFromThread \/ WaitFromThread
  <2>1. core # "boot" /\ core' = core /\ state' = Poked(state)
    BY <1>6 DEF PauseFromThread, WaitFromThread, RequestFromThread, InUserCode, Send, coreVars
  <2>. QED
    BY <2>1, PokedFacts DEF RequestInv, BootQuiet, NoLostRequest
<1>7. CASE InterruptFromThread
  BY <1>7 DEF InterruptFromThread, InUserCode, RequestInv, BootQuiet, NoLostRequest
<1>8. CASE ContinueFromThread
  BY <1>8 DEF ContinueFromThread, ContinueState, RequestInv, BootQuiet, NoLostRequest
<1>9. CASE SetSyncFromThread
  <2>1. core # "boot" /\ (core' = core \/ core' = WakeAudio(core)) /\ UNCHANGED threadVars
    BY <1>9 DEF SetSyncFromThread, InUserCode, SetSyncTo
  <2>. QED
    BY <2>1, WakingKeepsPlace DEF RequestInv, BootQuiet, NoLostRequest, threadVars
<1>10. CASE LockAndTest \/ Retest
  <2>1. core # "boot" /\ (Park \/ BecomeInterrupted \/ Dispatch)
    BY <1>10 DEF LockAndTest, Retest
  <2>2. CASE Park
    BY <1>2, <2>1, <2>2 DEF Park
  <2>3. CASE BecomeInterrupted
    BY <2>1, <2>3 DEF BecomeInterrupted, RequestInv, BootQuiet, NoLostRequest
  <2>4. CASE Dispatch
    BY <2>1, <2>4 DEF Dispatch, Left, RequestInv, BootQuiet, NoLostRequest
  <2>. QED
    BY <2>1, <2>2, <2>3, <2>4
<1>11. CASE Exit
  BY <1>11 DEF Exit, RequestInv, BootQuiet, NoLostRequest
<1>. QED
  BY <1>1, <1>3, <1>4, <1>5, <1>6, <1>7, <1>8, <1>9, <1>10, <1>11
  DEF CoreStep, CoreProgress, CoreChoice

LEMMA DevicePlace ==
    ASSUME DeviceStep
    PROVE  /\ core' = "boot" <=> core = "boot"
           /\ core' \in Machine <=> core \in Machine
           /\ core' \in Parked <=> core \in Parked
           /\ UNCHANGED threadVars /\ UNCHANGED coreHolds
<1>1. core' \in {core, WakeRequired(core), WakeAudio(core)}
  BY DEF DeviceStep, FrameStart, FrameWaited, FrameEnd, ConsumeAudio, coreVars
<1>2. UNCHANGED threadVars /\ UNCHANGED coreHolds
  BY DEF DeviceStep, FrameStart, FrameWaited, FrameEnd, ConsumeAudio, coreVars
<1>. QED
  BY <1>1, <1>2, WakingKeepsPlace

LEMMA RequestInductive == RequestInv /\ [Next]_vars => RequestInv'
<1>. SUFFICES ASSUME RequestInv, [Next]_vars PROVE RequestInv'
  OBVIOUS
<1>1. ASSUME NEW t \in Frontends, FrontendStep(t) PROVE RequestInv'
  BY <1>1, FrontendRequest
<1>2. CASE CoreStep
  BY <1>2, CoreRequest
<1>3. CASE DeviceStep
  BY <1>3, DevicePlace DEF threadVars, RequestInv, BootQuiet, NoLostRequest
<1>4. CASE UNCHANGED vars
  BY <1>4 DEF RequestInv, BootQuiet, NoLostRequest, vars, threadVars, coreVars
<1>. QED
  BY <1>1, <1>2, <1>3, <1>4 DEF Next, Terminated

LEMMA RequestInvHolds == Spec => []RequestInv
<1>1. Init => RequestInv
  BY DEF Init, RequestInv, BootQuiet, NoLostRequest
<1>. QED
  BY <1>1, RequestInductive, PTL DEF Spec

\* The core thread never sees RUNNING while a request is set, whichever threads
\* send, cancel and continue, and in whatever order.
THEOREM RequestsAreSeen == Spec => []NoLostRequest
  BY RequestInvHolds, PTL DEF RequestInv

----------------------------------------------------------------------------
(* What the frontends do to `state`, and where the core thread sets it.    *)

LEMMA FrontendState ==
    ASSUME NEW t \in Frontends, FrontendStep(t)
    PROVE  \/ state' = state \/ state' = Poked(state)
           \/ Interrupt(t) \/ Continue(t) \/ MarkCrashed(t) \/ (End(t) /\ state' = "exiting")
           \/ (state = "crashed" /\ state' = "request")
<1>1. CASE \E o \in {"ClearCrashed", "SetRewinding"} : LeaveCrash(t, o)
  BY <1>1 DEF LeaveCrash
<1>. QED
  BY <1>1 DEF FrontendStep, SleepOnInterrupt, Reset, RunFunction, Pause, Unpause, TogglePause,
     SendPause, CancelPause, Send, Cancel, StopWaiting, End, EndSync, Join, SetSync, Poll,
     PollDone, threadVars

LEMMA CoreState ==
    ASSUME CoreStep
    PROVE  \/ UNCHANGED <<state, interruptDepth>> \/ Boot \/ Crash \/ InterruptFromThread
           \/ ContinueFromThread
           \/ /\ UNCHANGED interruptDepth
              /\ \/ Shutdown \/ Exit
                 \/ state' = Poked(state) /\ core' = core
                 \/ state = "interrupting" /\ state' = "interrupted"
                 \/ state = "request" /\ state' \in {"running", "paused"}
<1>1. CASE LockAndTest \/ Retest
  <2>1. \/ Park \/ Dispatch
        \/ (BecomeInterrupted /\ state = "interrupting")
    BY <1>1 DEF LockAndTest, Retest
  <2>. QED
    BY <2>1 DEF Park, CoreGoes, threadVars, BecomeInterrupted, Dispatch
<1>2. CASE PauseFromThread \/ WaitFromThread
  BY <1>2 DEF PauseFromThread, WaitFromThread, RequestFromThread, Send, coreVars
<1>. QED
  BY <1>1, <1>2 DEF CoreStep, CoreProgress, CoreChoice, CoreGoes, threadVars, Check, Loop,
     RunLoopReturns, PostFrame, PostFrameWoken, ProduceAudio, ProduceAudioWoken, Woken,
     ParkedAudioWoken, SpuriousWake, RunCallback, CallbacksDone, SetSyncFromThread, Shutdown,
     ChangeStateInLoop, Exit

----------------------------------------------------------------------------
(* PAUSED is only shown outside the machine.                               *)

\* The core thread enters the machine from its loop, in the state RUNNING only.
LEMMA EnterMachine ==
    ASSUME CoreStep, core' \in Machine
    PROVE  core \in Machine \/ (state = "running" /\ state' = state)
<1>1. CASE core' = core \/ core' = WakeAudio(core)
  BY <1>1, WakingKeepsPlace
<1>2. CASE LockAndTest \/ Retest
  BY <1>2 DEF LockAndTest, Retest, Park, CoreGoes, BecomeInterrupted, Dispatch, Machine
<1>3. CASE Loop
  BY <1>3 DEF Loop, CoreGoes, threadVars, Machine
<1>. QED
  BY <1>1, <1>2, <1>3 DEF CoreStep, CoreProgress, CoreChoice, CoreGoes, Boot, Check,
     RunLoopReturns, InMachine, PostFrame, PostFrameWoken, ProduceAudio, ProduceAudioWoken, Crash,
     Shutdown, ChangeStateInLoop, PauseFromThread, WaitFromThread, RequestFromThread,
     InterruptFromThread, ContinueFromThread, SetSyncFromThread, SetSyncTo, Woken,
     ParkedAudioWoken, SpuriousWake, RunCallback, CallbacksDone, Exit, coreVars, Machine

\* PAUSED is written by the dispatch of requests only, in the wait loop.
LEMMA BecomePaused ==
    ASSUME CoreStep, state' = "paused", state # "paused"
    PROVE  core' \notin Machine
<1>1. CASE LockAndTest \/ Retest
  BY <1>1 DEF LockAndTest, Retest, Park, CoreGoes, BecomeInterrupted, Dispatch, threadVars, Machine
<1>. QED
  BY <1>1, PokedFacts DEF CoreStep, CoreProgress, CoreChoice, CoreGoes, threadVars, Boot, Check,
     Loop, RunLoopReturns, PostFrame, PostFrameWoken, ProduceAudio, ProduceAudioWoken, Crash,
     Shutdown, ChangeStateInLoop, PauseFromThread, WaitFromThread, RequestFromThread, Send,
     InterruptFromThread, ContinueFromThread, ContinueState, SetSyncFromThread, Woken,
     ParkedAudioWoken, SpuriousWake, RunCallback, CallbacksDone, Exit

LEMMA PausedInductive == PausedMachineStands /\ [Next]_vars => PausedMachineStands'
<1>. SUFFICES ASSUME PausedMachineStands, [Next]_vars, state' = "paused"
              PROVE  core' \notin Machine
  BY DEF PausedMachineStands
<1>1. ASSUME NEW t \in Frontends, FrontendStep(t) PROVE core' \notin Machine
  <2>1. state' = state
    BY <1>1, FrontendState, PokedFacts DEF Interrupt, Continue, ContinueState, MarkCrashed, End
  <2>. QED
    BY <1>1, <2>1, FrontendPlace DEF PausedMachineStands
<1>2. CASE CoreStep
  BY <1>2, EnterMachine, BecomePaused DEF PausedMachineStands
<1>3. CASE DeviceStep
  BY <1>3, DevicePlace DEF PausedMachineStands, threadVars
<1>4. CASE UNCHANGED vars
  BY <1>4 DEF PausedMachineStands, vars, threadVars, coreVars
<1>. QED
  BY <1>1, <1>2, <1>3, <1>4 DEF Next, Terminated

\* A frontend that sees PAUSED finds the machine between two runs of runLoop.
THEOREM PausedStands == Spec => []PausedMachineStands
<1>1. Init => PausedMachineStands
  BY DEF Init, PausedMachineStands
<1>. QED
  BY <1>1, PausedInductive, PTL DEF Spec

----------------------------------------------------------------------------
(* EXITING and SHUTDOWN are final.                                         *)

LEMMA ExitStep ==
    ASSUME BootQuiet, [Next]_vars, state \in Ended, ~Crash, ~\E t \in Frontends : MarkCrashed(t)
    PROVE  state' \in Ended
<1>1. ASSUME NEW t \in Frontends, FrontendStep(t) PROVE state' \in Ended
  BY <1>1, FrontendState, PokedFacts
  DEF Interrupt, Continue, ContinueState, Resumes, IsActive, Active, Ended
<1>2. CASE CoreStep
  BY <1>2, CoreState, PokedFacts
  DEF Boot, BootQuiet, InterruptFromThread, ContinueFromThread, ContinueState, Resumes, IsActive,
      Active, Shutdown, ChangeStateInLoop, Exit, Ended
<1>3. CASE DeviceStep
  BY <1>3, DevicePlace DEF threadVars
<1>4. CASE UNCHANGED vars
  BY <1>4 DEF vars, threadVars
<1>. QED
  BY <1>1, <1>2, <1>3, <1>4 DEF Next, Terminated

\* Once ended, a thread is not brought back to life by a request, an interrupt or
\* the end of one that comes late.
THEOREM EndIsFinal == Spec => ExitIsFinal
<1>1. RequestInv /\ [Next]_vars
      => [(state \in Ended /\ ~Crash /\ ~\E t \in Frontends : MarkCrashed(t))
            => state' \in Ended]_vars
  BY ExitStep DEF RequestInv
<1>. QED
  BY <1>1, RequestInvHolds, PTL DEF Spec, ExitIsFinal

----------------------------------------------------------------------------
(* An interrupt lasts as long as it is held.                               *)

HoldersCount ==
    coreHolds \/ (\E t \in Frontends : holds[t]) => interruptDepth \in Nat /\ interruptDepth >= 1

LEMMA HoldingCounts == Inv => HoldersCount
  BY HolderCounted DEF HoldersCount

LEMMA HoldingCountsNext == Inv' => HoldersCount'
  BY HoldingCounts, PTL

LEMMA KeptStep ==
    ASSUME BootQuiet, [Next]_vars, state \in Interrupts, interruptDepth' \in Nat, interruptDepth' >= 1
    PROVE  state' \in Interrupts \cup Ended \cup {"crashed"}
<1>0. ~Resumes
  BY DEF Resumes
<1>1. ASSUME NEW t \in Frontends, FrontendStep(t)
      PROVE  state' \in Interrupts \cup Ended \cup {"crashed"}
  BY <1>0, <1>1, FrontendState, PokedFacts
  DEF Interrupt, Continue, ContinueState, MarkCrashed, Interrupts, Ended
<1>2. CASE CoreStep
  BY <1>0, <1>2, CoreState, PokedFacts
  DEF Boot, BootQuiet, Crash, InterruptFromThread, ContinueFromThread, ContinueState, Shutdown,
      ChangeStateInLoop, Exit, Interrupts, Ended
<1>3. CASE DeviceStep
  BY <1>3, DevicePlace DEF threadVars
<1>4. CASE UNCHANGED vars
  BY <1>4 DEF vars, threadVars
<1>. QED
  BY <1>1, <1>2, <1>3, <1>4 DEF Next, Terminated

\* The Continue of one holder, or a request, does not resume the thread under
\* another holder: the depth that Continue finds still counts that holder.
THEOREM InterruptIsKept == Spec => InterruptKept
<1>1. RequestInv /\ Inv' /\ [Next]_vars
      => [(coreHolds /\ coreHolds') \/ (\E t \in Frontends : holds[t] /\ holds'[t])
           => (state \in Interrupts => state' \in Interrupts \cup Ended \cup {"crashed"})]_vars
  BY HoldingCountsNext, KeptStep DEF RequestInv, HoldersCount
<1>. QED
  BY <1>1, InvHolds, RequestInvHolds, PTL DEF Spec, InterruptKept

----------------------------------------------------------------------------
(* Without crashes, to hold an interrupt is to find the thread interrupted. *)

\* Nothing reports a crash: a crash ends every interrupt, whoever holds it.
NoCrash ==
    /\ "crash" \notin CoreOps
    /\ \A t \in Frontends : "MarkCrashed" \notin FrontendOps[t]

InterruptHeld ==
    (coreHolds \/ \E t \in Frontends : holds[t]) => state \in Interrupts \cup Ended

DepthInterrupts ==
    /\ interruptDepth > 0 => state \in Interrupts \cup Ended
    /\ state # "crashed"

HeldInv == Inv /\ RequestInv /\ DepthInterrupts

LEMMA FrontendInterrupts ==
    ASSUME NoCrash, HeldInv, NEW t \in Frontends, FrontendStep(t)
    PROVE  DepthInterrupts'
<1>0. interruptDepth \in Nat /\ state \in States
  BY DEF HeldInv, Inv, TypeOK
<1>1. CASE Interrupt(t)
  <2>1. state \notin {"initialized", "crashed"}
    BY <1>1, EnterIdle DEF Interrupt, HeldInv, DepthInterrupts
  <2>2. CASE interruptDepth' > 1 \/ ~IsActive
    <3>1. state' = state /\ interruptDepth' = interruptDepth + 1
      BY <1>1, <2>2 DEF Interrupt, Deeper
    <3>2. state \in Interrupts \cup Ended
      BY <1>0, <2>1, <2>2, <3>1 DEF HeldInv, DepthInterrupts, IsActive, Active, States, Ended
    <3>. QED
      BY <2>1, <3>1, <3>2 DEF DepthInterrupts
  <2>3. CASE ~(interruptDepth' > 1 \/ ~IsActive)
    BY <1>1, <2>3 DEF Interrupt, DepthInterrupts, Interrupts
  <2>. QED
    BY <2>2, <2>3
<1>2. CASE Continue(t)
  <2>1. interruptDepth' = interruptDepth - 1
        /\ state' = IF ~Resumes THEN state ELSE IF requested # {} THEN "request" ELSE "running"
    BY <1>2 DEF Continue, ContinueState
  <2>. QED
    BY <1>0, <2>1 DEF HeldInv, DepthInterrupts, Resumes
<1>3. ~MarkCrashed(t)
  BY DEF NoCrash, MarkCrashed, Enter, MayCall
<1>4. CASE ~Interrupt(t) /\ ~Continue(t)
  <2>1. interruptDepth' = interruptDepth
    BY <1>4 DEF FrontendStep, SleepOnInterrupt, Reset, RunFunction, Pause, Unpause, TogglePause,
       SendPause, CancelPause, StopWaiting, MarkCrashed, LeaveCrash, End, EndSync, Join, SetSync,
       Poll, PollDone, threadVars
  <2>. QED
    BY <1>3, <1>4, <2>1, FrontendState, PokedFacts DEF HeldInv, DepthInterrupts, Ended
<1>. QED
  BY <1>1, <1>2, <1>4

LEMMA CoreInterrupts ==
    ASSUME NoCrash, HeldInv, CoreStep
    PROVE  DepthInterrupts'
<1>0. interruptDepth \in Nat /\ state \in States
  BY DEF HeldInv, Inv, TypeOK
<1>1. CASE Boot
  BY <1>0, <1>1 DEF Boot, HeldInv, RequestInv, BootQuiet, DepthInterrupts, Interrupts, Ended
<1>2. CASE InterruptFromThread
  <2>1. state \notin {"initialized", "crashed"}
    BY <1>2 DEF InterruptFromThread, InUserCode, HeldInv, RequestInv, BootQuiet, DepthInterrupts
  <2>2. CASE interruptDepth' > 1 \/ ~IsActive
    <3>1. state' = (IF state = "interrupting" THEN "interrupted" ELSE state)
          /\ interruptDepth' = interruptDepth + 1
      BY <1>2, <2>2 DEF InterruptFromThread, Deeper
    <3>2. state \in Interrupts \cup Ended
      BY <1>0, <2>1, <2>2, <3>1 DEF HeldInv, DepthInterrupts, IsActive, Active, States, Ended
    <3>. QED
      BY <2>1, <3>1, <3>2 DEF DepthInterrupts, Interrupts
  <2>3. CASE ~(interruptDepth' > 1 \/ ~IsActive)
    BY <1>2, <2>3 DEF InterruptFromThread, DepthInterrupts, Interrupts
  <2>. QED
    BY <2>2, <2>3
<1>3. CASE ContinueFromThread
  <2>1. interruptDepth' = interruptDepth - 1
        /\ state' = IF ~Resumes THEN state ELSE IF requested # {} THEN "request" ELSE "running"
    BY <1>3 DEF ContinueFromThread, ContinueState
  <2>. QED
    BY <1>0, <2>1 DEF HeldInv, DepthInterrupts, Resumes
<1>4. CASE Shutdown
  BY <1>4 DEF Shutdown, ChangeStateInLoop, DepthInterrupts, Ended
<1>5. CASE Exit
  BY <1>5 DEF Exit, DepthInterrupts, Ended
<1>6. ~Crash
  BY DEF NoCrash, Crash, ChangeStateInLoop
<1>. QED
  BY <1>1, <1>2, <1>3, <1>4, <1>5, <1>6, CoreState, PokedFacts
  DEF HeldInv, DepthInterrupts, Interrupts, Ended

LEMMA HeldInductive == ASSUME NoCrash PROVE HeldInv /\ [Next]_vars => HeldInv'
<1>. SUFFICES ASSUME HeldInv, [Next]_vars PROVE DepthInterrupts'
  BY Inductive, RequestInductive DEF HeldInv
<1>1. ASSUME NEW t \in Frontends, FrontendStep(t) PROVE DepthInterrupts'
  BY <1>1, FrontendInterrupts
<1>2. CASE CoreStep
  BY <1>2, CoreInterrupts
<1>3. CASE DeviceStep
  BY <1>3, DevicePlace DEF threadVars, HeldInv, DepthInterrupts
<1>4. CASE UNCHANGED vars
  BY <1>4 DEF HeldInv, DepthInterrupts, vars, threadVars
<1>. QED
  BY <1>1, <1>2, <1>3, <1>4 DEF Next, Terminated

LEMMA InitHeld == Init => HeldInv
<1>1. Init => DepthInterrupts
  BY DEF Init, DepthInterrupts
<1>. QED
  BY <1>1, InitType, InitCounts DEF HeldInv, Inv, RequestInv, Init, BootQuiet, NoLostRequest

\* While anybody holds an interrupt, and nothing crashes, the thread is not
\* resumed: not by the Continue of another holder, not by a request.
THEOREM InterruptIsHeld == ASSUME NoCrash PROVE Spec => []InterruptHeld
<1>1. HeldInv => InterruptHeld
  BY HolderCounted DEF HeldInv, DepthInterrupts, InterruptHeld
<1>. QED
  BY <1>1, InitHeld, HeldInductive, PTL DEF Spec

----------------------------------------------------------------------------
(* One thread that interrupts, and a core thread in its wait meanwhile.    *)

\* Nothing crashes, and one frontend at most interrupts, the core thread itself
\* excluded: a second interrupt does not wait for the first (line 611).
OneInterrupter ==
    /\ NoCrash /\ "InterruptFromThread" \notin CoreOps
    /\ \A t, u \in Frontends :
           "Interrupt" \in FrontendOps[t] /\ "Interrupt" \in FrontendOps[u] => t = u

\* The interrupt is granted in the wait of the core thread, and kept there.
Granted ==
    /\ state = "interrupted" => core \in Parked
    /\ \A t \in Frontends : holds[t] => state \in Ended \cup {"interrupted"}

Takers == \A t \in HolderSet : "Interrupt" \in FrontendOps[t]

ExclusionInv == HeldInv /\ ~coreHolds /\ Takers /\ Granted

LEMMA TakersKept ==
    ASSUME OneInterrupter, ExclusionInv, [Next]_vars
    PROVE  Takers' /\ ~coreHolds'
<1>0. Inv /\ Takers /\ ~coreHolds
  BY DEF ExclusionInv, HeldInv
<1>1. ASSUME NEW t \in Frontends, FrontendStep(t) PROVE Takers' /\ ~coreHolds'
  <2>1. ~coreHolds'
    BY <1>0, <1>1, FrontendPlace
  <2>2. CASE Interrupt(t)
    <3>1. "Interrupt" \in FrontendOps[t]
      BY <2>2 DEF Interrupt, Enter, MayCall
    <3>. QED
      BY <1>0, <2>1, <2>2, <3>1, InterruptAdds DEF Takers
  <2>3. CASE Continue(t)
    BY <1>0, <2>1, <2>3, ContinueRemoves DEF Takers
  <2>4. CASE ~Interrupt(t) /\ ~Continue(t)
    BY <1>0, <1>1, <2>1, <2>4, OthersKeepHolders DEF Takers
  <2>. QED
    BY <2>2, <2>3, <2>4
<1>2. CASE CoreStep
  <2>1. HolderSet' = HolderSet
    BY <1>0, <1>2, CoreHolders
  <2>2. ~coreHolds'
    BY <1>0, <1>2
    DEF OneInterrupter, CoreStep, CoreProgress, CoreChoice, CoreGoes, coreVars, Boot, Check,
        Loop, RunLoopReturns, PostFrame, PostFrameWoken, ProduceAudio, ProduceAudioWoken, Crash,
        Shutdown, ChangeStateInLoop, PauseFromThread, WaitFromThread, RequestFromThread,
        InterruptFromThread, ContinueFromThread, SetSyncFromThread, LockAndTest, Retest, Park,
        BecomeInterrupted, Dispatch, Woken, ParkedAudioWoken, SpuriousWake, RunCallback,
        CallbacksDone, Exit
  <2>. QED
    BY <1>0, <2>1, <2>2 DEF Takers
<1>3. CASE DeviceStep
  <2>1. UNCHANGED <<pc, op, holds, coreHolds>>
    BY <1>3 DEF DeviceStep, FrameStart, FrameWaited, FrameEnd, ConsumeAudio, coreVars, callerVars
  <2>. QED
    BY <1>0, <2>1 DEF Takers, HolderSet
<1>4. CASE UNCHANGED vars
  BY <1>0, <1>4 DEF Takers, HolderSet, vars, coreVars, callerVars
<1>. QED
  BY <1>1, <1>2, <1>3, <1>4 DEF Next, Terminated

\* Who starts to interrupt finds that nobody does.
LEMMA InterruptsAlone ==
    ASSUME OneInterrupter, ExclusionInv, NEW t \in Frontends, Interrupt(t)
    PROVE  interruptDepth = 0 /\ interruptDepth' = 1 /\ \A u \in Frontends : ~holds[u]
<1>1. Inv /\ Takers /\ ~coreHolds
  BY DEF ExclusionInv, HeldInv
<1>2. "Interrupt" \in FrontendOps[t] /\ t \notin HolderSet
  BY <1>1, InterruptAdds DEF Interrupt, Enter, MayCall
<1>3. HolderSet = {}
  BY <1>1, <1>2 DEF Takers, OneInterrupter, HolderSet
<1>4. interruptDepth = 0
  BY <1>1, <1>3, HoldersFinite, FS_EmptySet
<1>. QED
  BY <1>3, <1>4 DEF Interrupt, Deeper, HolderSet

\* What becomes of a frontend's own interrupt.
LEMMA FrontendHolds ==
    ASSUME Inv, NEW t \in Frontends, FrontendStep(t), NEW u \in Frontends, holds'[u]
    PROVE  \/ holds[u]
           \/ u = t /\ PollDone(t) /\ op[t] = "Interrupt"
           \/ u = t /\ Interrupt(t) /\ (interruptDepth' > 1 \/ ~IsActive)
<1>1. TypeOK
  BY DEF Inv
<1>2. CASE Interrupt(t)
  BY <1>1, <1>2 DEF Interrupt, TypeOK
<1>3. CASE Continue(t)
  BY <1>1, <1>3 DEF Continue, TypeOK
<1>4. CASE PollDone(t)
  BY <1>1, <1>4 DEF PollDone, TypeOK
<1>. QED
  BY <1>2, <1>3, <1>4
  DEF FrontendStep, SleepOnInterrupt, Reset, RunFunction, Pause, Unpause, TogglePause,
      SendPause, CancelPause, StopWaiting, MarkCrashed, LeaveCrash, End, EndSync, Join,
      SetSync, Poll

LEMMA FrontendGrants ==
    ASSUME OneInterrupter, ExclusionInv, NEW t \in Frontends, FrontendStep(t)
    PROVE  Granted'
<1>0. Inv /\ HeldInv /\ HeldInv' /\ Granted /\ BootQuiet /\ state \in States
  BY HeldInductive DEF ExclusionInv, HeldInv, OneInterrupter, RequestInv, Inv, TypeOK, Next
<1>1. state' = "interrupted" => core' \in Parked
  <2>1. state' = "interrupted" => state = "interrupted"
    BY FrontendState, PokedFacts DEF Interrupt, Continue, ContinueState, MarkCrashed
  <2>. QED
    BY <1>0, <2>1, FrontendPlace DEF Granted
<1>2. ASSUME NEW u \in Frontends, holds'[u] PROVE state' \in Ended \cup {"interrupted"}
  <2>1. CASE holds[u]
    <3>1. state \in Ended \cup {"interrupted"} /\ interruptDepth' >= 1 /\ interruptDepth' \in Nat
      BY <1>0, <1>2, <2>1, HoldingCountsNext DEF Granted, HoldersCount, HeldInv
    <3>2. ~Interrupt(t)
      BY <2>1, InterruptsAlone
    <3>3. ~MarkCrashed(t)
      BY DEF OneInterrupter, NoCrash, MarkCrashed, Enter, MayCall
    <3>4. ~Resumes
      BY <3>1 DEF Resumes
    <3>. QED
      BY <3>1, <3>2, <3>3, <3>4, FrontendState, PokedFacts
      DEF Continue, ContinueState, Ended, Interrupts
  <2>2. CASE PollDone(t) /\ op[t] = "Interrupt"
    <3>1. state' = state /\ state # "interrupting"
      BY <2>2 DEF PollDone, WaitOver, threadVars
    <3>2. state' \in Interrupts \cup Ended
      <4>1. interruptDepth' >= 1 /\ interruptDepth' \in Nat
        BY <1>0, <1>2, HoldingCountsNext DEF HoldersCount, HeldInv
      <4>. QED
        BY <1>0, <4>1 DEF HeldInv, DepthInterrupts
    <3>. QED
      BY <3>1, <3>2 DEF Interrupts
  <2>3. CASE Interrupt(t) /\ (interruptDepth' > 1 \/ ~IsActive)
    <3>1. ~IsActive /\ state' = state
      BY <2>3, InterruptsAlone DEF Interrupt
    <3>2. state \notin {"initialized", "crashed"}
      BY <1>0, <2>3, EnterIdle DEF Interrupt, HeldInv, DepthInterrupts
    <3>. QED
      BY <1>0, <3>1, <3>2 DEF IsActive, Active, States, Ended
  <2>. QED
    BY <1>0, <1>2, <2>1, <2>2, <2>3, FrontendHolds
<1>. QED
  BY <1>1, <1>2 DEF Granted

LEMMA CoreGrants ==
    ASSUME OneInterrupter, ExclusionInv, CoreStep
    PROVE  Granted'
<1>0. Inv /\ Inv' /\ HeldInv /\ Granted /\ BootQuiet /\ Granted /\ ~coreHolds
  BY Inductive DEF ExclusionInv, HeldInv, RequestInv, Next
<1>1. ~Crash /\ ~InterruptFromThread /\ ~ContinueFromThread
  BY <1>0 DEF OneInterrupter, NoCrash, Crash, ChangeStateInLoop, InterruptFromThread,
     ContinueFromThread
<1>2. holds' = holds
  BY DEF CoreStep, CoreProgress, CoreChoice, CoreGoes, callerVars, Boot, Check, Loop,
     RunLoopReturns, PostFrame, PostFrameWoken, ProduceAudio, ProduceAudioWoken, Crash, Shutdown,
     ChangeStateInLoop, PauseFromThread, WaitFromThread, RequestFromThread, InterruptFromThread,
     ContinueFromThread, SetSyncFromThread, LockAndTest, Retest, Park, BecomeInterrupted,
     Dispatch, Woken, ParkedAudioWoken, SpuriousWake, RunCallback, CallbacksDone, Exit
<1>3. state' = "interrupted" => core' \in Parked
  <2>1. CASE LockAndTest \/ Retest
    <3>1. \/ Park \/ BecomeInterrupted
          \/ Dispatch /\ state # "interrupted"
      BY <2>1 DEF LockAndTest, Retest, Waiting
    <3>. QED
      BY <3>1 DEF Park, CoreGoes, BecomeInterrupted, Dispatch, Parked
  <2>2. CASE ~LockAndTest /\ ~Retest /\ state = "interrupted"
    <3>1. core \in Parked
      BY <1>0, <2>2 DEF Granted
    <3>2. Woken \/ ParkedAudioWoken \/ SpuriousWake
      BY <1>1, <2>2, <3>1
      DEF CoreStep, CoreProgress, CoreChoice, Boot, Check, Loop, RunLoopReturns, InMachine,
          PostFrame, PostFrameWoken, ProduceAudio, ProduceAudioWoken, Shutdown,
          ChangeStateInLoop, PauseFromThread, WaitFromThread, RequestFromThread, InUserCode,
          SetSyncFromThread, RunCallback, CallbacksDone, Exit, Parked
    <3>. QED
      BY <3>2 DEF Woken, ParkedAudioWoken, SpuriousWake, CoreGoes, Parked
  <2>3. CASE ~LockAndTest /\ ~Retest /\ state # "interrupted"
    <3>1. state' = state \/ state' \in {"running", "exiting", "shutdown", Poked(state)}
      BY <1>1, <2>3
      DEF CoreStep, CoreProgress, CoreChoice, CoreGoes, threadVars, Boot, Check, Loop,
          RunLoopReturns, PostFrame, PostFrameWoken, ProduceAudio, ProduceAudioWoken, Shutdown,
          ChangeStateInLoop, PauseFromThread, WaitFromThread, RequestFromThread, Send,
          SetSyncFromThread, Woken, ParkedAudioWoken, SpuriousWake, RunCallback, CallbacksDone,
          Exit
    <3>. QED
      BY <2>3, <3>1, PokedFacts
  <2>. QED
    BY <2>1, <2>2, <2>3
<1>4. ASSUME NEW u \in Frontends, holds[u] PROVE state' \in Ended \cup {"interrupted"}
  BY <1>0, <1>1, <1>4, CoreState, PokedFacts
  DEF Granted, Boot, BootQuiet, Shutdown, ChangeStateInLoop, Exit, Ended, Interrupts
<1>. QED
  BY <1>2, <1>3, <1>4 DEF Granted

LEMMA ExclusionInductive ==
    ASSUME OneInterrupter
    PROVE  ExclusionInv /\ [Next]_vars => ExclusionInv'
<1>. SUFFICES ASSUME ExclusionInv, [Next]_vars PROVE Granted'
  BY TakersKept, HeldInductive DEF ExclusionInv, OneInterrupter
<1>1. ASSUME NEW t \in Frontends, FrontendStep(t) PROVE Granted'
  BY <1>1, FrontendGrants
<1>2. CASE CoreStep
  BY <1>2, CoreGrants
<1>3. CASE DeviceStep
  <2>1. UNCHANGED holds
    BY <1>3 DEF DeviceStep, FrameStart, FrameWaited, FrameEnd, ConsumeAudio, callerVars
  <2>. QED
    BY <1>3, <2>1, DevicePlace DEF ExclusionInv, Granted, threadVars
<1>4. CASE UNCHANGED vars
  BY <1>4 DEF ExclusionInv, Granted, vars, threadVars, coreVars, callerVars
<1>. QED
  BY <1>1, <1>2, <1>3, <1>4 DEF Next, Terminated

\* mCoreThreadInterrupt returns with the core thread in its wait, and it stays there
\* until mCoreThreadContinue, whatever the machine and the devices were doing.
THEOREM InterruptExcludes == ASSUME OneInterrupter PROVE Spec => []InterruptExclusion
<1>1. Init => ExclusionInv
  <2>1. Init => HeldInv
    BY InitHeld
  <2>2. Init => ~coreHolds /\ Takers /\ Granted
    BY DEF Init, Takers, Granted, HolderSet
  <2>. QED
    BY <2>1, <2>2 DEF ExclusionInv
<1>2. ExclusionInv => InterruptExclusion
  BY DEF ExclusionInv, Granted, InterruptExclusion
<1>. QED
  BY <1>1, <1>2, ExclusionInductive, PTL DEF Spec
----------------------------------------------------------------------------
(* A request that is waited for, from the call to the return.              *)

Answerable == {"Reset", "RunFunction"}

\* No two frontends call mCoreThreadReset, and no two mCoreThreadRunFunction: there
\* is one threadContext->run (line 658), and one bit for any number of resets.
OneRequester ==
    \A o \in Answerable : \A t, u \in Frontends :
        o \in FrontendOps[t] /\ o \in FrontendOps[u] => t = u

Asks(t, o) == pc[t] = "poll" /\ op[t] = o

\* The core thread holds a request from the moment it takes it to the turn after
\* the one that carries it out, and the caller waits for as long.
AsksKept ==
    \A o \in Answerable :
        /\ Bit(o) \in requested => \E t \in Frontends : Asks(t, o)
        /\ \A t \in Frontends : Asks(t, o) =>
              /\ o \in FrontendOps[t]
              /\ Bit(o) \in requested \/ t \in served
              /\ Bit(o) \in pending => Bit(o) \in todo \/ t \in served
              /\ o = "RunFunction" => run = t

PendingKept ==
    /\ \A o \in Answerable : /\ Bit(o) \in pending => Bit(o) \in requested
                             /\ Bit(o) \in todo => Bit(o) \in pending
    /\ todo # {} => core = "callbacks"

AskInv == Inv /\ PendingKept /\ AsksKept

LEMMA BitFacts ==
    /\ Bit("Reset") = "RESET" /\ Bit("RunFunction") = "RUN_ON"
    /\ \A o \in Answerable : Bit(o) \in {"RESET", "RUN_ON"} /\ Bit(o) \notin {"PAUSE", "WAIT"}
    /\ \A o, p \in Answerable : Bit(o) = Bit(p) => o = p
  BY DEF Bit, Answerable

\* Only these two operations set the bits, and no frontend clears one.
LEMMA FrontendBits ==
    ASSUME NEW t \in Frontends, FrontendStep(t)
    PROVE  /\ UNCHANGED <<pending, todo>>
           /\ \A o \in Answerable : Bit(o) \in requested => Bit(o) \in requested'
           /\ \A o \in Answerable : Bit(o) \in requested' /\ Bit(o) \notin requested
                 => (o = "Reset" /\ Reset(t)) \/ (o = "RunFunction" /\ RunFunction(t))
           /\ run' = run \/ RunFunction(t)
<1>1. CASE Reset(t)
  BY <1>1, BitFacts DEF Reset, Enter, Send, coreLocals, Answerable
<1>2. CASE RunFunction(t)
  BY <1>2, BitFacts DEF RunFunction, Enter, Send, coreLocals, Answerable
<1>3. CASE Pause(t) \/ Unpause(t) \/ TogglePause(t) \/ StopWaiting(t)
  <2>1. /\ UNCHANGED <<pending, todo, run>>
        /\ \/ requested' = requested \cup {"PAUSE"} \/ requested' = requested \ {"PAUSE"}
           \/ requested' = requested \ {"WAIT"}
    BY <1>3 DEF Pause, Unpause, TogglePause, SendPause, CancelPause, StopWaiting, Enter, Send,
       Cancel, coreLocals
  <2>. QED
    BY <2>1, BitFacts
<1>4. CASE ~(Reset(t) \/ RunFunction(t) \/ Pause(t) \/ Unpause(t) \/ TogglePause(t) \/ StopWaiting(t))
  <2>1. UNCHANGED <<pending, todo, requested, run>>
    BY <1>4 DEF FrontendStep, SleepOnInterrupt, Interrupt, Continue, MarkCrashed, LeaveCrash,
       End, EndSync, Join, SetSync, Poll, PollDone, Enter, threadVars, coreVars, coreLocals
  <2>. QED
    BY <2>1
<1>. QED
  BY <1>1, <1>2, <1>3, <1>4

\* A frontend that asks goes on asking until its wait is over.
LEMMA AsksGoOn ==
    ASSUME TypeOK, NEW t \in Frontends, FrontendStep(t), NEW u \in Frontends, NEW o \in Answerable,
           Asks(u, o)
    PROVE  Asks(u, o)' \/ (u = t /\ PollDone(t))
<1>1. ASSUME NEW places, places \in {pc, WokenFrontends}, NEW place, NEW p,
             Go(places, t, place, p), pc[t] # "poll"
      PROVE  Asks(u, o)'
  BY <1>1 DEF TypeOK, Go, Asks, WokenFrontends, Moved
<1>2. CASE PollDone(t)
  BY <1>2 DEF TypeOK, PollDone, Back, Go, Asks
<1>3. CASE Poll(t)
  BY <1>3 DEF TypeOK, Poll, Asks, WokenFrontends, Moved
<1>4. CASE ~Poll(t) /\ ~PollDone(t)
  <2>1. pc[t] # "poll"
    BY <1>4 DEF FrontendStep, SleepOnInterrupt, Interrupt, Continue, Reset, RunFunction, Pause,
       Unpause, TogglePause, StopWaiting, MarkCrashed, LeaveCrash, End, EndSync, Join, SetSync,
       Enter, MayCall
  <2>2. \E places \in {pc, WokenFrontends} : \E place, p : Go(places, t, place, p)
    BY <1>4 DEF FrontendStep, SleepOnInterrupt, Interrupt, Continue, Reset, RunFunction, Pause,
       Unpause, TogglePause, SendPause, CancelPause, StopWaiting, MarkCrashed, LeaveCrash, End,
       EndSync, Join, SetSync, WaitFrom, WakeAndReturn, Back
  <2>. QED
    BY <1>1, <2>1, <2>2
<1>. QED
  BY <1>2, <1>3, <1>4

\* A frontend that asks has just called, or asked before.
LEMMA AsksBegin ==
    ASSUME TypeOK, NEW t \in Frontends, FrontendStep(t), NEW u \in Frontends, NEW o \in Answerable,
           Asks(u, o)'
    PROVE  \/ Asks(u, o) /\ (u \in served => u \in served')
           \/ /\ u = t /\ o \in FrontendOps[t] /\ pc[t] # "poll" /\ Bit(o) \in requested'
              /\ o = "RunFunction" => run' = t
<1>1. CASE Reset(t)
  <2>1. \E place, p : Go(pc, t, place, p) /\ p \in {"Reset", "none"}
    BY <1>1 DEF Reset, WaitFrom
  <2>2. pc[t] # "poll" /\ "Reset" \in FrontendOps[t] /\ Bit("Reset") \in requested'
        /\ served' = served \ {t}
    BY <1>1, EnterIdle, BitFacts DEF Reset, Enter, MayCall, Send
  <2>. QED
    BY <2>1, <2>2 DEF TypeOK, Go, Asks, Answerable
<1>2. CASE RunFunction(t)
  <2>1. \E place, p : Go(pc, t, place, p) /\ p \in {"RunFunction", "none"}
    BY <1>2 DEF RunFunction, WaitFrom
  <2>2. pc[t] # "poll" /\ "RunFunction" \in FrontendOps[t] /\ Bit("RunFunction") \in requested'
        /\ served' = served \ {t} /\ run' = t
    BY <1>2, EnterIdle, BitFacts DEF RunFunction, Enter, MayCall, Send
  <2>. QED
    BY <2>1, <2>2 DEF TypeOK, Go, Asks, Answerable
<1>3. CASE Poll(t)
  BY <1>3 DEF TypeOK, Poll, Asks, WokenFrontends, Moved, history
<1>4. CASE ~Reset(t) /\ ~RunFunction(t) /\ ~Poll(t)
  <2>1. served' = served
    BY <1>4 DEF FrontendStep, SleepOnInterrupt, Interrupt, Continue, Pause,
       Unpause, TogglePause, SendPause, CancelPause, StopWaiting, MarkCrashed, LeaveCrash, End,
       EndSync, Join, SetSync, PollDone, history
  <2>2. \E places \in {pc, WokenFrontends} : \E place, p :
           Go(places, t, place, p) /\ (place # "poll" \/ p \notin Answerable)
    BY <1>4 DEF FrontendStep, SleepOnInterrupt, Interrupt, Continue, Pause,
       Unpause, TogglePause, SendPause, CancelPause, StopWaiting, MarkCrashed, LeaveCrash, End,
       EndSync, Join, SetSync, PollDone, WaitFrom, WakeAndReturn, Back, Answerable
  <2>. QED
    BY <2>1, <2>2 DEF TypeOK, Go, Asks, WokenFrontends, Moved
<1>. QED
  BY <1>1, <1>2, <1>3, <1>4

LEMMA FrontendAsks ==
    ASSUME OneRequester, AskInv, NEW t \in Frontends, FrontendStep(t)
    PROVE  PendingKept' /\ AsksKept'
<1>0. TypeOK /\ PendingKept /\ AsksKept
  BY DEF AskInv, Inv
<1>1. PendingKept'
  <2>1. core = "callbacks" => core' = "callbacks"
    BY DEF FrontendStep, SleepOnInterrupt, Interrupt, Continue, WakeAndReturn, Reset, RunFunction,
       Pause, Unpause, TogglePause, SendPause, CancelPause, StopWaiting, MarkCrashed, LeaveCrash,
       End, EndSync, Join, SetSync, SetSyncTo, Poll, PollDone, coreVars, threadVars, WakeState,
       WakeRequired, WakeAudio, Moved
  <2>. QED
    BY <1>0, <2>1, FrontendBits DEF PendingKept
<1>2. ASSUME NEW o \in Answerable, NEW u \in Frontends, Asks(u, o)'
      PROVE  /\ o \in FrontendOps[u]
             /\ Bit(o) \in requested' \/ u \in served'
             /\ Bit(o) \in pending' => Bit(o) \in todo' \/ u \in served'
             /\ o = "RunFunction" => run' = u
  <2>1. CASE Asks(u, o) /\ (u \in served => u \in served')
    <3>1. /\ o \in FrontendOps[u] /\ (Bit(o) \in requested \/ u \in served)
          /\ Bit(o) \in pending => Bit(o) \in todo \/ u \in served
          /\ o = "RunFunction" => run = u
      BY <1>0, <2>1 DEF AsksKept
    <3>2. ASSUME o = "RunFunction", RunFunction(t) PROVE run' = u
      <4>1. o \in FrontendOps[t] /\ run' = t
        BY <3>2 DEF RunFunction, Enter, MayCall
      <4>. QED
        BY <3>1, <4>1 DEF OneRequester
    <3>. QED
      BY <2>1, <3>1, <3>2, FrontendBits
  <2>2. CASE /\ u = t /\ o \in FrontendOps[t] /\ pc[t] # "poll" /\ Bit(o) \in requested'
             /\ o = "RunFunction" => run' = t
    <3>1. Bit(o) \notin requested
      <4>1. \A w \in Frontends : ~Asks(w, o)
        BY <1>0, <2>2 DEF AsksKept, OneRequester, Asks
      <4>. QED
        BY <1>0, <4>1 DEF AsksKept
    <3>. QED
      BY <1>0, <2>2, <3>1, FrontendBits DEF PendingKept
  <2>. QED
    BY <1>0, <1>2, <2>1, <2>2, AsksBegin
<1>3. ASSUME NEW o \in Answerable, Bit(o) \in requested' PROVE \E u \in Frontends : Asks(u, o)'
  <2>1. CASE Bit(o) \in requested
    <3>1. PICK u \in Frontends : Asks(u, o)
      BY <1>0, <2>1 DEF AsksKept
    <3>2. ~(u = t /\ PollDone(t))
      BY <2>1, <3>1 DEF PollDone, WaitOver, Asks, Answerable
    <3>. QED
      BY <1>0, <3>1, <3>2, AsksGoOn
  <2>2. CASE Bit(o) \notin requested
    <3>1. (o = "Reset" /\ Reset(t)) \/ (o = "RunFunction" /\ RunFunction(t))
      BY <1>3, <2>2, FrontendBits
    <3>2. WaitFrom(pc, t, o)
      BY <3>1 DEF Reset, RunFunction
    <3>3. ~WaitOver(o, state', requested')
      BY <1>3 DEF WaitOver, Answerable
    <3>. QED
      BY <1>0, <3>2, <3>3 DEF WaitFrom, Go, Asks, TypeOK
  <2>. QED
    BY <2>1, <2>2
<1>. QED
  BY <1>1, <1>2, <1>3 DEF AsksKept

\* The core thread leaves the callers in their waits.
LEMMA CoreKeepsAsks ==
    ASSUME TypeOK, CoreStep \/ DeviceStep
    PROVE  \A t \in Frontends, o \in Answerable : Asks(t, o)' <=> Asks(t, o)
<1>1. UNCHANGED op /\ (pc' = pc \/ pc' = WokenFrontends)
  BY DEF CoreStep, CoreProgress, CoreChoice, CoreGoes, callerVars, Boot, Check, Loop,
     RunLoopReturns, PostFrame, PostFrameWoken, ProduceAudio, ProduceAudioWoken, Crash, Shutdown,
     ChangeStateInLoop, PauseFromThread, WaitFromThread, RequestFromThread, InterruptFromThread,
     ContinueFromThread, SetSyncFromThread, LockAndTest, Retest, Park, BecomeInterrupted,
     Dispatch, Woken, ParkedAudioWoken, SpuriousWake, RunCallback, CallbacksDone, Exit,
     WakeFrontends, DeviceStep, FrameStart, FrameWaited, FrameEnd, ConsumeAudio
<1>. QED
  BY <1>1 DEF TypeOK, Asks, WokenFrontends, Moved

LEMMA DispatchAsks ==
    ASSUME AskInv, Dispatch, core # "callbacks"
    PROVE  PendingKept' /\ AsksKept'
<1>0. TypeOK /\ PendingKept /\ AsksKept /\ todo = {}
  BY DEF AskInv, Inv, PendingKept
<1>1. ASSUME NEW o \in Answerable
      PROVE  /\ Bit(o) \in requested' <=> Bit(o) \in requested /\ Bit(o) \notin pending
             /\ Bit(o) \in pending' <=> Bit(o) \in requested'
             /\ Bit(o) \in todo' <=> Bit(o) \in requested'
  <2>1. requested' = Left /\ pending' = Left /\ core' = "callbacks"
    BY DEF Dispatch
  <2>2. Bit(o) \in Left <=> Bit(o) \in requested /\ Bit(o) \notin pending
    BY <1>1, BitFacts DEF Left
  <2>3. Bit(o) \in todo' <=> Bit(o) \in Left
    <3>1. Bit(o) \in {"RESET", "RUN_ON"} /\ Bit(o) \notin {"paused", "unpaused"}
      BY <1>1, BitFacts
    <3>. QED
      BY <3>1 DEF Dispatch
  <2>. QED
    BY <2>1, <2>2, <2>3
<1>2. core' = "callbacks" /\ UNCHANGED <<run, served>>
  BY DEF Dispatch, history
<1>3. PendingKept'
  BY <1>1, <1>2 DEF PendingKept
<1>4. \A t \in Frontends, o \in Answerable : Asks(t, o)' <=> Asks(t, o)
  BY <1>0 DEF Dispatch, WakeFrontends, TypeOK, Asks, WokenFrontends, Moved
<1>5. AsksKept'
  BY <1>0, <1>1, <1>2, <1>4 DEF AsksKept
<1>. QED
  BY <1>3, <1>5

LEMMA CallbackAsks ==
    ASSUME AskInv, RunCallback
    PROVE  PendingKept' /\ AsksKept'
<1>0. TypeOK /\ PendingKept /\ AsksKept
  BY DEF AskInv, Inv
<1>1. UNCHANGED <<requested, pending, run, core, pc, op>>
  BY DEF RunCallback, threadVars, callerVars
<1>2. todo' = (todo \ {NextTodo}) \cup (IF NextTodo = "RESET" THEN {"resetCallback"} ELSE {})
  BY DEF RunCallback
<1>3. ASSUME NEW o \in Answerable PROVE Bit(o) \in todo' => Bit(o) \in todo
  BY <1>2, <1>3, BitFacts
<1>4. PendingKept'
  BY <1>0, <1>1, <1>3 DEF PendingKept, RunCallback
<1>5. served \subseteq served'
  BY DEF RunCallback
<1>6. ASSUME NEW o \in Answerable, NEW t \in Frontends, Asks(t, o), Bit(o) \in todo, Bit(o) \notin todo'
      PROVE  t \in served'
  <2>1. NextTodo = Bit(o)
    BY <1>2, <1>6
  <2>2. CASE o = "Reset"
    BY <1>6, <2>1, <2>2, BitFacts DEF RunCallback, Asks
  <2>3. CASE o = "RunFunction"
    <3>1. run = t
      BY <1>0, <1>6, <2>3 DEF AsksKept
    <3>. QED
      BY <2>1, <2>3, <3>1, BitFacts DEF RunCallback
  <2>. QED
    BY <2>2, <2>3 DEF Answerable
<1>7. AsksKept'
  BY <1>0, <1>1, <1>5, <1>6 DEF AsksKept, Asks
<1>. QED
  BY <1>4, <1>7

LEMMA CoreAsks ==
    ASSUME AskInv, RequestInv, CoreStep
    PROVE  PendingKept' /\ AsksKept'
<1>0. TypeOK /\ PendingKept /\ AsksKept /\ BootQuiet
  BY DEF AskInv, Inv, RequestInv
<1>1. CASE RunCallback
  BY <1>1, CallbackAsks
<1>2. CASE (LockAndTest \/ Retest) /\ Dispatch
  BY <1>2, DispatchAsks DEF LockAndTest, Retest
<1>3. CASE Boot
  <2>1. requested = {} /\ UNCHANGED <<requested, pending, run, served>> /\ core' = "callbacks"
        /\ todo' = {"resetCallback"}
    BY <1>0, <1>3 DEF Boot, BootQuiet, history
  <2>2. \A o \in Answerable : Bit(o) \notin pending /\ Bit(o) \notin todo'
    BY <1>0, <2>1, BitFacts DEF PendingKept
  <2>. QED
    BY <1>0, <2>1, <2>2, CoreKeepsAsks DEF PendingKept, AsksKept
<1>4. CASE ~RunCallback /\ ~((LockAndTest \/ Retest) /\ Dispatch) /\ ~Boot
  <2>1. UNCHANGED <<pending, todo, run, served>>
    BY <1>4 DEF CoreStep, CoreProgress, CoreChoice, CoreGoes, coreVars, coreLocals, threadVars,
     history, Check, Loop,
     RunLoopReturns, PostFrame, PostFrameWoken, ProduceAudio, ProduceAudioWoken, Crash, Shutdown,
     ChangeStateInLoop, PauseFromThread, WaitFromThread, RequestFromThread, InterruptFromThread,
     ContinueFromThread, SetSyncFromThread, LockAndTest, Retest, Park, BecomeInterrupted,
     Woken, ParkedAudioWoken, SpuriousWake, CallbacksDone, Exit
  <2>2. requested' = requested \/ \E bit \in {"PAUSE", "WAIT"} : requested' = requested \cup {bit}
    BY <1>4 DEF CoreStep, CoreProgress, CoreChoice, CoreGoes, coreVars, coreLocals, threadVars,
     Check, Loop,
     RunLoopReturns, PostFrame, PostFrameWoken, ProduceAudio, ProduceAudioWoken, Crash, Shutdown,
     ChangeStateInLoop, PauseFromThread, WaitFromThread, RequestFromThread, Send, InterruptFromThread,
     ContinueFromThread, SetSyncFromThread, LockAndTest, Retest, Park, BecomeInterrupted,
     Woken, ParkedAudioWoken, SpuriousWake, CallbacksDone, Exit
  <2>3. \A o \in Answerable : Bit(o) \in requested' <=> Bit(o) \in requested
    BY <2>2, BitFacts
  <2>4. core = "callbacks" /\ todo # {} => core' = "callbacks"
    BY <1>4 DEF CoreStep, CoreProgress, CoreChoice, CoreGoes, coreVars, Check, Loop,
     RunLoopReturns, InMachine, PostFrame, PostFrameWoken, ProduceAudio, ProduceAudioWoken, Crash, Shutdown,
     ChangeStateInLoop, PauseFromThread, WaitFromThread, RequestFromThread, InterruptFromThread,
     ContinueFromThread, SetSyncFromThread, SetSyncTo, LockAndTest, Retest,
     Woken, ParkedAudioWoken, SpuriousWake, CallbacksDone, Exit, WakeAudio, Moved
  <2>5. PendingKept'
    BY <1>0, <2>1, <2>3, <2>4 DEF PendingKept
  <2>6. AsksKept'
    BY <1>0, <2>1, <2>3, CoreKeepsAsks DEF AsksKept
  <2>. QED
    BY <2>5, <2>6
<1>. QED
  BY <1>1, <1>2, <1>3, <1>4

LEMMA AskInductive ==
    ASSUME OneRequester
    PROVE  AskInv /\ RequestInv /\ [Next]_vars => AskInv'
<1>. SUFFICES ASSUME AskInv, RequestInv, [Next]_vars PROVE PendingKept' /\ AsksKept'
  BY Inductive DEF AskInv
<1>0. TypeOK /\ PendingKept /\ AsksKept
  BY DEF AskInv, Inv
<1>1. ASSUME NEW t \in Frontends, FrontendStep(t) PROVE PendingKept' /\ AsksKept'
  BY <1>1, FrontendAsks
<1>2. CASE CoreStep
  BY <1>2, CoreAsks
<1>3. CASE DeviceStep
  <2>1. UNCHANGED <<requested, pending, todo, run, served>>
    BY <1>3 DEF DeviceStep, FrameStart, FrameWaited, FrameEnd, ConsumeAudio, threadVars,
       coreVars, coreLocals, history
  <2>2. core = "callbacks" => core' = "callbacks"
    BY <1>3 DEF DeviceStep, FrameStart, FrameWaited, FrameEnd, ConsumeAudio, coreVars,
       WakeRequired, WakeAudio, Moved
  <2>. QED
    BY <1>0, <1>3, <2>1, <2>2, CoreKeepsAsks DEF PendingKept, AsksKept
<1>4. CASE UNCHANGED vars
  BY <1>0, <1>4 DEF PendingKept, AsksKept, Asks, vars, threadVars, coreVars, callerVars, history
<1>. QED
  BY <1>1, <1>2, <1>3, <1>4 DEF Next, Terminated

\* With one frontend that resets and one that runs functions, whatever else
\* they and others interrupt, pause or end meanwhile, mCoreThreadReset returns after
\* the reset and mCoreThreadRunFunction after the function given to it has run.
THEOREM RequestsAreServed == ASSUME OneRequester PROVE Spec => RequestServedOnReturn
<1>1. Init => AskInv
  <2>1. Init => PendingKept /\ AsksKept
    BY DEF Init, PendingKept, AsksKept, Asks
  <2>. QED
    BY <2>1, InitType, InitCounts DEF AskInv, Inv
<1>2. AskInv => [\A t \in Frontends :
                   PollDone(t) /\ op[t] \in {"Reset", "RunFunction"} => t \in served]_vars
  <2>. SUFFICES ASSUME AskInv, NEW t \in Frontends, PollDone(t), op[t] \in Answerable
                PROVE  t \in served
    BY DEF Answerable
  <2>1. Asks(t, op[t]) /\ Bit(op[t]) \notin requested
    BY DEF PollDone, WaitOver, Asks, Answerable
  <2>. QED
    BY <2>1 DEF AskInv, AsksKept
<1>. QED
  BY <1>1, <1>2, AskInductive, RequestInvHolds, PTL DEF Spec, RequestServedOnReturn

----------------------------------------------------------------------------
(* Nobody sleeps through a call.                                           *)

\* t is in the loop around _wait, and has to go on with it.
Unanswered(t) == pc[t] = "poll" /\ ~WaitOver(op[t], state, requested)

\* The core thread sleeps on stateCond in a state it waits in, or a frontend is
\* there that wakes it in its next round of _wait: it never sleeps through a
\* request, an interrupt or mCoreThreadEnd.
CoreAttended ==
    core = "parked" =>
        \/ state \in Waiting
        \/ state \in {"request", "interrupting"} /\ \E t \in Frontends : Unanswered(t)

\* The core thread holds an interrupt in code of the frontend that it runs.
CoreHolding == coreHolds => core = "runLoop" \/ (core = "callbacks" /\ todo # {})

AttendInv == Inv /\ CoreHolding /\ CoreAttended

LEMMA FrontendAttends ==
    ASSUME AttendInv, NEW t \in Frontends, FrontendStep(t)
    PROVE  CoreAttended'
<1>. SUFFICES ASSUME core' = "parked", state' \notin Waiting
              PROVE  /\ state' \in {"request", "interrupting"}
                     /\ \E u \in Frontends : Unanswered(u)'
  BY DEF CoreAttended
<1>0. TypeOK /\ CoreAttended
  BY DEF AttendInv, Inv
\* What a step that only lets some frontends go on leaves as it was.
<1>1. ASSUME NEW places, places \in {pc, WokenFrontends}, NEW place, NEW o,
             Go(places, t, place, o), ~Unanswered(t), NEW u \in Frontends, Unanswered(u),
             state' = state, \A p \in {"RESET", "RUN_ON"} : p \in requested => p \in requested'
      PROVE  Unanswered(u)'
  <2>1. u # t
    BY <1>1
  <2>2. pc'[u] = "poll" /\ op'[u] = op[u]
    BY <1>0, <1>1, <2>1 DEF TypeOK, Go, WokenFrontends, Moved, Unanswered
  <2>. QED
    BY <1>1, <2>2 DEF Unanswered, WaitOver, Bit
<1>2. ASSUME NEW o, WaitFrom(pc, t, o), ~WaitOver(o, state', requested')
      PROVE  Unanswered(t)'
  BY <1>0, <1>2 DEF TypeOK, WaitFrom, Go, Unanswered
<1>3. CASE \/ \E o \in WaitsOnInterrupt : SleepOnInterrupt(t, o)
           \/ EndSync(t) \/ Join(t) \/ SetSync(t) \/ PollDone(t)
  <2>1. core = "parked" /\ UNCHANGED <<state, requested>>
    BY <1>3 DEF SleepOnInterrupt, EndSync, Join, SetSync, SetSyncTo, PollDone, threadVars,
       coreVars, WakeAudio, WakeRequired, Moved
  <2>2. \E places \in {pc, WokenFrontends} : \E place, o : Go(places, t, place, o)
    BY <1>3 DEF SleepOnInterrupt, EndSync, Join, SetSync, PollDone, Back
  <2>3. ~Unanswered(t)
    BY <1>3, EnterIdle DEF SleepOnInterrupt, MayCall, EndSync, Join, SetSync, PollDone, Unanswered
  <2>. QED
    BY <1>0, <1>1, <2>1, <2>2, <2>3 DEF CoreAttended
<1>4. CASE Interrupt(t)
  <2>1. core = "parked" /\ pc[t] # "poll" /\ requested' = requested
    BY <1>4, EnterIdle DEF Interrupt
  <2>2. CASE interruptDepth' > 1 \/ ~IsActive
    BY <1>0, <1>1, <1>4, <2>1, <2>2 DEF Interrupt, Back, Unanswered, CoreAttended
  <2>3. CASE ~(interruptDepth' > 1 \/ ~IsActive)
    <3>1. state' = "interrupting" /\ Go(pc, t, "poll", "Interrupt")
      BY <1>4, <2>3 DEF Interrupt
    <3>. QED
      BY <1>0, <3>1 DEF TypeOK, Go, Unanswered, WaitOver
  <2>. QED
    BY <2>2, <2>3
<1>5. CASE Reset(t) \/ RunFunction(t)
  <2>1. PICK o \in Answerable : WaitFrom(pc, t, o) /\ Send(Bit(o))
    BY <1>5, BitFacts DEF Reset, RunFunction, Answerable
  <2>2. core = "parked" /\ pc[t] # "poll"
    BY <1>5, EnterIdle DEF Reset, RunFunction
  <2>3. ~WaitOver(o, state', requested')
    BY <2>1 DEF Send, WaitOver, Answerable
  <2>4. Unanswered(t)'
    BY <1>2, <2>1, <2>3
  <2>5. state' \in {"request", "interrupting"}
    BY <1>0, <2>1, <2>2 DEF Send, Poked, CoreAttended, Waiting
  <2>. QED
    BY <2>4, <2>5
<1>6. CASE Pause(t) \/ Unpause(t) \/ TogglePause(t) \/ StopWaiting(t)
  <2>1. ~CancelPause(t) /\ ~StopWaiting(t)
    BY DEF CancelPause, StopWaiting, WakeAndReturn, WakeState, Moved
  <2>2. SendPause(t) /\ core = "parked" /\ pc[t] # "poll"
    BY <1>6, <2>1, EnterIdle DEF Pause, Unpause, TogglePause, SendPause
  <2>3. state' = Poked(state) /\ WaitFrom(pc, t, "Pause") /\ requested' = requested \cup {"PAUSE"}
    BY <2>2 DEF SendPause, Send
  <2>4. CASE state' = "request"
    BY <1>2, <2>3, <2>4 DEF WaitOver
  <2>5. CASE state' # "request"
    <3>1. state' = state
      BY <2>3, <2>5, PokedFacts
    <3>2. \E place, o : Go(pc, t, place, o)
      BY <2>3 DEF WaitFrom
    <3>. QED
      BY <1>0, <1>1, <2>2, <2>3, <3>1, <3>2 DEF Unanswered, CoreAttended
  <2>. QED
    BY <2>4, <2>5
<1>7. CASE Continue(t)
  <2>1. ~Resumes
    BY <1>7 DEF Continue, WakeAndReturn, WakeState, Moved
  <2>2. /\ core = "parked" /\ pc[t] # "poll" /\ UNCHANGED <<state, requested>>
        /\ Go(pc, t, "idle", "none")
    BY <1>7, <2>1, EnterIdle DEF Continue, ContinueState, Back
  <2>. QED
    BY <1>0, <1>1, <2>2 DEF Unanswered, CoreAttended
<1>8. CASE \/ MarkCrashed(t) \/ End(t) \/ Poll(t)
           \/ \E o \in {"ClearCrashed", "SetRewinding"} : LeaveCrash(t, o)
  <2>1. PICK o : LeaveCrash(t, o)
    BY <1>8 DEF MarkCrashed, End, Poll, WakeState, WakeAudio, WakeRequired, Moved, Waiting
  <2>2. /\ core = "parked" /\ pc[t] # "poll" /\ UNCHANGED <<state, requested>>
        /\ Go(pc, t, "idle", "none")
    BY <2>1, EnterIdle DEF LeaveCrash, WakeAndReturn, Back, WakeState, Moved
  <2>. QED
    BY <1>0, <1>1, <2>2 DEF Unanswered, CoreAttended
<1>. QED
  BY <1>3, <1>4, <1>5, <1>6, <1>7, <1>8 DEF FrontendStep

LEMMA FrontendLeavesHolding ==
    ASSUME CoreHolding, NEW t \in Frontends, FrontendStep(t)
    PROVE  CoreHolding'
<1>1. UNCHANGED <<todo, coreHolds>>
  BY FrontendPlace, FrontendBits
<1>2. core \in {"runLoop", "callbacks"} => core' = core
  BY DEF FrontendStep, SleepOnInterrupt, Interrupt, Continue, WakeAndReturn, Reset, RunFunction,
     Pause, Unpause, TogglePause, SendPause, CancelPause, StopWaiting, MarkCrashed, LeaveCrash,
     End, EndSync, Join, SetSync, SetSyncTo, Poll, PollDone, coreVars, threadVars, WakeState,
     WakeRequired, WakeAudio, Moved
<1>. QED
  BY <1>1, <1>2 DEF CoreHolding

LEMMA CoreAttends ==
    ASSUME AttendInv, CoreStep
    PROVE  CoreHolding' /\ CoreAttended'
<1>0. CoreHolding /\ CoreAttended
  BY DEF AttendInv
<1>1. CASE LockAndTest \/ Retest
  <2>1. ~coreHolds /\ UNCHANGED coreHolds
    BY <1>0, <1>1 DEF LockAndTest, Retest, Park, CoreGoes, BecomeInterrupted, Dispatch, CoreHolding
  <2>2. \/ core' # "parked" \/ state' \in Waiting
    BY <1>1 DEF LockAndTest, Retest, Park, CoreGoes, BecomeInterrupted, Dispatch, Waiting, threadVars
  <2>. QED
    BY <2>1, <2>2 DEF CoreHolding, CoreAttended
<1>2. CASE Crash \/ Shutdown
  BY <1>0, <1>2 DEF Crash, Shutdown, ChangeStateInLoop, InMachine, coreVars, CoreHolding, CoreAttended
<1>3. CASE PauseFromThread \/ WaitFromThread \/ InterruptFromThread
  BY <1>0, <1>3 DEF PauseFromThread, WaitFromThread, RequestFromThread, InterruptFromThread,
     InUserCode, coreVars, coreLocals, CoreHolding, CoreAttended
<1>4. CASE ContinueFromThread
  BY <1>0, <1>4 DEF ContinueFromThread, CoreHolding, CoreAttended
<1>5. CASE SetSyncFromThread
  BY <1>0, <1>5 DEF SetSyncFromThread, SetSyncTo, InUserCode, WakeAudio, Moved, coreLocals,
     CoreHolding, CoreAttended
<1>6. CASE RunCallback
  BY <1>0, <1>6 DEF RunCallback, CoreHolding, CoreAttended
<1>7. CASE \/ Boot \/ Exit
  BY <1>0, <1>7 DEF Boot, Exit, coreLocals, CoreHolding, CoreAttended
<1>8. CASE \/ Check \/ Loop \/ RunLoopReturns \/ PostFrame \/ PostFrameWoken \/ ProduceAudio
           \/ ProduceAudioWoken \/ Woken \/ ParkedAudioWoken \/ SpuriousWake \/ CallbacksDone
  <2>1. ~coreHolds /\ UNCHANGED coreHolds
    BY <1>0, <1>8 DEF Check, Loop, RunLoopReturns, InMachine, PostFrame, PostFrameWoken,
       ProduceAudio, ProduceAudioWoken, Woken, ParkedAudioWoken, SpuriousWake, CallbacksDone,
       CoreGoes, CoreHolding
  <2>2. core' # "parked"
    BY <1>8 DEF Check, Loop, RunLoopReturns, InMachine, PostFrame, PostFrameWoken,
       ProduceAudio, ProduceAudioWoken, Woken, ParkedAudioWoken, SpuriousWake, CallbacksDone,
       CoreGoes
  <2>. QED
    BY <2>1, <2>2 DEF CoreHolding, CoreAttended
<1>. QED
  BY <1>1, <1>2, <1>3, <1>4, <1>5, <1>6, <1>7, <1>8 DEF CoreStep, CoreProgress, CoreChoice

LEMMA AttendInductive == AttendInv /\ [Next]_vars => AttendInv'
<1>. SUFFICES ASSUME AttendInv, [Next]_vars PROVE CoreHolding' /\ CoreAttended'
  BY Inductive DEF AttendInv
<1>0. CoreHolding /\ CoreAttended
  BY DEF AttendInv
<1>1. ASSUME NEW t \in Frontends, FrontendStep(t) PROVE CoreHolding' /\ CoreAttended'
  BY <1>0, <1>1, FrontendAttends, FrontendLeavesHolding
<1>2. CASE CoreStep
  BY <1>2, CoreAttends
<1>3. CASE DeviceStep
  <2>1. UNCHANGED <<state, requested, todo, coreHolds, pc, op>>
    BY <1>3 DEF DeviceStep, FrameStart, FrameWaited, FrameEnd, ConsumeAudio, threadVars,
       coreVars, coreLocals, callerVars
  <2>2. core' = "parked" <=> core = "parked"
    BY <1>3 DEF DeviceStep, FrameStart, FrameWaited, FrameEnd, ConsumeAudio, coreVars,
       WakeRequired, WakeAudio, Moved
  <2>3. core \in {"runLoop", "callbacks"} => core' = core
    BY <1>3 DEF DeviceStep, FrameStart, FrameWaited, FrameEnd, ConsumeAudio, coreVars,
       WakeRequired, WakeAudio, Moved
  <2>. QED
    BY <1>0, <2>1, <2>2, <2>3 DEF CoreHolding, CoreAttended, Unanswered
<1>4. CASE UNCHANGED vars
  BY <1>0, <1>4 DEF CoreHolding, CoreAttended, Unanswered, vars, threadVars, coreVars, coreLocals, callerVars
<1>. QED
  BY <1>1, <1>2, <1>3, <1>4 DEF Next, Terminated

\* Several operations change `state` without a broadcast (_sendRequest, the first
\* mCoreThreadInterrupt): each leaves a caller behind whose polling wakes the core
\* thread, whatever others do before it does.
THEOREM CoreIsAttended == Spec => []CoreAttended
<1>1. Init => AttendInv
  <2>1. Init => CoreHolding /\ CoreAttended
    BY DEF Init, CoreHolding, CoreAttended
  <2>. QED
    BY <2>1, InitType, InitCounts DEF AttendInv, Inv
<1>. QED
  BY <1>1, AttendInductive, PTL DEF Spec, AttendInv

----------------------------------------------------------------------------
(* Who sleeps in _waitOnInterrupt has another to wait for.                 *)

\* mCoreThreadMarkCrashed is left out: it writes `state` without a broadcast (line
\* 536), so that a sleeper goes on sleeping until the next one.
NoMarkCrashed == \A t \in Frontends : "MarkCrashed" \notin FrontendOps[t]

\* A frontend asleep in _waitOnInterrupt waits for an interrupt that somebody else
\* holds or is about to: no frontend sleeps for itself, or after the last Continue.
SleepersHaveHolder ==
    \A t \in Frontends : pc[t] = "asleep" => coreHolds \/ HolderSet \ {t} # {}

Sleepers ==
    /\ state \in Interrupts => interruptDepth > 0
    /\ core = "exit" => state \in Ended
    /\ \A t \in Frontends : pc[t] = "asleep" => state \in Interrupts /\ ~holds[t]

SleepInv == Inv /\ RequestInv /\ Sleepers

\* Who sleeps after a frontend's step slept before, or has just found an interrupt.
LEMMA FrontendSleeps ==
    ASSUME TypeOK, NEW t \in Frontends, FrontendStep(t), NEW u \in Frontends, pc'[u] = "asleep"
    PROVE  \/ /\ u = t /\ ~holds[t] /\ state \in Interrupts /\ UNCHANGED <<state, holds>>
           \/ /\ pc[u] = "asleep" /\ (holds'[u] => holds[u])
              /\ \/ state' = state \/ state' = Poked(state)
                 \/ Interrupt(t) \/ (Continue(t) /\ ~Resumes) \/ MarkCrashed(t)
<1>1. CASE \E o \in WaitsOnInterrupt : SleepOnInterrupt(t, o)
  BY <1>1 DEF TypeOK, SleepOnInterrupt, MayCall, Go, threadVars
<1>2. ASSUME NEW place, NEW o, Go(pc, t, place, o), place # "asleep"
      PROVE  u # t /\ pc[u] = "asleep"
  BY <1>2 DEF TypeOK, Go
<1>3. ASSUME NEW place, NEW o, Go(WokenFrontends, t, place, o), place # "asleep" PROVE FALSE
  BY <1>3 DEF TypeOK, Go, WokenFrontends, Moved
<1>4. CASE Interrupt(t)
  BY <1>2, <1>4 DEF TypeOK, Interrupt, Back
<1>5. CASE Continue(t)
  <2>1. CASE Resumes
    BY <1>3, <1>5, <2>1 DEF Continue, WakeAndReturn
  <2>2. CASE ~Resumes
    BY <1>2, <1>5, <2>2 DEF TypeOK, Continue, Back
  <2>. QED
    BY <2>1, <2>2
<1>6. CASE Reset(t) \/ RunFunction(t) \/ Pause(t) \/ Unpause(t) \/ TogglePause(t)
  <2>1. PICK places, o : places \in {pc, WokenFrontends} /\ WaitFrom(places, t, o)
    BY <1>6 DEF Reset, RunFunction, Pause, Unpause, TogglePause, SendPause, CancelPause
  <2>2. Go(places, t, "idle", "none") \/ Go(places, t, "poll", o)
    BY <2>1 DEF WaitFrom
  <2>3. state' = Poked(state) /\ holds' = holds
    BY <1>6 DEF Reset, RunFunction, Pause, Unpause, TogglePause, SendPause, CancelPause, Send, Cancel
  <2>. QED
    BY <1>2, <1>3, <2>1, <2>2, <2>3
<1>7. CASE StopWaiting(t) \/ End(t)
  BY <1>3, <1>7 DEF StopWaiting, End, WakeAndReturn
<1>8. CASE MarkCrashed(t) \/ EndSync(t) \/ Join(t) \/ SetSync(t)
  BY <1>2, <1>8 DEF MarkCrashed, EndSync, Join, SetSync, Back, threadVars
<1>9. CASE \E o \in {"ClearCrashed", "SetRewinding"} : LeaveCrash(t, o)
  BY <1>2, <1>3, <1>9 DEF LeaveCrash, Back, WakeAndReturn
<1>10. CASE Poll(t)
  BY <1>10 DEF TypeOK, Poll, WokenFrontends, Moved
<1>11. CASE PollDone(t)
  BY <1>2, <1>11 DEF TypeOK, PollDone, Back, threadVars
<1>. QED
  BY <1>1, <1>4, <1>5, <1>6, <1>7, <1>8, <1>9, <1>10, <1>11 DEF FrontendStep

LEMMA FrontendSleepers ==
    ASSUME NoMarkCrashed, SleepInv, NEW t \in Frontends, FrontendStep(t)
    PROVE  Sleepers'
<1>0. TypeOK /\ Sleepers /\ interruptDepth \in Nat /\ state \in States
  BY DEF SleepInv, Inv, TypeOK
<1>1. ~MarkCrashed(t)
  BY DEF NoMarkCrashed, MarkCrashed, Enter, MayCall
<1>2. state' \in Interrupts => interruptDepth' > 0
  <2>1. CASE Interrupt(t)
    BY <1>0, <2>1 DEF Interrupt, Deeper
  <2>2. CASE Continue(t)
    <3>1. interruptDepth' = interruptDepth - 1 /\ interruptDepth >= 1
      BY <1>0, <2>2, HolderCounted DEF Continue, ContinueState, SleepInv
    <3>2. CASE Resumes
      BY <2>2, <3>2 DEF Continue, ContinueState, Interrupts
    <3>3. CASE ~Resumes
      BY <1>0, <2>2, <3>1, <3>3 DEF Continue, ContinueState, Resumes, IsActive, Active, Interrupts
    <3>. QED
      BY <3>2, <3>3
  <2>3. CASE ~Interrupt(t) /\ ~Continue(t)
    <3>1. interruptDepth' = interruptDepth
      BY <2>3, OthersKeepHolders DEF SleepInv
    <3>2. state' \in Interrupts => state' = state
      BY <1>1, <2>3, FrontendState, PokedFacts DEF Interrupts
    <3>. QED
      BY <1>0, <3>1, <3>2 DEF Sleepers
  <2>. QED
    BY <2>1, <2>2, <2>3
<1>3. core' = "exit" => state' \in Ended
  <2>1. core' = "exit" => core = "exit"
    BY DEF FrontendStep, SleepOnInterrupt, Interrupt, Continue, WakeAndReturn, Reset, RunFunction,
       Pause, Unpause, TogglePause, SendPause, CancelPause, StopWaiting, MarkCrashed, LeaveCrash,
       End, EndSync, Join, SetSync, SetSyncTo, Poll, PollDone, coreVars, threadVars, WakeState,
       WakeRequired, WakeAudio, Moved
  <2>2. state \in Ended => state' \in Ended
    BY <1>1, FrontendState, PokedFacts
    DEF Interrupt, Continue, ContinueState, Resumes, IsActive, Active, Ended
  <2>. QED
    BY <1>0, <2>1, <2>2 DEF Sleepers
<1>4. ASSUME NEW u \in Frontends, pc'[u] = "asleep" PROVE state' \in Interrupts /\ ~holds'[u]
  <2>1. CASE u = t /\ ~holds[t] /\ state \in Interrupts /\ UNCHANGED <<state, holds>>
    BY <2>1
  <2>2. CASE /\ pc[u] = "asleep" /\ (holds'[u] => holds[u])
             /\ \/ state' = state \/ state' = Poked(state)
                \/ Interrupt(t) \/ (Continue(t) /\ ~Resumes) \/ MarkCrashed(t)
    <3>1. state \in Interrupts /\ ~holds'[u]
      BY <1>0, <2>2 DEF Sleepers
    <3>2. Interrupt(t) => state' \in Interrupts
      BY <3>1 DEF Interrupt, Interrupts
    <3>3. Continue(t) /\ ~Resumes => state' = state
      BY DEF Continue, ContinueState
    <3>. QED
      BY <1>1, <2>2, <3>1, <3>2, <3>3, PokedFacts
  <2>. QED
    BY <1>0, <1>4, <2>1, <2>2, FrontendSleeps
<1>. QED
  BY <1>2, <1>3, <1>4 DEF Sleepers

LEMMA CoreSleepers ==
    ASSUME NoMarkCrashed, SleepInv, CoreStep
    PROVE  Sleepers'
<1>0. TypeOK /\ Sleepers /\ BootQuiet /\ interruptDepth \in Nat /\ state \in States
  BY DEF SleepInv, Inv, TypeOK, RequestInv
<1>1. UNCHANGED holds
  BY DEF CoreStep, CoreProgress, CoreChoice, CoreGoes, callerVars, Boot, Check, Loop,
     RunLoopReturns, PostFrame, PostFrameWoken, ProduceAudio, ProduceAudioWoken, Crash, Shutdown,
     ChangeStateInLoop, PauseFromThread, WaitFromThread, RequestFromThread, InterruptFromThread,
     ContinueFromThread, SetSyncFromThread, LockAndTest, Retest, Park, BecomeInterrupted,
     Dispatch, Woken, ParkedAudioWoken, SpuriousWake, RunCallback, CallbacksDone, Exit
<1>2. ASSUME WakeFrontends, NEW u \in Frontends PROVE pc'[u] # "asleep"
  BY <1>0, <1>2 DEF TypeOK, WakeFrontends, WokenFrontends, Moved
<1>3. CASE Boot
  BY <1>2, <1>3 DEF Boot, Sleepers, Interrupts
<1>4. CASE Crash \/ Shutdown
  BY <1>2, <1>4 DEF Crash, Shutdown, ChangeStateInLoop, InMachine, coreVars, Sleepers, Interrupts
<1>5. CASE InterruptFromThread
  <2>1. interruptDepth' > 0 /\ core' = core /\ core # "exit"
    BY <1>0, <1>5 DEF InterruptFromThread, Deeper, InUserCode
  <2>2. CASE interruptDepth' > 1 \/ ~IsActive
    BY <1>0, <1>1, <1>5, <2>1, <2>2 DEF InterruptFromThread, Sleepers, Interrupts
  <2>3. CASE ~(interruptDepth' > 1 \/ ~IsActive)
    BY <1>2, <1>5, <2>1, <2>3 DEF InterruptFromThread, Sleepers
  <2>. QED
    BY <2>2, <2>3
<1>6. CASE ContinueFromThread
  <2>1. /\ interruptDepth' = interruptDepth - 1 /\ interruptDepth >= 1 /\ UNCHANGED core
        /\ state' = IF ~Resumes THEN state ELSE IF requested # {} THEN "request" ELSE "running"
    BY <1>0, <1>6, HolderCounted DEF ContinueFromThread, ContinueState, SleepInv
  <2>2. CASE Resumes
    <3>1. state' \in {"request", "running"} /\ state \notin Ended
      BY <2>1, <2>2 DEF Resumes, IsActive, Active, Ended
    <3>. QED
      BY <1>0, <1>2, <1>6, <2>1, <2>2, <3>1 DEF ContinueFromThread, Sleepers, Interrupts
  <2>3. CASE ~Resumes
    <3>1. state' = state /\ (state \in Interrupts => interruptDepth' > 0)
      BY <1>0, <2>1, <2>3 DEF Resumes, IsActive, Active, Interrupts
    <3>2. UNCHANGED <<pc, holds>>
      BY <1>6, <2>3 DEF ContinueFromThread
    <3>. QED
      BY <1>0, <2>1, <3>1, <3>2 DEF Sleepers
  <2>. QED
    BY <2>2, <2>3
<1>7. CASE (LockAndTest \/ Retest) /\ Dispatch
  <2>1. core' # "exit" /\ UNCHANGED interruptDepth
    BY <1>7 DEF Dispatch
  <2>2. state' = state \/ (state = "request" /\ state' \notin Interrupts)
    BY <1>7 DEF Dispatch, Interrupts
  <2>3. pc' = pc \/ WakeFrontends
    BY <1>7 DEF Dispatch
  <2>. QED
    BY <1>0, <1>1, <1>2, <2>1, <2>2, <2>3 DEF Sleepers, Interrupts
<1>8. CASE (LockAndTest \/ Retest) /\ ~Dispatch
  <2>1. Park \/ (BecomeInterrupted /\ state = "interrupting")
    BY <1>8 DEF LockAndTest, Retest
  <2>2. CASE Park
    BY <1>0, <2>2 DEF Park, CoreGoes, threadVars, callerVars, Sleepers
  <2>3. CASE BecomeInterrupted /\ state = "interrupting"
    BY <1>0, <1>2, <2>3 DEF BecomeInterrupted, Sleepers, Interrupts
  <2>. QED
    BY <2>1, <2>2, <2>3
<1>9. CASE PauseFromThread \/ WaitFromThread
  <2>1. core' = core /\ core # "exit" /\ state' = Poked(state) /\ UNCHANGED <<interruptDepth, pc, holds>>
    BY <1>9 DEF PauseFromThread, WaitFromThread, RequestFromThread, InUserCode, Send, coreVars,
       callerVars
  <2>. QED
    BY <1>0, <2>1, PokedFacts DEF Sleepers, Interrupts
<1>10. CASE Exit
  BY <1>0, <1>10 DEF Exit, Sleepers, Interrupts, Ended, callerVars
<1>11. CASE \/ Check \/ Loop \/ RunLoopReturns \/ PostFrame \/ PostFrameWoken \/ ProduceAudio
            \/ ProduceAudioWoken \/ Woken \/ ParkedAudioWoken \/ SpuriousWake \/ CallbacksDone
            \/ RunCallback \/ SetSyncFromThread
  <2>1. UNCHANGED <<state, interruptDepth, pc, holds>>
    BY <1>11 DEF CoreGoes, callerVars, threadVars, Check, Loop, RunLoopReturns, PostFrame,
       PostFrameWoken, ProduceAudio, ProduceAudioWoken, Woken, ParkedAudioWoken, SpuriousWake,
       CallbacksDone, RunCallback, SetSyncFromThread
  <2>2. core' = "exit" => state \in Ended
    BY <1>0, <1>11 DEF CoreGoes, Check, Loop, RunLoopReturns, InMachine, PostFrame,
       PostFrameWoken, ProduceAudio, ProduceAudioWoken, Woken, ParkedAudioWoken, SpuriousWake,
       CallbacksDone, RunCallback, SetSyncFromThread, SetSyncTo, InUserCode, WakeAudio, Moved
  <2>. QED
    BY <1>0, <2>1, <2>2 DEF Sleepers
<1>. QED
  BY <1>3, <1>4, <1>5, <1>6, <1>7, <1>8, <1>9, <1>10, <1>11 DEF CoreStep, CoreProgress, CoreChoice

LEMMA SleepInductive == ASSUME NoMarkCrashed PROVE SleepInv /\ [Next]_vars => SleepInv'
<1>. SUFFICES ASSUME SleepInv, [Next]_vars PROVE Sleepers'
  BY Inductive, RequestInductive DEF SleepInv
<1>1. ASSUME NEW t \in Frontends, FrontendStep(t) PROVE Sleepers'
  BY <1>1, FrontendSleepers
<1>2. CASE CoreStep
  BY <1>2, CoreSleepers
<1>3. CASE DeviceStep
  <2>1. UNCHANGED <<state, interruptDepth, pc, holds>>
    BY <1>3 DEF DeviceStep, FrameStart, FrameWaited, FrameEnd, ConsumeAudio, threadVars, callerVars
  <2>2. core' = "exit" <=> core = "exit"
    BY <1>3 DEF DeviceStep, FrameStart, FrameWaited, FrameEnd, ConsumeAudio, coreVars,
       WakeRequired, WakeAudio, Moved
  <2>. QED
    BY <2>1, <2>2 DEF SleepInv, Sleepers
<1>4. CASE UNCHANGED vars
  BY <1>4 DEF SleepInv, Sleepers, vars, threadVars, coreVars, callerVars
<1>. QED
  BY <1>1, <1>2, <1>3, <1>4 DEF Next, Terminated

\* The mCoreThreadContinue that ends the last interrupt, a crash and the end of the
\* thread wake every frontend that waits for the end of an interrupt; meanwhile it
\* is somebody else's, so that no frontend waits for itself.
THEOREM SleepersAreAwaited == ASSUME NoMarkCrashed PROVE Spec => []SleepersHaveHolder
<1>1. Init => SleepInv
  <2>1. Init => RequestInv /\ Sleepers
    BY DEF Init, RequestInv, BootQuiet, NoLostRequest, Sleepers, Interrupts
  <2>. QED
    BY <2>1, InitType, InitCounts DEF SleepInv, Inv
<1>2. SleepInv => SleepersHaveHolder
  <2>. SUFFICES ASSUME SleepInv, NEW t \in Frontends, pc[t] = "asleep", ~coreHolds
                PROVE  HolderSet \ {t} # {}
    BY DEF SleepersHaveHolder
  <2>1. t \notin HolderSet
    BY DEF SleepInv, Sleepers, HolderSet
  <2>2. interruptDepth > 0
    BY DEF SleepInv, Sleepers
  <2>3. HolderSet # {}
    BY <2>2, HoldersFinite, FS_EmptySet DEF SleepInv
  <2>. QED
    BY <2>1, <2>3
<1>. QED
  BY <1>1, <1>2, SleepInductive, PTL DEF Spec

----------------------------------------------------------------------------
(* No frame is taken, and no sample read, behind a sleeping core thread.   *)

\* The core thread sleeps in mCoreSyncPostFrame for a frame that nobody has taken
\* or that is being drawn, with the wake-up of mCoreSyncWaitFrameEnd to come; and in
\* an audio wait over a full buffer.
SleepsForDevice ==
    /\ core = "postFrame" => framePending \/ Drawing
    /\ core \in {"produceAudio", "parkedAudio"} => audioFull

LEMMA FrontendLeavesDevices ==
    ASSUME SleepsForDevice, NEW t \in Frontends, FrontendStep(t)
    PROVE  SleepsForDevice'
<1>1. UNCHANGED <<framePending, audioFull>> /\ (Drawing => Drawing')
  BY DEF FrontendStep, SleepOnInterrupt, Interrupt, Continue, Reset, RunFunction, Enter,
     Pause, Unpause, TogglePause, StopWaiting, MarkCrashed, LeaveCrash,
     End, EndSync, WakeRenderer, Join, SetSync, Poll, PollDone, avVars, Drawing, Moved
<1>2. core' = core \/ core' \notin {"postFrame", "produceAudio", "parkedAudio"}
  BY DEF FrontendStep, SleepOnInterrupt, Interrupt, Continue, WakeAndReturn, Reset, RunFunction,
     Pause, Unpause, TogglePause, SendPause, CancelPause, StopWaiting, MarkCrashed, LeaveCrash,
     End, EndSync, Join, SetSync, SetSyncTo, Poll, PollDone, coreVars, threadVars, WakeState,
     WakeRequired, WakeAudio, Moved
<1>. QED
  BY <1>1, <1>2 DEF SleepsForDevice

LEMMA CoreSleepsForDevice ==
    ASSUME SleepsForDevice, CoreStep
    PROVE  SleepsForDevice'
<1>1. CASE PostFrame \/ PostFrameWoken
  BY <1>1 DEF PostFrame, PostFrameWoken, InMachine, SleepsForDevice
<1>2. CASE ProduceAudio
  BY <1>2 DEF ProduceAudio, InMachine, SleepsForDevice
<1>3. CASE ProduceAudioWoken \/ ParkedAudioWoken
  BY <1>3 DEF ProduceAudioWoken, ParkedAudioWoken, AudioWaitOver, CoreGoes, avVars, SleepsForDevice
<1>4. CASE LockAndTest \/ Retest
  BY <1>4 DEF LockAndTest, Retest, Park, CoreGoes, BecomeInterrupted, Dispatch, SleepsForDevice
<1>5. CASE ~PostFrame /\ ~PostFrameWoken /\ ~ProduceAudio /\ ~ProduceAudioWoken
           /\ ~ParkedAudioWoken /\ ~LockAndTest /\ ~Retest
  <2>1. UNCHANGED <<framePending, audioFull, renderer>>
    BY <1>5 DEF CoreStep, CoreProgress, CoreChoice, CoreGoes, avVars, Boot, Check, Loop,
       RunLoopReturns, Crash, Shutdown, ChangeStateInLoop, PauseFromThread, WaitFromThread,
       RequestFromThread, InterruptFromThread, ContinueFromThread, SetSyncFromThread, Woken,
       SpuriousWake, RunCallback, CallbacksDone, Exit
  <2>2. core' = core \/ core' \notin {"postFrame", "produceAudio", "parkedAudio"}
    BY <1>5 DEF CoreStep, CoreProgress, CoreChoice, CoreGoes, coreVars, Boot, Check, Loop,
       RunLoopReturns, Crash, Shutdown, ChangeStateInLoop, PauseFromThread, WaitFromThread,
       RequestFromThread, InterruptFromThread, ContinueFromThread, SetSyncFromThread, SetSyncTo,
       WakeAudio, Moved, Woken, SpuriousWake, RunCallback, CallbacksDone, Exit
  <2>. QED
    BY <2>1, <2>2 DEF SleepsForDevice, Drawing
<1>. QED
  BY <1>1, <1>2, <1>3, <1>4, <1>5

LEMMA DevicesWake ==
    ASSUME SleepsForDevice, DeviceStep
    PROVE  SleepsForDevice'
<1>1. CASE FrameStart \/ FrameWaited
  BY <1>1 DEF FrameStart, FrameWaited, SleepsForDevice, Drawing, coreVars, WakeRequired, Moved
<1>2. CASE FrameEnd \/ ConsumeAudio
  BY <1>2 DEF FrameEnd, ConsumeAudio, SleepsForDevice, Drawing, WakeRequired, WakeAudio, Moved
<1>. QED
  BY <1>1, <1>2 DEF DeviceStep

\* Every step of the renderer and of the audio device that ends the condition the
\* core thread sleeps for wakes it, or is followed by one that does.
THEOREM DeviceSleepsEnd == Spec => []SleepsForDevice
<1>1. Init => SleepsForDevice
  BY DEF Init, SleepsForDevice
<1>2. SleepsForDevice /\ [Next]_vars => SleepsForDevice'
  <2>1. ASSUME SleepsForDevice, UNCHANGED vars PROVE SleepsForDevice'
    BY <2>1 DEF SleepsForDevice, Drawing, vars, coreVars, avVars
  <2>. QED
    BY <2>1, FrontendLeavesDevices, CoreSleepsForDevice, DevicesWake DEF Next, Terminated
<1>. QED
  BY <1>1, <1>2, PTL DEF Spec
=============================================================================
