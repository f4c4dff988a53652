-------------------------- MODULE CoreThreadProofs --------------------------
(***************************************************************************)
(* Proofs about CoreThread for any set of frontend threads and any choice  *)
(* of the operations they call.                                            *)
(***************************************************************************)
EXTENDS CoreThread, FiniteSetTheorems, TLAPS

\* The threads an interrupt of which is held or being waited for.
HolderSet == {t \in Frontends : holds[t] \/ (pc[t] = "poll" /\ op[t] = "Interrupt")}

Inv == TypeOK /\ DepthCountsHolders

----------------------------------------------------------------------------
(* Helpers.                                                                *)

LEMMA WakeTypes ==
    ASSUME pc \in [Frontends -> FrontendPlaces], core \in CorePlaces, renderer \in RendererPlaces
    PROVE  /\ WokenFrontends \in [Frontends -> FrontendPlaces]
           /\ WakeState(core) \in CorePlaces /\ WakeRequired(core) \in CorePlaces
           /\ WakeAudio(core) \in CorePlaces
           /\ Moved(renderer, "waiting", "notified") \in RendererPlaces
  BY DEF WokenFrontends, Moved, FrontendPlaces, CorePlaces, RendererPlaces, WakeState,
         WakeRequired, WakeAudio

LEMMA PokedType == ASSUME NEW s \in States PROVE Poked(s) \in States
  BY DEF Poked, States

LEMMA TurnTypes ==
    ASSUME NEW s \in Settings, NEW callers, Turn(callers, s)
    PROVE  videoFrameWait' \in BOOLEAN /\ audioWait' \in BOOLEAN /\ turned' \in SUBSET Settings
  BY DEF Turn, Settings

LEMMA InitType == Init => TypeOK
<1>. SUFFICES ASSUME Init PROVE TypeOK
  OBVIOUS
<1>1. videoFrameWait \in BOOLEAN /\ audioWait \in BOOLEAN
  BY Zenon DEF Init
<1>2. saved \in [Frontends -> Settings]
  BY DEF Init, Settings, BothOff
<1>. QED
  BY <1>1, <1>2 DEF Init, TypeOK, States, CorePlaces, FrontendPlaces, RendererPlaces

LEMMA WaitTypes ==
    ASSUME TypeOK, NEW t \in Frontends, NEW places \in [Frontends -> FrontendPlaces],
           NEW o \in FrontendOpNames, WaitFrom(places, t, o)
    PROVE  /\ pc' \in [Frontends -> FrontendPlaces]
           /\ op' \in [Frontends -> FrontendOpNames \cup {"none"}]
           /\ saved' \in [Frontends -> Settings]
           /\ videoFrameWait' \in BOOLEAN /\ audioWait' \in BOOLEAN
           /\ turned' \in SUBSET Settings
<1>1. CASE WaitOver(o, state', requested')
  BY <1>1 DEF TypeOK, WaitFrom, Go, FrontendPlaces, waitFlags
<1>2. CASE ~WaitOver(o, state', requested')
  <2>1. WaitPrologue(t) /\ Go(places, t, "poll", o)
    BY <1>2 DEF WaitFrom
  <2>2. saved' \in [Frontends -> Settings]
    BY <2>1 DEF WaitPrologue, TypeOK, Settings
  <2>. QED
    BY <2>1, <2>2 DEF TypeOK, WaitPrologue, TurnOff, Go, FrontendPlaces
<1>. QED
  BY <1>1, <1>2

LEMMA HoldersFinite ==
    Inv => /\ IsFiniteSet(HolderSet) /\ Holders \in Nat /\ Holders = Cardinality(HolderSet)
           /\ interruptDepth = Holders + (IF coreHolds THEN 1 ELSE 0)
<1>1. IsFiniteSet(HolderSet)
  BY FrontendsAssumption, FS_Subset DEF HolderSet
<1>2. Holders = Cardinality(HolderSet)
  BY DEF Holders, HolderSet
<1>. QED
  BY <1>1, <1>2, FS_CardinalityType DEF Inv, DepthCountsHolders

\* Whoever holds an interrupt is counted.
LEMMA HolderCounted ==
    ASSUME Inv, coreHolds \/ \E t \in Frontends : holds[t]
    PROVE  interruptDepth \in Nat /\ interruptDepth >= 1
<1>1. CASE coreHolds
  BY <1>1, HoldersFinite DEF Inv, TypeOK
<1>2. CASE \E t \in Frontends : holds[t]
  <2>1. HolderSet # {}
    BY <1>2 DEF HolderSet
  <2>2. Cardinality(HolderSet) # 0
    BY <2>1, HoldersFinite, FS_EmptySet
  <2>. QED
    BY <2>2, HoldersFinite DEF Inv, TypeOK
<1>. QED
  BY <1>1, <1>2

----------------------------------------------------------------------------
(* Type correctness, action by action.                                     *)

LEMMA FrontendTypes ==
    ASSUME Inv, NEW t \in Frontends, FrontendStep(t)
    PROVE  TypeOK'
<1>. USE DEF coreLocals, avVars, history, waitFlags
<1>0. /\ TypeOK
      /\ pc \in [Frontends -> FrontendPlaces] /\ WokenFrontends \in [Frontends -> FrontendPlaces]
      /\ WakeState(core) \in CorePlaces
  BY WakeTypes DEF Inv, TypeOK
<1>1. ASSUME NEW o \in WaitsOnInterrupt, SleepOnInterrupt(t, o) PROVE TypeOK'
  BY <1>0, <1>1 DEF TypeOK, SleepOnInterrupt, Go, FrontendPlaces, WaitsOnInterrupt,
     FrontendOpNames, threadVars, coreVars
<1>2. ASSUME Interrupt(t) PROVE TypeOK'
  <2>1. interruptDepth' \in Nat
    BY <1>0, <1>2 DEF Interrupt, Deeper, TypeOK
  <2>2. CASE interruptDepth' > 1 \/ ~IsActive
    <3>1. Back(t) /\ holds' = [holds EXCEPT ![t] = TRUE] /\ UNCHANGED <<state, saved, waitFlags, turned>>
      BY <1>2, <2>2 DEF Interrupt
    <3>2. UNCHANGED <<requested, run, core, served, coreLocals, coreHolds, avVars>>
      BY <1>2 DEF Interrupt, Enter
    <3>. QED
      BY <1>0, <2>1, <3>1, <3>2 DEF TypeOK, Back, Go, FrontendPlaces
  <2>3. CASE ~(interruptDepth' > 1 \/ ~IsActive)
    <3>1. state' \in States /\ pc' \in [Frontends -> FrontendPlaces]
          /\ op' \in [Frontends -> FrontendOpNames \cup {"none"}]
      BY <1>0, <1>2, <2>3 DEF TypeOK, Interrupt, Go, FrontendPlaces, FrontendOpNames, States
    <3>2. saved' \in [Frontends -> Settings]
      BY <1>0, <1>2, <2>3 DEF TypeOK, Interrupt, WaitPrologue, Settings
    <3>. QED
      BY <1>0, <1>2, <2>1, <2>3, <3>1, <3>2 DEF TypeOK, Interrupt, Enter, WaitPrologue, TurnOff
  <2>. QED
    BY <2>2, <2>3
<1>3. ASSUME Continue(t) PROVE TypeOK'
  <2>1. interruptDepth' \in Nat /\ state' \in States
    BY <1>0, <1>3, HolderCounted DEF Continue, ContinueState, TypeOK, States
  <2>2. pc' \in [Frontends -> FrontendPlaces] /\ core' \in CorePlaces
        /\ op' \in [Frontends -> FrontendOpNames \cup {"none"}]
    <3>1. Go(WokenFrontends, t, "idle", "none") \/ Go(pc, t, "idle", "none")
      BY <1>3 DEF Continue, WakeAndReturn, Back
    <3>2. core' \in CorePlaces
      BY <1>0, <1>3 DEF Continue, WakeAndReturn, TypeOK
    <3>. QED
      BY <1>0, <3>1, <3>2 DEF TypeOK, Go, FrontendPlaces
  <2>. QED
    BY <1>0, <1>3, <2>1, <2>2 DEF TypeOK, Continue, Enter
<1>4. ASSUME Reset(t) PROVE TypeOK'
  <2>1. "Reset" \in FrontendOpNames /\ "RESET" \in Requests
    BY DEF FrontendOpNames, Requests
  <2>. QED
    BY <1>0, <1>4, <2>1, WaitTypes, PokedType DEF TypeOK, Reset, Enter, Send
<1>5. ASSUME RunFunction(t) PROVE TypeOK'
  <2>1. "RunFunction" \in FrontendOpNames /\ "RUN_ON" \in Requests
    BY DEF FrontendOpNames, Requests
  <2>. QED
    BY <1>0, <1>5, <2>1, WaitTypes, PokedType DEF TypeOK, RunFunction, Enter, Send
<1>6. "Pause" \in FrontendOpNames /\ "Unpause" \in FrontendOpNames /\ "PAUSE" \in Requests
  BY DEF FrontendOpNames, Requests
<1>7. ASSUME SendPause(t), UNCHANGED <<coreLocals, coreHolds, avVars>> PROVE TypeOK'
  BY <1>0, <1>6, <1>7, WaitTypes, PokedType DEF TypeOK, SendPause, Send
<1>8. ASSUME CancelPause(t), UNCHANGED <<coreLocals, coreHolds, avVars>> PROVE TypeOK'
  BY <1>0, <1>6, <1>8, WaitTypes, PokedType DEF TypeOK, CancelPause, Cancel
<1>9. ASSUME Pause(t) \/ Unpause(t) \/ TogglePause(t) PROVE TypeOK'
  BY <1>7, <1>8, <1>9 DEF Pause, Unpause, TogglePause, Enter
<1>10. ASSUME StopWaiting(t) PROVE TypeOK'
  BY <1>0, <1>10, PokedType DEF TypeOK, StopWaiting, Enter, Cancel, WakeAndReturn, Go,
     FrontendPlaces
<1>11. ASSUME MarkCrashed(t) PROVE TypeOK'
  BY <1>0, <1>11 DEF TypeOK, MarkCrashed, Enter, Back, Go, FrontendPlaces, States
<1>12. ASSUME NEW o, LeaveCrash(t, o) PROVE TypeOK'
  <2>1. state' \in States /\ core' \in CorePlaces /\ pc' \in [Frontends -> FrontendPlaces]
        /\ op' \in [Frontends -> FrontendOpNames \cup {"none"}]
    BY <1>0, <1>12 DEF TypeOK, LeaveCrash, Back, WakeAndReturn, Go, FrontendPlaces, States
  <2>. QED
    BY <1>0, <1>12, <2>1 DEF TypeOK, LeaveCrash, Enter
<1>13. ASSUME End(t) PROVE TypeOK'
  BY <1>0, <1>13 DEF TypeOK, End, Enter, Go, FrontendPlaces, FrontendOpNames, States
<1>14. ASSUME EndSync(t) PROVE TypeOK'
  <2>1. core' \in CorePlaces
    BY <1>0, <1>14 DEF TypeOK, EndSync, WakeAudio, WakeRequired, Moved, CorePlaces
  <2>2. renderer' \in RendererPlaces
    BY <1>0, <1>14, WakeTypes DEF TypeOK, EndSync, WakeRenderer
  <2>. QED
    BY <1>0, <1>14, <2>1, <2>2 DEF TypeOK, EndSync, SyncOff, TurnOff, Back, Go, FrontendPlaces, threadVars
<1>15. ASSUME Join(t) PROVE TypeOK'
  BY <1>0, <1>15 DEF TypeOK, Join, Enter, Go, FrontendPlaces, threadVars
<1>16. ASSUME SetSync(t) PROVE TypeOK'
  <2>1. PICK s \in Settings : SetSyncTo(s)
    BY <1>16 DEF SetSync
  <2>2. core' \in CorePlaces
    BY <1>0, <2>1, WakeTypes DEF TypeOK, SetSyncTo
  <2>3. videoFrameWait' \in BOOLEAN /\ audioWait' \in BOOLEAN /\ turned' \in SUBSET Settings
    BY <2>1, TurnTypes DEF SetSyncTo
  <2>. QED
    BY <1>0, <1>16, <2>2, <2>3 DEF TypeOK, SetSync, Enter, Back, Go, FrontendPlaces, threadVars
<1>17. ASSUME Poll(t) PROVE TypeOK'
  <2>1. core' \in CorePlaces
    BY <1>0, <1>17 DEF TypeOK, Poll, WakeAudio, WakeRequired, WakeState, Moved, CorePlaces
  <2>2. state' \in States
    BY <1>0, <1>17, PokedType DEF TypeOK, Poll
  <2>. QED
    BY <1>0, <1>17, <2>1, <2>2 DEF TypeOK, Poll
<1>18. ASSUME PollDone(t) PROVE TypeOK'
  <2>1. videoFrameWait' \in BOOLEAN /\ audioWait' \in BOOLEAN /\ turned' \in SUBSET Settings
    BY <1>0, <1>18, TurnTypes DEF TypeOK, PollDone, WaitEpilogue
  <2>3. saved' \in [Frontends -> Settings]
    BY <1>0, <1>18 DEF TypeOK, PollDone, WaitEpilogue, BothOff, Settings
  <2>2. holds' \in [Frontends -> BOOLEAN]
    BY <1>0, <1>18 DEF TypeOK, PollDone
  <2>. QED
    BY <1>0, <1>18, <2>1, <2>2, <2>3 DEF TypeOK, PollDone, Back, Go, FrontendPlaces, threadVars, coreVars
<1>. QED
  BY <1>1, <1>2, <1>3, <1>4, <1>5, <1>9, <1>10, <1>11, <1>12, <1>13, <1>14, <1>15, <1>16,
     <1>17, <1>18 DEF FrontendStep

LEMMA CoreGoesTypes ==
    ASSUME TypeOK, NEW place \in CorePlaces, CoreGoes(place)
    PROVE  TypeOK'
  BY DEF TypeOK, CoreGoes, threadVars, coreLocals, callerVars, waitFlags, avVars, history

LEMMA LoopTypes ==      \* the wait of the core thread, and what follows it
    ASSUME TypeOK, Park \/ BecomeInterrupted \/ Dispatch
    PROVE  TypeOK'
<1>. USE DEF coreLocals, avVars, history, waitFlags
<1>0. WokenFrontends \in [Frontends -> FrontendPlaces]
  BY WakeTypes DEF TypeOK
<1>1. CASE Park
  BY <1>1, CoreGoesTypes DEF Park, CorePlaces
<1>2. CASE BecomeInterrupted
  BY <1>0, <1>2 DEF TypeOK, BecomeInterrupted, WakeFrontends, States, CorePlaces
<1>3. CASE Dispatch
  <2>1. Left \in SUBSET Requests
    BY DEF TypeOK, Left
  <2>2. requested' \in SUBSET Requests /\ pending' \in SUBSET Requests /\ state' \in States
    BY <1>3, <2>1 DEF TypeOK, Dispatch, States
  <2>3. pc' \in [Frontends -> FrontendPlaces]
    BY <1>0, <1>3 DEF TypeOK, Dispatch, WakeFrontends
  <2>4. todo' \in SUBSET Todos
    BY <1>3 DEF TypeOK, Dispatch, Todos
  <2>5. wasPaused' \in BOOLEAN
    <3>1. (wasPaused' = TRUE) \/ (wasPaused' = FALSE)
      BY <1>3 DEF Dispatch
    <3>. QED
      BY <3>1, Zenon
  <2>. QED
    BY <1>3, <2>2, <2>3, <2>4, <2>5 DEF TypeOK, Dispatch, CorePlaces
<1>. QED
  BY <1>1, <1>2, <1>3

LEMMA CoreTypes == ASSUME Inv, CoreStep PROVE TypeOK'
<1>. USE DEF coreLocals, coreVars, threadVars, callerVars, avVars, history, waitFlags
<1>0. TypeOK /\ WokenFrontends \in [Frontends -> FrontendPlaces] /\ WakeAudio(core) \in CorePlaces
  BY WakeTypes DEF Inv, TypeOK
<1>1. CASE Boot
  BY <1>0, <1>1 DEF TypeOK, Boot, WakeFrontends, States, CorePlaces, Todos
<1>2. CASE \/ Check \/ Loop \/ RunLoopReturns \/ ProduceAudioWoken \/ Woken
           \/ ParkedAudioWoken \/ SpuriousWake \/ CallbacksDone
  <2>1. PICK place \in CorePlaces : CoreGoes(place)
    BY <1>2 DEF Check, Loop, RunLoopReturns, ProduceAudioWoken, Woken, ParkedAudioWoken,
       SpuriousWake, CallbacksDone, CorePlaces
  <2>. QED
    BY <1>0, <2>1, CoreGoesTypes
<1>3. CASE PostFrame
  <2>1. renderer' \in RendererPlaces
    BY <1>0, <1>3, WakeTypes DEF TypeOK, PostFrame, WakeRenderer
  <2>. QED
    BY <1>0, <1>3, <2>1 DEF TypeOK, PostFrame, CorePlaces
<1>4. CASE PostFrameWoken
  <2>1. renderer' \in RendererPlaces
    BY <1>0, <1>4, WakeTypes DEF TypeOK, PostFrameWoken, WakeRenderer
  <2>. QED
    BY <1>0, <1>4, <2>1 DEF TypeOK, PostFrameWoken, CorePlaces
<1>5. CASE ProduceAudio
  BY <1>0, <1>5 DEF TypeOK, ProduceAudio, CorePlaces
<1>6. CASE Crash \/ Shutdown
  BY <1>0, <1>6 DEF TypeOK, Crash, Shutdown, ChangeStateInLoop, WakeFrontends, States
<1>7. CASE PauseFromThread \/ WaitFromThread
  <2>1. PICK bit \in Requests : Send(bit) /\ \E o \in CoreOpNames : RequestFromThread(o, bit)
    BY <1>7 DEF PauseFromThread, WaitFromThread, RequestFromThread, Requests, CoreOpNames
  <2>. QED
    BY <1>0, <2>1, PokedType DEF TypeOK, RequestFromThread, Send
<1>8. CASE InterruptFromThread
  <2>1. interruptDepth' \in Nat
    BY <1>0, <1>8 DEF InterruptFromThread, Deeper, TypeOK
  <2>2. state' \in States /\ pc' \in [Frontends -> FrontendPlaces]
    BY <1>0, <1>8 DEF InterruptFromThread, TypeOK, WakeFrontends, States
  <2>. QED
    BY <1>0, <1>8, <2>1, <2>2 DEF TypeOK, InterruptFromThread
<1>9. CASE ContinueFromThread
  <2>1. interruptDepth' \in Nat /\ state' \in States
    BY <1>0, <1>9, HolderCounted DEF ContinueFromThread, ContinueState, TypeOK, States
  <2>2. pc' \in [Frontends -> FrontendPlaces]
    BY <1>0, <1>9 DEF ContinueFromThread, TypeOK, WakeFrontends
  <2>. QED
    BY <1>0, <1>9, <2>1, <2>2 DEF TypeOK, ContinueFromThread
<1>10. CASE SetSyncFromThread
  <2>1. PICK s \in Settings : SetSyncTo(s)
    BY <1>10 DEF SetSyncFromThread
  <2>2. core' \in CorePlaces
    BY <1>0, <2>1 DEF TypeOK, SetSyncTo
  <2>3. videoFrameWait' \in BOOLEAN /\ audioWait' \in BOOLEAN /\ turned' \in SUBSET Settings
    BY <2>1, TurnTypes DEF SetSyncTo
  <2>. QED
    BY <1>0, <1>10, <2>2, <2>3 DEF TypeOK, SetSyncFromThread
<1>11. CASE LockAndTest \/ Retest
  BY <1>0, <1>11, LoopTypes DEF LockAndTest, Retest
<1>12. CASE RunCallback
  <2>1. todo' \in SUBSET Todos
    BY <1>0, <1>12 DEF TypeOK, RunCallback, Todos
  <2>2. served' \in SUBSET (Frontends \cup {"none"})
    BY <1>0, <1>12 DEF TypeOK, RunCallback
  <2>. QED
    BY <1>0, <1>12, <2>1, <2>2 DEF TypeOK, RunCallback
<1>13. CASE Exit
  BY <1>0, <1>13 DEF TypeOK, Exit, States, CorePlaces
<1>. QED
  BY <1>1, <1>2, <1>3, <1>4, <1>5, <1>6, <1>7, <1>8, <1>9, <1>10, <1>11, <1>12, <1>13
  DEF CoreStep, CoreProgress, CoreChoice

LEMMA DeviceTypes == ASSUME TypeOK, DeviceStep PROVE TypeOK'
<1>. USE DEF coreLocals, coreVars, threadVars, callerVars, avVars, history, waitFlags
<1>0. WakeRequired(core) \in CorePlaces /\ WakeAudio(core) \in CorePlaces
  BY WakeTypes DEF TypeOK
<1>1. CASE FrameStart
  BY <1>0, <1>1 DEF TypeOK, FrameStart, RendererPlaces
<1>2. CASE FrameWaited
  BY <1>2 DEF TypeOK, FrameWaited, RendererPlaces
<1>3. CASE FrameEnd
  BY <1>0, <1>3 DEF TypeOK, FrameEnd, RendererPlaces
<1>4. CASE ConsumeAudio
  BY <1>0, <1>4 DEF TypeOK, ConsumeAudio
<1>. QED
  BY <1>1, <1>2, <1>3, <1>4 DEF DeviceStep

----------------------------------------------------------------------------
(* The count of interrupts, action by action.                              *)

LEMMA SameHolders ==
    ASSUME Inv, HolderSet' = HolderSet, UNCHANGED <<interruptDepth, coreHolds>>
    PROVE  DepthCountsHolders'
<1>1. Holders' = Cardinality(HolderSet')
  BY DEF Holders, HolderSet
<1>. QED
  BY <1>1, HoldersFinite DEF DepthCountsHolders

\* Waking the sleepers, or the core thread's steps, change no holder.
LEMMA WakingKeepsHolders ==
    ASSUME TypeOK, UNCHANGED <<op, holds>>, pc' = pc \/ pc' = WokenFrontends
    PROVE  HolderSet' = HolderSet
  BY DEF TypeOK, HolderSet, WokenFrontends, Moved

\* A thread that goes somewhere else than to the wait for an interrupt, and was
\* not in it, changes no holder.
LEMMA GoingKeepsHolders ==
    ASSUME TypeOK, NEW t \in Frontends, pc[t] # "poll", NEW places, NEW place, NEW o,
           places = pc \/ places = WokenFrontends, Go(places, t, place, o),
           place # "poll" \/ o # "Interrupt", UNCHANGED holds
    PROVE  HolderSet' = HolderSet
<1>1. \A u \in Frontends : u # t => ((pc'[u] = "poll" <=> pc[u] = "poll") /\ op'[u] = op[u])
  BY DEF TypeOK, Go, WokenFrontends, Moved
<1>2. pc'[t] = place /\ op'[t] = o
  BY DEF TypeOK, Go, WokenFrontends
<1>. QED
  BY <1>1, <1>2 DEF HolderSet

LEMMA WaitKeepsHolders ==
    ASSUME TypeOK, NEW t \in Frontends, pc[t] # "poll", NEW places, NEW o,
           places = pc \/ places = WokenFrontends, WaitFrom(places, t, o),
           o # "Interrupt", UNCHANGED holds
    PROVE  HolderSet' = HolderSet
<1>1. Go(places, t, "idle", "none") \/ Go(places, t, "poll", o)
  BY DEF WaitFrom
<1>. QED
  BY <1>1, GoingKeepsHolders

LEMMA EnterIdle ==
    ASSUME NEW t \in Frontends, NEW o, Enter(t, o)
    PROVE  pc[t] # "poll" /\ UNCHANGED coreHolds /\ state # "initialized"
  BY DEF Enter, MayCall

LEMMA InterruptAdds ==
    ASSUME Inv, NEW t \in Frontends, Interrupt(t)
    PROVE  t \notin HolderSet /\ HolderSet' = HolderSet \cup {t}
<1>1. TypeOK /\ pc[t] # "poll" /\ ~holds[t]
  BY EnterIdle DEF Interrupt, Inv
<1>2. CASE Back(t) /\ holds' = [holds EXCEPT ![t] = TRUE]
  BY <1>1, <1>2 DEF TypeOK, Back, Go, HolderSet
<1>3. CASE Go(pc, t, "poll", "Interrupt") /\ UNCHANGED holds
  BY <1>1, <1>3 DEF TypeOK, Go, HolderSet
<1>. QED
  BY <1>1, <1>2, <1>3 DEF Interrupt, HolderSet

LEMMA InterruptCounts ==
    ASSUME Inv, NEW t \in Frontends, Interrupt(t)
    PROVE  DepthCountsHolders'
<1>1. TypeOK /\ coreHolds' = coreHolds
  BY EnterIdle DEF Interrupt, Inv
<1>2. t \notin HolderSet /\ HolderSet' = HolderSet \cup {t}
  BY InterruptAdds
<1>3. Cardinality(HolderSet') = Cardinality(HolderSet) + 1
  BY <1>2, HoldersFinite, FS_AddElement
<1>4. interruptDepth' = interruptDepth + 1 /\ Holders' = Cardinality(HolderSet')
  BY DEF Interrupt, Deeper, Holders, HolderSet
<1>5. /\ Holders \in Nat /\ Holders = Cardinality(HolderSet)
      /\ interruptDepth = Holders + (IF coreHolds THEN 1 ELSE 0)
  BY HoldersFinite
<1>. QED
  BY <1>1, <1>3, <1>4, <1>5 DEF DepthCountsHolders

LEMMA ContinueRemoves ==
    ASSUME Inv, NEW t \in Frontends, Continue(t)
    PROVE  t \in HolderSet /\ HolderSet' = HolderSet \ {t}
<1>1. TypeOK /\ pc[t] # "poll" /\ holds[t]
  BY EnterIdle DEF Continue, Inv
<1>2. holds' = [holds EXCEPT ![t] = FALSE]
  BY DEF Continue
<1>3. PICK places : Go(places, t, "idle", "none") /\ (places = pc \/ places = WokenFrontends)
  BY DEF Continue, WakeAndReturn, Back
<1>4. \A u \in Frontends : u # t => ((pc'[u] = "poll" <=> pc[u] = "poll") /\ op'[u] = op[u])
  BY <1>1, <1>3 DEF TypeOK, Go, WokenFrontends, Moved
<1>5. pc'[t] # "poll"
  BY <1>1, <1>3 DEF TypeOK, Go, WokenFrontends
<1>. QED
  BY <1>1, <1>2, <1>4, <1>5 DEF TypeOK, HolderSet

LEMMA ContinueCounts ==
    ASSUME Inv, NEW t \in Frontends, Continue(t)
    PROVE  DepthCountsHolders'
<1>1. TypeOK /\ coreHolds' = coreHolds
  BY EnterIdle DEF Continue, Inv
<1>2. t \in HolderSet /\ HolderSet' = HolderSet \ {t}
  BY ContinueRemoves
<1>3. Cardinality(HolderSet') = Cardinality(HolderSet) - 1
  BY <1>2, HoldersFinite, FS_RemoveElement
<1>4. interruptDepth' = interruptDepth - 1 /\ Holders' = Cardinality(HolderSet')
  BY DEF Continue, ContinueState, Holders, HolderSet
<1>. QED
  BY <1>1, <1>3, <1>4, HoldersFinite DEF DepthCountsHolders, TypeOK

\* No other operation of a frontend changes who holds or waits for an interrupt.
LEMMA OthersKeepHolders ==
    ASSUME Inv, NEW t \in Frontends, FrontendStep(t), ~Interrupt(t), ~Continue(t)
    PROVE  HolderSet' = HolderSet /\ UNCHANGED <<interruptDepth, coreHolds>>
<1>0. TypeOK
  BY DEF Inv
<1>1. ASSUME NEW o \in WaitsOnInterrupt, SleepOnInterrupt(t, o) PROVE HolderSet' = HolderSet /\ UNCHANGED <<interruptDepth, coreHolds>>
  <2>1. pc[t] # "poll" /\ Go(pc, t, "asleep", o) /\ UNCHANGED <<holds, interruptDepth, coreHolds>>
    BY <1>1 DEF SleepOnInterrupt, MayCall, threadVars, coreVars
  <2>. QED
    BY <1>0, <2>1, GoingKeepsHolders
<1>2. CASE Reset(t) \/ RunFunction(t)
  <2>1. pc[t] # "poll" /\ UNCHANGED <<holds, interruptDepth, coreHolds>>
    BY <1>2, EnterIdle DEF Reset, RunFunction
  <2>2. PICK o : o # "Interrupt" /\ WaitFrom(pc, t, o)
    BY <1>2 DEF Reset, RunFunction
  <2>. QED
    BY <1>0, <2>1, <2>2, WaitKeepsHolders
<1>3. CASE Pause(t) \/ Unpause(t) \/ TogglePause(t)
  <2>1. pc[t] # "poll" /\ coreHolds' = coreHolds /\ (SendPause(t) \/ CancelPause(t))
    BY <1>3, EnterIdle DEF Pause, Unpause, TogglePause
  <2>2. UNCHANGED <<holds, interruptDepth>>
    BY <2>1 DEF SendPause, CancelPause
  <2>3. PICK o, places : /\ o # "Interrupt" /\ WaitFrom(places, t, o)
                         /\ places = pc \/ places = WokenFrontends
    BY <2>1 DEF SendPause, CancelPause
  <2>. QED
    BY <1>0, <2>1, <2>2, <2>3, WaitKeepsHolders
<1>4. ASSUME \/ StopWaiting(t) \/ MarkCrashed(t) \/ End(t) \/ Join(t) \/ SetSync(t)
             \/ \E o \in {"ClearCrashed", "SetRewinding"} : LeaveCrash(t, o)
      PROVE  HolderSet' = HolderSet /\ UNCHANGED <<interruptDepth, coreHolds>>
  <2>1. pc[t] # "poll" /\ UNCHANGED <<holds, interruptDepth, coreHolds>>
    BY <1>4, EnterIdle DEF StopWaiting, MarkCrashed, End, Join, SetSync, LeaveCrash, threadVars
  <2>2. PICK places, place, o : /\ places = pc \/ places = WokenFrontends
                                /\ Go(places, t, place, o) /\ place # "poll"
    BY <1>4 DEF StopWaiting, MarkCrashed, End, Join, SetSync, LeaveCrash, WakeAndReturn, Back
  <2>. QED
    BY <1>0, <2>1, <2>2, GoingKeepsHolders
<1>5. CASE EndSync(t)
  <2>1. pc[t] # "poll" /\ Go(pc, t, "idle", "none") /\ UNCHANGED <<holds, interruptDepth, coreHolds>>
    BY <1>5 DEF EndSync, Back, threadVars
  <2>. QED
    BY <1>0, <2>1, GoingKeepsHolders
<1>6. CASE Poll(t)
  BY <1>0, <1>6, WakingKeepsHolders DEF Poll, coreVars
<1>7. CASE PollDone(t)      \* an interrupt that was waited for is held from now on
  <2>1. HolderSet' = HolderSet
    <3>1. \A u \in Frontends : u # t =>
             pc'[u] = pc[u] /\ op'[u] = op[u] /\ holds'[u] = holds[u]
      BY <1>0, <1>7 DEF TypeOK, PollDone, Back, Go
    <3>2. pc[t] = "poll" /\ pc'[t] = "idle" /\ (holds'[t] <=> holds[t] \/ op[t] = "Interrupt")
      BY <1>0, <1>7 DEF TypeOK, PollDone, Back, Go
    <3>. QED
      BY <3>1, <3>2 DEF HolderSet
  <2>. QED
    BY <1>7, <2>1 DEF PollDone, threadVars, coreVars
<1>. QED
  BY <1>1, <1>2, <1>3, <1>4, <1>5, <1>6, <1>7 DEF FrontendStep

LEMMA FrontendCounts ==
    ASSUME Inv, NEW t \in Frontends, FrontendStep(t)
    PROVE  DepthCountsHolders'
  BY InterruptCounts, ContinueCounts, OthersKeepHolders, SameHolders

LEMMA CoreHolders == ASSUME Inv, CoreStep PROVE HolderSet' = HolderSet
<1>1. TypeOK /\ UNCHANGED <<op, holds>> /\ (pc' = pc \/ pc' = WokenFrontends)
  BY DEF Inv, CoreStep, CoreProgress, CoreChoice, CoreGoes, callerVars, Boot, Check, Loop,
     RunLoopReturns, PostFrame, PostFrameWoken, ProduceAudio, ProduceAudioWoken, Crash, Shutdown,
     ChangeStateInLoop, PauseFromThread, WaitFromThread, RequestFromThread, InterruptFromThread,
     ContinueFromThread, SetSyncFromThread, LockAndTest, Retest, Park, BecomeInterrupted,
     Dispatch, Woken, ParkedAudioWoken, SpuriousWake, RunCallback, CallbacksDone, Exit,
     WakeFrontends
<1>. QED
  BY <1>1, WakingKeepsHolders

LEMMA CoreCounts == ASSUME Inv, CoreStep PROVE DepthCountsHolders'
<1>1. HolderSet' = HolderSet
  BY CoreHolders
<1>2. CASE UNCHANGED <<interruptDepth, coreHolds>>
  BY <1>1, <1>2, SameHolders
<1>3. CASE \/ interruptDepth' = interruptDepth + 1 /\ ~coreHolds /\ coreHolds' = TRUE
           \/ interruptDepth' = interruptDepth - 1 /\ coreHolds /\ coreHolds' = FALSE
  <2>1. Holders' = Holders
    BY <1>1 DEF Holders, HolderSet
  <2>. QED
    BY <1>3, <2>1, HoldersFinite DEF DepthCountsHolders
<1>. QED
  BY <1>2, <1>3
  DEF CoreStep, CoreProgress, CoreChoice, CoreGoes, threadVars, coreVars, Boot, Check, Loop,
     RunLoopReturns, PostFrame, PostFrameWoken, ProduceAudio, ProduceAudioWoken, Crash, Shutdown,
     ChangeStateInLoop, PauseFromThread, WaitFromThread, RequestFromThread, InterruptFromThread,
     ContinueFromThread, ContinueState, Deeper, SetSyncFromThread, LockAndTest, Retest, Park,
     BecomeInterrupted, Dispatch, Woken, ParkedAudioWoken, SpuriousWake, RunCallback,
     CallbacksDone, Exit

LEMMA DeviceCounts == ASSUME Inv, DeviceStep PROVE DepthCountsHolders'
<1>1. UNCHANGED <<pc, op, holds, interruptDepth, coreHolds>>
  BY DEF DeviceStep, FrameStart, FrameWaited, FrameEnd, ConsumeAudio, threadVars, coreVars,
     callerVars
<1>. QED
  BY <1>1, SameHolders DEF HolderSet

LEMMA Inductive == Inv /\ [Next]_vars => Inv'
<1>. SUFFICES ASSUME Inv, [Next]_vars PROVE Inv'
  OBVIOUS
<1>1. ASSUME NEW t \in Frontends, FrontendStep(t) PROVE Inv'
  BY <1>1, FrontendTypes, FrontendCounts DEF Inv
<1>2. CASE CoreStep
  BY <1>2, CoreTypes, CoreCounts DEF Inv
<1>3. CASE DeviceStep
  BY <1>3, DeviceTypes, DeviceCounts DEF Inv
<1>4. CASE UNCHANGED vars
  BY <1>4 DEF Inv, TypeOK, DepthCountsHolders, Holders, vars, threadVars, coreVars, callerVars,
     waitFlags, avVars, history
<1>. QED
  BY <1>1, <1>2, <1>3, <1>4 DEF Next, Terminated

LEMMA InitCounts == Init => DepthCountsHolders
<1>1. ASSUME Init PROVE HolderSet = {}
  BY <1>1 DEF Init, HolderSet
<1>. QED
  <2>. SUFFICES ASSUME Init PROVE DepthCountsHolders
    OBVIOUS
  <2>1. Cardinality(HolderSet) = 0
    BY <1>1, FS_EmptySet
  <2>2. Holders = 0
    BY <2>1 DEF Holders, HolderSet
  <2>3. interruptDepth = 0 /\ coreHolds = FALSE
    BY DEF Init
  <2>. QED
    BY <2>2, <2>3 DEF DepthCountsHolders

LEMMA InvHolds == Spec => []Inv
<1>1. Init => Inv
  BY InitType, InitCounts DEF Inv
<1>. QED
  BY <1>1, Inductive, PTL DEF Spec

\* Every variable keeps its type; in particular interruptDepth never wraps
\* below 0, because every Continue gives back an interrupt that was counted.
THEOREM TypeCorrect == Spec => []TypeOK
  BY InvHolds, PTL DEF Inv

\* interruptDepth is the number of threads, the core thread among them, that
\* hold an interrupt or wait for one.
THEOREM DepthIsHolders == Spec => []DepthCountsHolders
  BY InvHolds, PTL DEF Inv
=============================================================================
