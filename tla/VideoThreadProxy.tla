-------------------------- MODULE VideoThreadProxy --------------------------
(***************************************************************************)
(* Threaded video: the emulating ("CPU") thread writes packets to a queue, *)
(* a proxy thread reads and draws them (src/feature/thread-proxy.c, the    *)
(* packets and the reading loop of src/feature/video-logger.c, and the     *)
(* calls gba/extra/proxy.c makes of both).                                 *)
(*                                                                         *)
(* The queue is the one RingFIFO implements, so one call of it is one      *)
(* step: a read succeeds when the queue is not empty, a write may fail     *)
(* only then.  A section under proxyRenderer->mutex is one step, up to the *)
(* ConditionWait that ends it.                                             *)
(***************************************************************************)
EXTENDS Integers, Sequences

CONSTANTS
    Calls,        \* the renderer calls the emulated machine makes
    MaxQueue,     \* bound: packets in the queue
    Corruptible   \* a packet may come out of the queue garbled

Packets == {"item", "vram", "payload", "flush"}
Steps == Packets \cup {"wake", "wait", "event", "reset", "stop", "lock", "put", "unlock"}

VARIABLES
    threadState,   \* proxyRenderer->threadState
    event,         \* proxyRenderer->event is not 0
    queue,         \* proxyRenderer->dirtyQueue
    plan,          \* what the CPU thread still has to do in its call
    cpu,           \* where the CPU thread is in the first step of plan
    held,          \* the CPU thread took the mutex with _lock
    proxy          \* where the proxy thread is

vars == <<threadState, event, queue, plan, cpu, held, proxy>>

Loading == {"payload", "starved", "starving"}         \* in readData(..., block = true)
Running == {"run", "draw", "failing"} \cup Loading    \* in mVideoLoggerRendererRun
Waiting == {"asleep", "starving"}                     \* in a wait on toThreadCond

----------------------------------------------------------------------------
\* What each renderer call does with the logger.

\* Mutant of Flush: it waits without the packet that ends the reading.
FlushWithoutPacket == <<"wait">>

Flush == <<"flush", "wait">>

WritePacket == <<"item">>
DrawScanline == <<"item", "wake">>
DrawScanlineDirty == <<"vram", "payload">> \o DrawScanline
FinishFrame == <<"item">> \o Flush

\* Mutant of GetPixels: it asks for the picture without waiting for it.
GetPixelsAtOnce == <<"event">>

GetPixels == <<"wait", "event">>
PutPixels == <<"lock", "put", "unlock">>
Reset == <<"reset", "event">>
Deinit == Flush \o <<"event", "stop">>

RendererCalls ==
    {WritePacket, DrawScanline, DrawScanlineDirty, FinishFrame, GetPixels,
     PutPixels, Reset, Deinit}

ASSUME CallsAssumption ==
    /\ Calls \subseteq RendererCalls
    /\ MaxQueue \in Nat \ {0}
    /\ Corruptible \in BOOLEAN

\* A new logger: mVideoThreadProxyInit, then the same steps as a reset.

Init ==
    /\ threadState = "idle" /\ event = FALSE /\ queue = <<>>
    /\ plan = Reset /\ cpu = "run" /\ held = FALSE
    /\ proxy = "start"

----------------------------------------------------------------------------
\* ConditionWake on each of the two conditions: one thread waits on each.
WokenProxy ==
    CASE proxy = "asleep" -> "woken"
      [] proxy = "starving" -> "payload"
      [] OTHER -> proxy

\* A write is tried again without the mutex, the other loops test under it.
WokenCpu ==
    IF cpu # "asleep" THEN cpu
    ELSE IF Head(plan) \in Packets THEN "run" ELSE "loop"

Doing(step) == plan # <<>> /\ Head(plan) = step

Finish ==
    /\ plan' = Tail(plan)
    /\ cpu' = "run"

\* "ConditionWake(&toThreadCond); ConditionWait(&fromThreadCond, &mutex)"
AskProxy ==
    /\ proxy' = WokenProxy
    /\ cpu' = "asleep"
    /\ UNCHANGED plan

----------------------------------------------------------------------------
\* The CPU thread.  Every section under the mutex needs it not to be held yet.

Begin(call) ==
    /\ plan = <<>> /\ cpu = "run"
    /\ plan' = call
    /\ UNCHANGED <<threadState, event, queue, cpu, held, proxy>>

\* After Deinit the renderer may be initialised again.
Create ==
    /\ cpu = "closed" /\ proxy = "done"
    /\ threadState' = "idle" /\ proxy' = "start" /\ queue' = <<>>
    /\ plan' = Reset /\ cpu' = "run"
    /\ UNCHANGED <<event, held>>

\* RingFIFOWrite
Write ==
    /\ plan # <<>> /\ Head(plan) \in Packets /\ cpu = "run"
    /\ \/ Len(queue) < MaxQueue /\ queue' = Append(queue, Head(plan)) /\ Finish
       \/ queue # <<>> /\ cpu' = "full" /\ UNCHANGED <<queue, plan>>
    /\ UNCHANGED <<threadState, event, held, proxy>>

WriteRefused ==
    /\ cpu = "full" /\ ~held
    /\ IF threadState = "stopped" THEN Finish /\ UNCHANGED proxy ELSE AskProxy
    /\ UNCHANGED <<threadState, event, queue, held>>

\* _wake signals without the mutex, and only every sixteenth line.
Wake ==
    /\ Doing("wake")
    /\ proxy' \in {proxy, WokenProxy}
    /\ Finish
    /\ UNCHANGED <<threadState, event, queue, held>>

\* _wait looks at threadState without the mutex.
WaitEnter ==
    /\ Doing("wait") /\ cpu = "run"
    /\ cpu' = IF threadState = "stopped" THEN "recover" ELSE "loop"
    /\ UNCHANGED <<threadState, event, queue, plan, held, proxy>>

WaitLoop ==
    /\ Doing("wait") /\ cpu = "loop" /\ ~held
    /\ IF queue = <<>> THEN Finish /\ UNCHANGED proxy ELSE AskProxy
    /\ UNCHANGED <<threadState, event, queue, held>>

\* Mutant of RecoverClear: the new thread finds what the old one left.
RecoverKeepsQueue ==
    /\ cpu = "recover" /\ ~held
    /\ cpu' = "recovering"
    /\ UNCHANGED <<threadState, event, queue, plan, held, proxy>>

\* _proxyThreadRecover
RecoverClear ==
    /\ cpu = "recover" /\ ~held
    /\ queue' = <<>>
    /\ cpu' = "recovering"
    /\ UNCHANGED <<threadState, event, plan, held, proxy>>

RecoverRestart ==
    /\ cpu = "recovering" /\ proxy = "done"
    /\ threadState' = "idle" /\ proxy' = "start"
    /\ Finish
    /\ UNCHANGED <<event, queue, held>>

PostEvent ==
    /\ Doing("event") /\ cpu = "run" /\ ~held
    /\ event' = TRUE
    /\ AskProxy
    /\ UNCHANGED <<threadState, queue, held>>

\* Mutant of EventLoop: one wake is taken for the answer.
EventOnce ==
    /\ Doing("event") /\ cpu = "loop" /\ ~held
    /\ Finish
    /\ UNCHANGED <<threadState, event, queue, held, proxy>>

EventLoop ==
    /\ Doing("event") /\ cpu = "loop" /\ ~held
    /\ IF event THEN AskProxy ELSE Finish /\ UNCHANGED proxy
    /\ UNCHANGED <<threadState, event, queue, held>>

\* Mutant of ResetLoop: it clears the queue whatever the proxy thread does.
ResetAtOnce ==
    /\ Doing("reset") /\ cpu \in {"run", "loop"} /\ ~held
    /\ queue' = <<>> /\ Finish
    /\ UNCHANGED <<threadState, event, held, proxy>>

ResetLoop ==
    /\ Doing("reset") /\ cpu \in {"run", "loop"} /\ ~held
    /\ IF threadState = "busy"
       THEN AskProxy /\ UNCHANGED queue
       ELSE queue' = <<>> /\ Finish /\ UNCHANGED proxy
    /\ UNCHANGED <<threadState, event, held>>

\* Mutant of StopLoop: it stops a thread that is drawing.
StopBusy ==
    /\ Doing("stop") /\ cpu \in {"run", "loop"} /\ ~held
    /\ threadState' = "stopped" /\ proxy' = WokenProxy
    /\ IF threadState = "idle" THEN cpu' = "join" /\ UNCHANGED plan
                               ELSE cpu' = "closed" /\ plan' = <<>>
    /\ UNCHANGED <<event, queue, held>>

\* mVideoThreadProxyDeinit: only a thread found idle is stopped and joined.
StopLoop ==
    /\ Doing("stop") /\ cpu \in {"run", "loop"} /\ ~held
    /\ CASE threadState = "busy" -> AskProxy /\ UNCHANGED threadState
         [] threadState = "idle" ->
              /\ threadState' = "stopped" /\ proxy' = WokenProxy
              /\ cpu' = "join" /\ UNCHANGED plan
         [] threadState = "stopped" ->
              plan' = <<>> /\ cpu' = "closed" /\ UNCHANGED <<threadState, proxy>>
    /\ UNCHANGED <<event, queue, held>>

StopJoin ==
    /\ cpu = "join" /\ proxy = "done"
    /\ plan' = <<>> /\ cpu' = "closed"
    /\ UNCHANGED <<threadState, event, queue, held, proxy>>

Lock ==
    /\ Doing("lock") /\ ~held
    /\ held' = TRUE /\ Finish
    /\ UNCHANGED <<threadState, event, queue, proxy>>

\* The CPU thread itself writes to the backend's picture.
Put ==
    /\ Doing("put")
    /\ Finish
    /\ UNCHANGED <<threadState, event, queue, held, proxy>>

Unlock ==
    /\ Doing("unlock") /\ held
    /\ held' = FALSE /\ Finish
    /\ UNCHANGED <<threadState, event, queue, proxy>>

CpuStep ==
    \/ Write \/ WriteRefused \/ Wake
    \/ WaitEnter \/ WaitLoop \/ RecoverClear \/ RecoverRestart
    \/ PostEvent \/ EventLoop \/ ResetLoop \/ StopLoop \/ StopJoin
    \/ Lock \/ Put \/ Unlock

----------------------------------------------------------------------------
\* The proxy thread.

\* The end of a turn: it tells the CPU thread and waits for the next.
EndTurn ==
    /\ cpu' = WokenCpu
    /\ proxy' = IF threadState = "stopped" THEN "done" ELSE "asleep"
    /\ threadState' = IF threadState = "stopped" THEN "stopped" ELSE "idle"

\* Mutant of Start: it does not tell that it is there.
StartSilently ==
    /\ proxy = "start" /\ ~held
    /\ proxy' = IF threadState = "stopped" THEN "done" ELSE "asleep"
    /\ UNCHANGED <<threadState, event, queue, plan, cpu, held>>

Start ==
    /\ proxy = "start" /\ ~held
    /\ EndTurn
    /\ UNCHANGED <<event, queue, plan, held>>

\* An event is handled under the mutex, with the queue left alone.
Turn ==
    /\ proxy = "woken" /\ ~held
    /\ IF threadState = "stopped" \/ event
       THEN /\ event' = IF threadState = "stopped" THEN event ELSE FALSE
            /\ IF threadState = "stopped"
               THEN proxy' = "done" /\ UNCHANGED <<cpu, threadState>>
               ELSE EndTurn
       ELSE /\ threadState' = "busy" /\ proxy' = "run"
            /\ UNCHANGED <<event, cpu>>
    /\ UNCHANGED <<queue, plan, held>>

\* mVideoLoggerRendererRun: one packet, without the mutex.  It returns at a flush.
Run ==
    /\ proxy = "run"
    /\ IF queue = <<>>
       THEN proxy' = "after" /\ UNCHANGED queue
       ELSE /\ queue' = Tail(queue)
            /\ proxy' \in
                 (CASE Head(queue) = "item" -> {"draw"}
                    [] Head(queue) = "vram" -> {"payload"}
                    [] Head(queue) = "flush" -> {"after"}
                    [] Head(queue) = "payload" -> {"failing"})
                 \cup (IF Corruptible THEN {"failing"} ELSE {})
    /\ UNCHANGED <<threadState, event, plan, cpu, held>>

Draw ==
    /\ proxy = "draw"
    /\ proxy' = "run"
    /\ UNCHANGED <<threadState, event, queue, plan, cpu, held>>

\* The second read of a VRAM packet blocks until the bytes are there.
Load ==
    /\ proxy = "payload"
    /\ IF queue = <<>>
       THEN proxy' = "starved" /\ UNCHANGED queue
       ELSE proxy' = "draw" /\ queue' = Tail(queue)
    /\ UNCHANGED <<threadState, event, plan, cpu, held>>

Starve ==
    /\ proxy = "starved" /\ ~held
    /\ cpu' = WokenCpu
    /\ proxy' = "starving"
    /\ UNCHANGED <<threadState, event, queue, plan, held>>

\* "FIFO was corrupted": the state is written without the mutex.
Fail ==
    /\ proxy = "failing"
    /\ threadState' = "stopped"
    /\ proxy' = "after"
    /\ UNCHANGED <<event, queue, plan, cpu, held>>

After ==
    /\ proxy = "after" /\ ~held
    /\ EndTurn
    /\ UNCHANGED <<event, queue, plan, held>>

ProxyStep ==
    Start \/ Turn \/ Run \/ Draw \/ Load \/ Starve \/ Fail \/ After

----------------------------------------------------------------------------
\* A ConditionWait may return without a wake.
Spurious ==
    \/ /\ cpu = "asleep" /\ cpu' = WokenCpu
       /\ UNCHANGED <<threadState, event, queue, plan, held, proxy>>
    \/ /\ proxy \in Waiting /\ proxy' = WokenProxy
       /\ UNCHANGED <<threadState, event, queue, plan, cpu, held>>

Next ==
    \/ CpuStep \/ ProxyStep \/ Spurious
    \/ (\E call \in Calls : Begin(call)) \/ Create

Spec == Init /\ [][Next]_vars

\* Both threads go on while they can, and a condition does not return without a
\* wake for ever; the machine need not make another call.
FairSpec ==
    /\ Spec
    /\ WF_vars(CpuStep) /\ WF_vars(ProxyStep)
    /\ <>[][~Spurious]_vars

----------------------------------------------------------------------------
\* Every variable has its type; the CPU thread sleeps only inside a call, and an
\* event is pending only while it waits for the answer (thread-proxy.c:137-146).
TypeOK ==
    /\ threadState \in {"idle", "busy", "stopped"}
    /\ event \in BOOLEAN /\ held \in BOOLEAN
    /\ queue \in Seq(Packets) /\ Len(queue) <= MaxQueue
    /\ plan \in Seq(Steps)
    /\ cpu \in {"run", "full", "asleep", "loop", "recover", "recovering", "join", "closed"}
    /\ cpu \in {"full", "asleep", "loop", "recover", "recovering", "join"} => plan # <<>>
    /\ proxy \in {"start", "asleep", "woken", "after", "done"} \cup Running
    /\ event => Doing("event") /\ cpu \in {"asleep", "loop"}

\* The reader stays aligned with the writer: a thread that reads packets never
\* finds the bytes of a VRAM block where a packet should start, nor a packet
\* where the bytes should be, although refused writes are dropped once the
\* thread has stopped (thread-proxy.c:108-112) and the queue is cleared by a
\* reset and by a recovery.
Aligned ==
    queue # <<>> =>
        /\ proxy \in Loading => Head(queue) = "payload"
        /\ proxy \in {"start", "asleep", "woken", "run", "draw"} => Head(queue) # "payload"

\* A closed logger is left alone: when deinit has returned, and the queue and
\* the mutex are freed (thread-proxy.c:84-87), the proxy thread has ended, also
\* if it was corrupted and started again in between.
ClosedAtRest == cpu = "closed" => proxy = "done"

\* The queue is cleared only while nobody reads it: RingFIFOClear writes both
\* pointers, which RingFIFO allows between two reads only.
ClearedWhileQuiet ==
    [][queue # <<>> /\ queue' = <<>> /\ UNCHANGED proxy => proxy \notin Running]_vars

\* An event is handled after everything written before it: the picture asked
\* for, or the state reset, is that of the packets sent so far.
EventSeesAll == [][event /\ ~event' => queue = <<>>]_vars

\* When the wait of a flush returns, at the end of a frame (proxy.c:324-331) and
\* in Deinit, what came before is drawn: nothing is left and nothing half done.
FlushDraws ==
    [][(plan = <<"wait">> \/ plan = <<"wait", "event", "stop">>) /\ plan' # plan
       => queue' = <<>> /\ proxy \notin {"draw"} \cup Loading]_vars

\* The CPU thread waits for a proxy thread that stopped on a corrupted packet and that
\* nobody starts again.  _wait looks at threadState once and then waits for an empty
\* queue: the thread may stop after that look.
StrandedInWait ==
    Doing("wait") /\ threadState = "stopped" /\ cpu \in {"asleep", "loop"}

\* _postEvent never looks (thread-proxy.c:137-146).  In GetPixels and Deinit the thread
\* has stopped since the wait before, which would have started it again.  A reset has
\* no such wait and recovers nothing (56-65): it waits for ever also when the thread had
\* stopped at any time before the reset was called.
StrandedInEvent ==
    Doing("event") /\ threadState = "stopped" /\ cpu \in {"asleep", "loop"}

Stranded == StrandedInWait \/ StrandedInEvent

\* Every renderer call returns, or is stranded.  A wait that finds the proxy thread
\* stopped starts it again, and the call goes on.
CallsReturn == plan # <<>> ~> (plan = <<>> \/ Stranded)
=============================================================================
