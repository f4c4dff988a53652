----------------------- MODULE VideoThreadProxyProofs -----------------------
(***************************************************************************)
(* Proofs about VideoThreadProxy, for every set of renderer calls, every   *)
(* bound of the queue, and with or without corrupted packets.              *)
(*                                                                         *)
(* What is left of a call is one of a few plans.  The invariant says where *)
(* each thread can be while the other is where it is, that the queue is a  *)
(* run of whole packets between the reader and the writer as long as the   *)
(* proxy thread is sound, and that it is empty from the end of a wait to   *)
(* the end of the call.  The last theorem is about the two conditions: a   *)
(* thread that sleeps is never waited for by one that sleeps too.          *)
(***************************************************************************)
EXTENDS VideoThreadProxy, SequenceTheorems, TLAPS

\* What is left of a call.
FlushWaits == {<<"wait">>, <<"wait", "event", "stop">>}
Plans ==
    {<<>>, <<"item">>, <<"item", "wake">>, <<"wake">>,
     <<"vram", "payload", "item", "wake">>, <<"payload", "item", "wake">>,
     <<"item", "flush", "wait">>, <<"flush", "wait">>,
     <<"flush", "wait", "event", "stop">>, <<"wait", "event">>,
     <<"event">>, <<"event", "stop">>, <<"stop">>,
     <<"lock", "put", "unlock">>, <<"put", "unlock">>, <<"unlock">>,
     <<"reset", "event">>} \cup FlushWaits

\* The step the CPU thread is at.
First(p) == IF p = <<>> THEN "none" ELSE Head(p)
Step == First(plan)

\* Where the CPU thread is in that step.
CpuAt ==
    /\ cpu = "full" => Step \in Packets
    /\ cpu = "asleep" => Step \in Packets \cup {"wait", "event", "reset", "stop"}
    /\ cpu = "loop" => Step \in {"wait", "event", "reset", "stop"}
    /\ cpu \in {"recover", "recovering"} => Step = "wait" /\ threadState = "stopped"
    /\ cpu = "join" => Step = "stop" /\ threadState = "stopped" /\ queue = <<>>
    /\ cpu = "closed" => Step = "none" /\ threadState = "stopped" /\ proxy = "done"
    /\ cpu = "recovering" => queue = <<>>
    /\ held => Step \in {"put", "unlock"}
    /\ event => Step = "event" /\ cpu \in {"asleep", "loop"}

\* What threadState says of the proxy thread.
ProxyAt ==
    /\ proxy \in Running => threadState = "busy"
    /\ proxy = "after" => threadState # "idle"
    /\ proxy \in {"start", "asleep", "woken"} =>
           threadState = "idle" \/ (threadState = "stopped" /\ cpu = "join")
    /\ proxy = "done" => threadState = "stopped"

Sound == threadState # "stopped" /\ proxy # "failing"

\* Every payload follows its head, which the reader or the writer may hold.
Chain ==
    /\ \A i \in 1 .. Len(queue) :
           queue[i] = "payload" <=>
               IF i = 1 THEN proxy \in Loading ELSE queue[i - 1] = "vram"
    /\ Step = "payload" <=>
           IF queue = <<>> THEN proxy \in Loading ELSE queue[Len(queue)] = "vram"

\* A wait after a flush packet, and what is left when an event is answered.
Drawn == queue = <<>> /\ proxy \notin {"draw"} \cup Loading
Flushed == plan \in FlushWaits /\ Sound =>
               Drawn \/ (queue # <<>> /\ queue[Len(queue)] = "flush")
Emptied == Step \in {"event", "stop"} => queue = <<>>
Settled ==
    (Step = "event" /\ cpu \in {"asleep", "loop"} /\ ~event) \/ (Step = "stop" /\ cpu # "join") =>
        Sound /\ Drawn

Inv ==
    /\ TypeOK /\ plan \in Plans
    /\ CpuAt /\ ProxyAt /\ (Sound => Chain) /\ Flushed /\ Emptied /\ Settled

----------------------------------------------------------------------------
\* What follows a step in a plan.
Follows(p) ==
    /\ First(p) = "item" => First(Tail(p)) \in {"none", "wake", "flush"}
    /\ First(p) = "vram" => First(Tail(p)) = "payload"
    /\ First(p) = "payload" => First(Tail(p)) = "item"
    /\ First(p) = "flush" => Tail(p) \in FlushWaits \/ Tail(p) = <<"wait", "event">>
    /\ First(p) = "wait" => First(Tail(p)) \in {"none", "event"}
    /\ First(p) = "event" => First(Tail(p)) \in {"none", "stop"}
    /\ First(p) = "reset" => First(Tail(p)) = "event"
    /\ First(p) = "lock" => First(Tail(p)) = "put"
    /\ First(p) = "put" => First(Tail(p)) = "unlock"
    /\ First(p) \in {"wake", "stop", "unlock"} => First(Tail(p)) = "none"

\* The first step and the tail of each plan.
LEMMA PlanFacts ==
    ASSUME NEW p \in Plans
    PROVE  /\ p \in Seq(Steps)
           /\ First(p) \in Steps \cup {"none"}
           /\ First(p) = "none" <=> p = <<>>
           /\ p # <<>> => First(p) = Head(p)
           /\ p # <<>> => Tail(p) \in Plans /\ Follows(p)
           /\ p \in FlushWaits => First(p) = "wait"
           /\ p # <<>> /\ Tail(p) \in FlushWaits => First(p) = "flush"
  <1> USE DEF First, Follows, FlushWaits, Steps, Packets
  <1>1. CASE p = <<>>
    BY <1>1
  <1>2. CASE p = <<"item">>
    <2>1. Tail(p) = <<>>
      BY <1>2
    <2> QED  BY <1>2, <2>1 DEF Plans
  <1>3. CASE p = <<"item", "wake">>
    <2>1. Tail(p) = <<"wake">>
      BY <1>3
    <2> QED  BY <1>3, <2>1 DEF Plans
  <1>4. CASE p = <<"wake">>
    <2>1. Tail(p) = <<>>
      BY <1>4
    <2> QED  BY <1>4, <2>1 DEF Plans
  <1>5. CASE p = <<"vram", "payload", "item", "wake">>
    <2>1. Tail(p) = <<"payload", "item", "wake">>
      BY <1>5
    <2> QED  BY <1>5, <2>1 DEF Plans
  <1>6. CASE p = <<"payload", "item", "wake">>
    <2>1. Tail(p) = <<"item", "wake">>
      BY <1>6
    <2> QED  BY <1>6, <2>1 DEF Plans
  <1>7. CASE p = <<"item", "flush", "wait">>
    <2>1. Tail(p) = <<"flush", "wait">>
      BY <1>7
    <2> QED  BY <1>7, <2>1 DEF Plans
  <1>8. CASE p = <<"flush", "wait">>
    <2>1. Tail(p) = <<"wait">>
      BY <1>8
    <2> QED  BY <1>8, <2>1 DEF Plans
  <1>9. CASE p = <<"flush", "wait", "event", "stop">>
    <2>1. Tail(p) = <<"wait", "event", "stop">>
      BY <1>9
    <2> QED  BY <1>9, <2>1 DEF Plans
  <1>10. CASE p = <<"wait", "event">>
    <2>1. Tail(p) = <<"event">>
      BY <1>10
    <2> QED  BY <1>10, <2>1 DEF Plans
  <1>11. CASE p = <<"event">>
    <2>1. Tail(p) = <<>>
      BY <1>11
    <2> QED  BY <1>11, <2>1 DEF Plans
  <1>12. CASE p = <<"event", "stop">>
    <2>1. Tail(p) = <<"stop">>
      BY <1>12
    <2> QED  BY <1>12, <2>1 DEF Plans
  <1>13. CASE p = <<"stop">>
    <2>1. Tail(p) = <<>>
      BY <1>13
    <2> QED  BY <1>13, <2>1 DEF Plans
  <1>14. CASE p = <<"lock", "put", "unlock">>
    <2>1. Tail(p) = <<"put", "unlock">>
      BY <1>14
    <2> QED  BY <1>14, <2>1 DEF Plans
  <1>15. CASE p = <<"put", "unlock">>
    <2>1. Tail(p) = <<"unlock">>
      BY <1>15
    <2> QED  BY <1>15, <2>1 DEF Plans
  <1>16. CASE p = <<"unlock">>
    <2>1. Tail(p) = <<>>
      BY <1>16
    <2> QED  BY <1>16, <2>1 DEF Plans
  <1>17. CASE p = <<"reset", "event">>
    <2>1. Tail(p) = <<"event">>
      BY <1>17
    <2> QED  BY <1>17, <2>1 DEF Plans
  <1>18. CASE p = <<"wait">>
    <2>1. Tail(p) = <<>>
      BY <1>18
    <2> QED  BY <1>18, <2>1 DEF Plans
  <1>19. CASE p = <<"wait", "event", "stop">>
    <2>1. Tail(p) = <<"event", "stop">>
      BY <1>19
    <2> QED  BY <1>19, <2>1 DEF Plans
  <1> QED
    BY <1>1, <1>2, <1>3, <1>4, <1>5, <1>6, <1>7, <1>8, <1>9, <1>10, <1>11, <1>12,
       <1>13, <1>14, <1>15, <1>16, <1>17, <1>18, <1>19
       DEF Plans

\* The calls of the renderer are such plans.
LEMMA Concat12 ==
    ASSUME NEW a, NEW b, NEW c
    PROVE  <<a>> \o <<b, c>> = <<a, b, c>>
  <1> DEFINE S == {a, b, c}
  <1>1. <<a>> \in Seq(S) /\ <<b, c>> \in Seq(S) /\ <<a, b, c>> \in Seq(S)
    OBVIOUS
  <1>2. \A i \in 1 .. 3 : (<<a>> \o <<b, c>>)[i] = <<a, b, c>>[i]
    BY <1>1, ConcatProperties
  <1>3. Len(<<a>> \o <<b, c>>) = 3 /\ <<a>> \o <<b, c>> \in Seq(S)
    BY <1>1, ConcatProperties
  <1> QED  BY <1>1, <1>2, <1>3, SeqEqual

LEMMA Concat22 ==
    ASSUME NEW a, NEW b, NEW c, NEW d
    PROVE  <<a, b>> \o <<c, d>> = <<a, b, c, d>>
  <1> DEFINE S == {a, b, c, d}
  <1>1. <<a, b>> \in Seq(S) /\ <<c, d>> \in Seq(S) /\ <<a, b, c, d>> \in Seq(S)
    OBVIOUS
  <1>2. \A i \in 1 .. 4 : (<<a, b>> \o <<c, d>>)[i] = <<a, b, c, d>>[i]
    BY <1>1, ConcatProperties
  <1>3. Len(<<a, b>> \o <<c, d>>) = 4 /\ <<a, b>> \o <<c, d>> \in Seq(S)
    BY <1>1, ConcatProperties
  <1> QED  BY <1>1, <1>2, <1>3, SeqEqual

LEMMA CallFacts ==
    ASSUME NEW call \in Calls
    PROVE  /\ call \in Plans
           /\ First(call) \in {"item", "vram", "wait", "lock", "reset", "flush"}
           /\ First(call) = "wait" => call = <<"wait", "event">>
  <1> USE DEF First
  <1>1. call \in RendererCalls
    BY CallsAssumption
  <1>2. CASE call = WritePacket
    BY <1>2 DEF WritePacket, Plans
  <1>3. CASE call = DrawScanline
    BY <1>3 DEF DrawScanline, Plans
  <1>4. CASE call = DrawScanlineDirty
    <2>1. call = <<"vram", "payload", "item", "wake">>
      BY <1>4, Concat22 DEF DrawScanlineDirty, DrawScanline
    <2> QED  BY <2>1 DEF Plans
  <1>5. CASE call = FinishFrame
    <2>1. call = <<"item", "flush", "wait">>
      BY <1>5, Concat12 DEF FinishFrame, Flush
    <2> QED  BY <2>1 DEF Plans
  <1>6. CASE call = GetPixels
    BY <1>6 DEF GetPixels, Plans
  <1>7. CASE call = PutPixels
    BY <1>7 DEF PutPixels, Plans
  <1>8. CASE call = Reset
    BY <1>8 DEF Reset, Plans
  <1>9. CASE call = Deinit
    <2>1. call = <<"flush", "wait", "event", "stop">>
      BY <1>9, Concat22 DEF Deinit, Flush
    <2> QED  BY <2>1 DEF Plans
  <1> QED  BY <1>1, <1>2, <1>3, <1>4, <1>5, <1>6, <1>7, <1>8, <1>9 DEF RendererCalls

----------------------------------------------------------------------------
\* What plan being one of Plans says of Step.
LEMMA StepFacts ==
    ASSUME plan \in Plans
    PROVE  /\ Step \in Steps \cup {"none"}
           /\ Step = "none" <=> plan = <<>>
           /\ plan # <<>> => Head(plan) = Step
           /\ plan \in FlushWaits => Step = "wait"
           /\ \A step : Doing(step) <=> plan # <<>> /\ Step = step
  BY PlanFacts DEF Step, Doing

\* The plan is left alone, or its first step is done.
LEMMA SameStep ==
    ASSUME plan' = plan
    PROVE  Step' = Step
  BY DEF Step

LEMMA NextStep ==
    ASSUME plan \in Plans, plan # <<>>, plan' = Tail(plan)
    PROVE  /\ plan' \in Plans
           /\ Step' = "none" <=> plan' = <<>>
           /\ Step' \in Steps \cup {"none"}
           /\ plan' \in FlushWaits => Step = "flush" /\ Step' = "wait"
           /\ Step \in {"item", "wake"} => Step' \in {"none", "wake", "flush"}
           /\ Step = "vram" => Step' = "payload"
           /\ Step = "payload" => Step' = "item"
           /\ Step = "flush" => Step' = "wait"
           /\ Step = "wait" => Step' \in {"none", "event"}
           /\ Step = "event" => Step' \in {"none", "stop"}
           /\ Step = "reset" => Step' = "event"
           /\ Step = "lock" => Step' = "put"
           /\ Step = "put" => Step' = "unlock"
           /\ Step \in {"stop", "unlock"} => Step' = "none"
  <1>1. Step' = First(Tail(plan))
    BY DEF Step
  <1>2. Follows(plan) /\ plan' \in Plans
    BY PlanFacts
  <1>3. plan' \in FlushWaits => Step = "flush" /\ Step' = "wait"
    BY PlanFacts, <1>1, <1>2 DEF Step
  <1>4. /\ Step' = "none" <=> plan' = <<>>
        /\ Step' \in Steps \cup {"none"}
    BY <1>1, <1>2, PlanFacts
  <1>5. Step = "flush" => Step' = "wait"
    <2>1. First(<<"wait", "event">>) = "wait"
      BY DEF First
    <2> QED  BY <1>1, <1>2, <2>1, PlanFacts DEF Follows, Step
  <1> QED  BY <1>1, <1>2, <1>3, <1>4, <1>5 DEF Step, Follows

\* Two plans to come to: none, and that of a new logger.
LEMMA NoPlan ==
    ASSUME plan' = <<>>
    PROVE  plan' \in Plans /\ Step' = "none" /\ plan' \notin FlushWaits
  BY PlanFacts DEF Plans, Step, First

LEMMA ResetPlan ==
    Reset \in Plans /\ First(Reset) = "reset" /\ Reset # <<>> /\ Reset \notin FlushWaits
  BY PlanFacts DEF Plans, Reset, First, FlushWaits

\* The queue is empty when it has no packet, after a write, and after a read.
LEMMA EmptyQueue ==
    ASSUME NEW q \in Seq(Packets)
    PROVE  Len(q) \in Nat /\ (q = <<>> <=> Len(q) = 0)
  BY EmptySeq, LenProperties

LEMMA Written ==
    ASSUME NEW packet \in Packets, queue \in Seq(Packets), queue' = Append(queue, packet)
    PROVE  /\ queue' \in Seq(Packets) /\ queue' # <<>>
           /\ Len(queue) \in Nat /\ Len(queue') = Len(queue) + 1
           /\ queue'[Len(queue')] = packet
           /\ \A i \in 1 .. Len(queue) : queue'[i] = queue[i]
           /\ queue = <<>> <=> Len(queue) = 0
  BY AppendProperties, EmptyQueue

LEMMA ReadFrom ==
    ASSUME queue \in Seq(Packets), queue # <<>>, queue' = Tail(queue)
    PROVE  /\ queue' \in Seq(Packets)
           /\ Len(queue) \in Nat \ {0} /\ Len(queue') = Len(queue) - 1
           /\ queue' = <<>> <=> Len(queue) = 1
           /\ Head(queue) = queue[1] /\ queue[1] \in Packets
           /\ \A i \in 1 .. Len(queue') : queue'[i] = queue[i + 1]
  <1>1. Len(queue) \in Nat \ {0} /\ Head(queue) = queue[1]
    BY EmptyQueue
  <1>2. queue' \in Seq(Packets) /\ Len(queue') = Len(queue) - 1
    BY HeadTailProperties
  <1>3. queue' = <<>> <=> Len(queue) = 1
    <2>1. queue' = <<>> <=> Len(queue') = 0
      BY <1>2, EmptyQueue
    <2> QED  BY <1>1, <1>2, <2>1
  <1>4. queue[1] \in Packets
    BY <1>1, ElementOfSeq
  <1>5. \A i \in 1 .. Len(queue') : queue'[i] = queue[i + 1]
    BY <1>1, <1>2, HeadTailProperties
  <1> QED  BY <1>1, <1>2, <1>3, <1>4, <1>5

\* A write keeps the packets chained, and so does a read.
LEMMA WriteChains ==
    ASSUME Chain, plan \in Plans, Step \in Packets, queue \in Seq(Packets),
           queue' = Append(queue, Step), plan' = Tail(plan), plan # <<>>, proxy' = proxy
    PROVE  Chain'
  <1>1. \A i \in 1 .. Len(queue') :
            queue'[i] = "payload" <=>
                IF i = 1 THEN proxy' \in Loading ELSE queue'[i - 1] = "vram"
    <2> TAKE i \in 1 .. Len(queue')
    <2>1. CASE i \in 1 .. Len(queue)
      <3>1. i # 1 => i - 1 \in 1 .. Len(queue)
        BY <2>1, Written
      <3> QED  BY <2>1, <3>1, Written DEF Chain
    <2>2. CASE i = Len(queue')
      <3>1. queue'[i] = Step
        BY <2>2, Written
      <3>2. queue # <<>> => i # 1 /\ queue'[i - 1] = queue[Len(queue)]
        BY <2>2, Written
      <3> QED  BY <2>2, <3>1, <3>2, Written DEF Chain
    <2> QED  BY <2>1, <2>2, Written
  <1>2. Step' = "payload" <=> Step = "vram"
    BY NextStep DEF Packets
  <1>3. queue' # <<>> /\ queue'[Len(queue')] = Step
    BY Written
  <1> QED  BY <1>1, <1>2, <1>3 DEF Chain

LEMMA ReadChains ==
    ASSUME Chain, queue \in Seq(Packets), queue # <<>>, queue' = Tail(queue), plan' = plan,
           proxy' \in Loading <=> queue[1] = "vram"
    PROVE  Chain'
  <1>1. \A i \in 1 .. Len(queue') :
            queue'[i] = "payload" <=>
                IF i = 1 THEN proxy' \in Loading ELSE queue'[i - 1] = "vram"
    <2> TAKE i \in 1 .. Len(queue')
    <2>1. i + 1 \in 1 .. Len(queue) /\ i + 1 # 1 /\ (i + 1) - 1 = i /\ i \in 1 .. Len(queue)
      BY ReadFrom
    <2>2. queue'[i] = "payload" <=> queue[i] = "vram"
      BY <2>1, ReadFrom DEF Chain
    <2>3. i # 1 => queue'[i - 1] = queue[i]
      BY <2>1, ReadFrom
    <2> QED  BY <2>2, <2>3
  <1>2. Step' = Step
    BY SameStep
  <1>3. queue' = <<>> => queue[Len(queue)] = queue[1]
    BY ReadFrom
  <1>4. queue' # <<>> => queue'[Len(queue')] = queue[Len(queue)]
    BY ReadFrom
  <1> QED  BY <1>1, <1>2, <1>3, <1>4 DEF Chain

\* The four actions that write, read or clear packets, conjunct by conjunct.
LEMMA WriteKeeps == Inv /\ Write => Inv'
  <1> SUFFICES ASSUME Inv, Write PROVE Inv'
    OBVIOUS
  <1> USE DEF Inv, TypeOK, Write, Finish, Doing
  <1>1. CASE queue' = Append(queue, Head(plan)) /\ Len(queue) < MaxQueue /\ Finish
    <2>1. Step \in Packets /\ queue' = Append(queue, Step)
      BY <1>1, StepFacts
    <2>2. TypeOK' /\ plan' \in Plans
      BY <1>1, <2>1, Written, NextStep, PlanFacts, CallsAssumption, StepFacts
         DEF CpuAt, Packets
    <2>3. CpuAt' /\ ProxyAt'
      BY <1>1, <2>1, StepFacts, NextStep DEF CpuAt, ProxyAt, Packets
    <2>4. (Sound => Chain)'
      BY <1>1, <2>1, WriteChains DEF Sound
    <2>5. Flushed' /\ Emptied' /\ Settled'
      BY <1>1, <2>1, Written, StepFacts, NextStep DEF Flushed, Emptied, Settled, Packets
    <2> QED  BY <2>2, <2>3, <2>4, <2>5
  <1>2. CASE queue # <<>> /\ cpu' = "full" /\ UNCHANGED <<queue, plan>>
    BY <1>2, StepFacts, SameStep
       DEF CpuAt, ProxyAt, Sound, Chain, Drawn, Flushed, Emptied, Settled, Packets
  <1> QED  BY <1>1, <1>2

LEMMA RunKeeps == Inv /\ Run => Inv'
  <1> SUFFICES ASSUME Inv, Run PROVE Inv'
    OBVIOUS
  <1> USE DEF Inv, TypeOK, Run, Loading, Running
  <1>1. threadState = "busy" /\ Step' = Step
    BY SameStep DEF ProxyAt
  <1>2. CASE queue = <<>>
    BY <1>1, <1>2, StepFacts
       DEF CpuAt, ProxyAt, Sound, Chain, Drawn, Flushed, Emptied, Settled, Doing
  <1>3. CASE queue # <<>>
    <2>1. queue' = Tail(queue) /\ queue[1] = Head(queue) /\ queue[1] \in Packets
      BY <1>3, ReadFrom
    <2>2. TypeOK' /\ plan' \in Plans
      BY <1>1, <1>3, <2>1, ReadFrom, CallsAssumption DEF Packets, Doing
    <2>3. CpuAt' /\ ProxyAt' /\ Emptied'
      BY <1>1, <1>3, <2>1 DEF CpuAt, ProxyAt, Emptied, Packets
    <2>4. (Sound => Chain)'
      BY <1>1, <1>3, <2>1, ReadChains DEF Sound, Packets
    <2>5. Flushed'
      <3>1. CASE Len(queue) = 1
        BY <1>1, <1>3, <2>1, <3>1, ReadFrom DEF Flushed, Drawn, Sound
      <3>2. CASE Len(queue) # 1
        <4>1. queue' # <<>> /\ queue'[Len(queue')] = queue[Len(queue)]
          BY <1>3, <2>1, <3>2, ReadFrom
        <4> QED  BY <1>1, <1>3, <4>1 DEF Flushed, Drawn, Sound
      <3> QED  BY <3>1, <3>2
    <2>6. Settled'
      BY <1>1, <1>3 DEF Settled, Drawn
    <2> QED  BY <2>2, <2>3, <2>4, <2>5, <2>6
  <1> QED  BY <1>2, <1>3

LEMMA LoadKeeps == Inv /\ Load => Inv'
  <1> SUFFICES ASSUME Inv, Load PROVE Inv'
    OBVIOUS
  <1> USE DEF Inv, TypeOK, Load, Loading, Running
  <1>1. threadState = "busy" /\ Step' = Step /\ Sound /\ Chain
    BY SameStep DEF ProxyAt, Sound
  <1>2. CASE queue = <<>>
    BY <1>1, <1>2, StepFacts
       DEF CpuAt, ProxyAt, Sound, Chain, Drawn, Flushed, Emptied, Settled, Doing
  <1>3. CASE queue # <<>>
    <2>1. queue' = Tail(queue) /\ queue[1] = "payload"
      BY <1>1, <1>3, EmptyQueue DEF Chain
    <2>2. TypeOK' /\ plan' \in Plans
      BY <1>1, <1>3, <2>1, ReadFrom, CallsAssumption DEF Doing
    <2>3. CpuAt' /\ ProxyAt' /\ Emptied'
      BY <1>1, <1>3, <2>1 DEF CpuAt, ProxyAt, Emptied
    <2>4. Chain'
      BY <1>1, <1>3, <2>1, ReadChains
    <2>5. Flushed'
      <3>1. CASE Len(queue) = 1
        BY <1>1, <1>3, <2>1, <3>1, ReadFrom DEF Flushed, Drawn
      <3>2. CASE Len(queue) # 1
        <4>1. queue' # <<>> /\ queue'[Len(queue')] = queue[Len(queue)]
          BY <1>3, <2>1, <3>2, ReadFrom
        <4> QED  BY <1>1, <1>3, <4>1 DEF Flushed, Drawn
      <3> QED  BY <3>1, <3>2
    <2>6. Settled'
      BY <1>1, <1>3 DEF Settled, Drawn
    <2> QED  BY <2>2, <2>3, <2>4, <2>5, <2>6
  <1> QED  BY <1>2, <1>3

LEMMA ResetKeeps == Inv /\ ResetLoop => Inv'
  <1> SUFFICES ASSUME Inv, ResetLoop PROVE Inv'
    OBVIOUS
  <1> USE DEF Inv, TypeOK, ResetLoop, Doing
  <1>1. CASE threadState = "busy"
    BY <1>1, StepFacts, SameStep
       DEF AskProxy, WokenProxy, CpuAt, ProxyAt, Sound, Chain, Drawn, Flushed, Emptied,
           Settled, Loading, Running
  <1>2. CASE threadState # "busy"
    <2>1. Step = "reset" /\ Step' = "event" /\ plan' \in Plans /\ plan' \notin FlushWaits
      BY <1>2, StepFacts, NextStep DEF Finish
    <2>2. queue' = <<>> /\ Len(queue') = 0 /\ proxy \notin Running
      BY <1>2, EmptySeq DEF ProxyAt
    <2>3. TypeOK'
      BY <1>2, <2>1, <2>2, EmptySeq, PlanFacts, CallsAssumption DEF Finish, CpuAt
    <2>4. CpuAt' /\ ProxyAt' /\ Chain' /\ Flushed' /\ Emptied' /\ Settled'
      BY <1>2, <2>1, <2>2
         DEF Finish, CpuAt, ProxyAt, Chain, Flushed, Emptied, Settled, Running, Loading
    <2> QED  BY <2>1, <2>3, <2>4
  <1> QED  BY <1>1, <1>2

\* The two steps that start a call.
LEMMA BeginKeeps ==
    ASSUME Inv, NEW call \in Calls, Begin(call)
    PROVE  Inv'
  <1> USE DEF Inv, TypeOK, Begin
  <1>1. plan' \in Plans /\ plan' # <<>> /\ Step = "none"
    BY CallFacts, PlanFacts, StepFacts
  <1>2. Step' \in {"item", "vram", "wait", "lock", "reset", "flush"}
    BY CallFacts DEF Step
  <1>3. plan' \notin FlushWaits
    BY CallFacts, PlanFacts DEF FlushWaits
  <1> QED
    BY <1>1, <1>2, <1>3, PlanFacts
       DEF CpuAt, ProxyAt, Sound, Chain, Flushed, Emptied, Settled, Doing

LEMMA CreateKeeps == Inv /\ Create => Inv'
  <1> SUFFICES ASSUME Inv, Create PROVE Inv'
    OBVIOUS
  <1>1. plan' = Reset /\ Step' = "reset" /\ plan' \in Plans /\ plan' \notin FlushWaits
    BY ResetPlan DEF Create, Step
  <1>2. queue' = <<>> /\ Len(queue') = 0 /\ ~event /\ ~held
    BY EmptySeq DEF Inv, Create, CpuAt
  <1>3. TypeOK'
    BY <1>1, <1>2, EmptySeq, PlanFacts, CallsAssumption DEF Inv, TypeOK, Create
  <1>4. CpuAt' /\ ProxyAt' /\ Chain' /\ Flushed' /\ Emptied' /\ Settled'
    BY <1>1, <1>2
       DEF Inv, Create, CpuAt, ProxyAt, Chain, Flushed, Emptied, Settled, Running, Loading
  <1> QED  BY <1>1, <1>3, <1>4 DEF Inv

----------------------------------------------------------------------------
\* The invariant holds at first and is kept.
LEMMA InvInit == Init => Inv
  <1> SUFFICES ASSUME Init PROVE Inv
    OBVIOUS
  <1>1. plan = Reset /\ Step = "reset" /\ plan \in Plans /\ plan \notin FlushWaits
    BY ResetPlan DEF Init, Step
  <1>2. queue \in Seq(Packets) /\ Len(queue) = 0 /\ plan \in Seq(Steps)
    BY <1>1, PlanFacts, EmptySeq DEF Init
  <1>3. TypeOK
    <2>1. event \in BOOLEAN /\ held \in BOOLEAN /\ ~event
      BY DEF Init
    <2>2. Len(queue) <= MaxQueue
      BY <1>2, CallsAssumption
    <2>3. threadState = "idle" /\ cpu = "run" /\ proxy = "start"
      BY DEF Init
    <2> QED  BY <1>2, <2>1, <2>2, <2>3 DEF TypeOK
  <1>4. CpuAt /\ ProxyAt /\ Chain /\ Flushed /\ Emptied /\ Settled
    BY <1>1, EmptySeq
       DEF Init, CpuAt, ProxyAt, Chain, Flushed, Emptied, Settled, Running, Loading
  <1> QED  BY <1>1, <1>3, <1>4 DEF Inv

\* One step for each action; those that need more than a leaf have their lemma above.
LEMMA InvNext == Inv /\ [Next]_vars => Inv'
  <1> SUFFICES ASSUME Inv, [Next]_vars PROVE Inv'
    OBVIOUS
  <1> USE DEF Inv, TypeOK, CpuAt, ProxyAt, Sound, Chain, Drawn, Flushed, Emptied, Settled,
              Doing, Packets, Steps, Loading, Running, Waiting
  <1>1. CASE Write
    BY <1>1, WriteKeeps
  <1>2. CASE WriteRefused
    BY <1>2, StepFacts, NextStep, PlanFacts, SameStep DEF WriteRefused, Finish, AskProxy, WokenProxy
  <1>3. CASE Wake
    BY <1>3, StepFacts, NextStep, PlanFacts DEF Wake, Finish, WokenProxy
  <1>4. CASE WaitEnter
    BY <1>4, StepFacts, SameStep DEF WaitEnter
  <1>5. CASE WaitLoop
    BY <1>5, StepFacts, NextStep, PlanFacts, SameStep DEF WaitLoop, Finish, AskProxy, WokenProxy
  <1>6. CASE RecoverClear
    BY <1>6, StepFacts, SameStep, EmptySeq, CallsAssumption DEF RecoverClear
  <1>7. CASE RecoverRestart
    BY <1>7, StepFacts, NextStep, PlanFacts DEF RecoverRestart, Finish
  <1>8. CASE PostEvent
    BY <1>8, StepFacts, SameStep DEF PostEvent, AskProxy, WokenProxy
  <1>9. CASE EventLoop
    BY <1>9, StepFacts, NextStep, PlanFacts, SameStep DEF EventLoop, Finish, AskProxy, WokenProxy
  <1>10. CASE ResetLoop
    BY <1>10, ResetKeeps
  <1>11. CASE StopLoop
    BY <1>11, StepFacts, SameStep, NoPlan, EmptySeq DEF StopLoop, AskProxy, WokenProxy
  <1>12. CASE StopJoin
    BY <1>12, StepFacts, NoPlan, EmptySeq DEF StopJoin
  <1>13. CASE Lock
    BY <1>13, StepFacts, NextStep, PlanFacts DEF Lock, Finish
  <1>14. CASE Put
    BY <1>14, StepFacts, NextStep, PlanFacts DEF Put, Finish
  <1>15. CASE Unlock
    BY <1>15, StepFacts, NextStep, PlanFacts DEF Unlock, Finish
  <1>16. CASE Start
    BY <1>16, StepFacts, SameStep DEF Start, EndTurn, WokenCpu
  <1>17. CASE Turn
    BY <1>17, StepFacts, SameStep DEF Turn, EndTurn, WokenCpu
  <1>18. CASE Run
    BY <1>18, RunKeeps
  <1>19. CASE Draw
    BY <1>19, StepFacts, SameStep DEF Draw
  <1>20. CASE Load
    BY <1>20, LoadKeeps
  <1>21. CASE Starve
    BY <1>21, StepFacts, SameStep DEF Starve, WokenCpu
  <1>22. CASE Fail
    BY <1>22, StepFacts, SameStep DEF Fail
  <1>23. CASE After
    BY <1>23, StepFacts, SameStep DEF After, EndTurn, WokenCpu
  <1>24. CASE Spurious
    BY <1>24, StepFacts, SameStep DEF Spurious, WokenCpu, WokenProxy
  <1>25. CASE \E call \in Calls : Begin(call)
    BY <1>25, BeginKeeps
  <1>26. CASE Create
    BY <1>26, CreateKeeps
  <1>27. CASE UNCHANGED vars
    BY <1>27, SameStep DEF vars
  <1> QED
    BY <1>1, <1>2, <1>3, <1>4, <1>5, <1>6, <1>7, <1>8, <1>9, <1>10, <1>11, <1>12, <1>13, <1>14,
       <1>15, <1>16, <1>17, <1>18, <1>19, <1>20, <1>21, <1>22, <1>23, <1>24, <1>25, <1>26, <1>27
       DEF Next, CpuStep, ProxyStep

LEMMA Invariance == Spec => []Inv
  BY InvInit, InvNext, PTL DEF Spec

----------------------------------------------------------------------------
\* The theorems.

\* Every variable has its type; the CPU thread sleeps only inside a call, and an
\* event is pending only while it waits for the answer (thread-proxy.c:137-146).
THEOREM TypeCorrect == Spec => []TypeOK
  <1>1. Inv => TypeOK
    BY DEF Inv
  <1> QED  BY <1>1, Invariance, PTL

\* The reader stays aligned with the writer (video-logger.c, thread-proxy.c:97-115):
\* bytes where it expects bytes, and a packet everywhere else.
THEOREM StaysAligned == Spec => []Aligned
  <1>1. Inv => Aligned
    <2> SUFFICES ASSUME Inv, queue # <<>>
                 PROVE  /\ proxy \in Loading => Head(queue) = "payload"
                        /\ proxy \in {"start", "asleep", "woken", "run", "draw"} =>
                               Head(queue) # "payload"
      BY DEF Aligned
    <2>1. Head(queue) = queue[1] /\ 1 \in 1 .. Len(queue)
      BY EmptyQueue DEF Inv, TypeOK
    <2>2. Chain => (Head(queue) = "payload" <=> proxy \in Loading)
      BY <2>1 DEF Chain
    <2>3. proxy \in Loading \cup {"run", "draw", "start", "asleep", "woken"} => Sound
      BY DEF Inv, ProxyAt, CpuAt, Sound, Running, Loading
    <2> QED  BY <2>2, <2>3 DEF Inv, Loading
  <1> QED  BY <1>1, Invariance, PTL

\* When deinit has returned, and the queue and the mutex are freed
\* (thread-proxy.c:84-87), the proxy thread has ended.
THEOREM ClosedRests == Spec => []ClosedAtRest
  <1>1. Inv => ClosedAtRest
    BY DEF Inv, CpuAt, ClosedAtRest
  <1> QED  BY <1>1, Invariance, PTL

\* Who changes the queue, the pending event, and what is left of a wait.
LEMMA Changes ==
    ASSUME Inv, [Next]_vars
    PROVE  /\ queue' # queue => Write \/ RecoverClear \/ ResetLoop \/ Create \/ Run \/ Load
           /\ event' # event => PostEvent \/ Turn
           /\ Step = "wait" /\ plan' # plan => WaitLoop \/ RecoverRestart
  <1> USE DEF Next, CpuStep, ProxyStep, vars, EndTurn, AskProxy, Finish
  <1>1. queue' # queue => Write \/ RecoverClear \/ ResetLoop \/ Create \/ Run \/ Load
    BY DEF WriteRefused, Wake, WaitEnter, WaitLoop, RecoverRestart, PostEvent, EventLoop,
           StopLoop, StopJoin, Lock, Put, Unlock, Start, Turn, Draw, Starve, Fail, After,
           Spurious, Begin
  <1>2. event' # event => PostEvent \/ Turn
    BY DEF Write, WriteRefused, Wake, WaitEnter, WaitLoop, RecoverClear, RecoverRestart,
           EventLoop, ResetLoop, StopLoop, StopJoin, Lock, Put, Unlock, Start, Run, Draw,
           Load, Starve, Fail, After, Spurious, Begin, Create
  <1>3. Step = "wait" /\ plan' # plan => WaitLoop \/ RecoverRestart
    <2> SUFFICES ASSUME Step = "wait", plan' # plan
                 PROVE  WaitLoop \/ RecoverRestart
      OBVIOUS
    <2>1. plan # <<>> /\ cpu \notin {"full", "join", "closed"}
      BY StepFacts DEF Inv, CpuAt, Packets
    <2>2. ~Write /\ ~WriteRefused /\ ~StopJoin /\ ~Create /\ ~(\E call \in Calls : Begin(call))
      BY <2>1, StepFacts DEF Inv, Write, WriteRefused, StopJoin, Create, Begin, Packets
    <2>3. ~Wake /\ ~EventLoop /\ ~ResetLoop /\ ~StopLoop /\ ~Lock /\ ~Put /\ ~Unlock
      BY StepFacts
         DEF Inv, Doing, Wake, EventLoop, ResetLoop, StopLoop, Lock, Put, Unlock
    <2> QED
      BY <2>2, <2>3
         DEF WaitEnter, RecoverClear, PostEvent, Start, Turn, Run, Draw, Load, Starve,
             Fail, After, Spurious
  <1> QED  BY <1>1, <1>2, <1>3

\* RingFIFOClear runs only while nobody reads (thread-proxy.c:37-43, 160-170).
THEOREM ClearsQuietly == Spec => ClearedWhileQuiet
  <1>1. Inv /\ [Next]_vars =>
            (queue # <<>> /\ queue' = <<>> /\ UNCHANGED proxy => proxy \notin Running)
    <2> SUFFICES ASSUME Inv, [Next]_vars, queue # <<>>, queue' = <<>>, proxy' = proxy
                 PROVE  proxy \notin Running
      OBVIOUS
    <2>1. Write \/ RecoverClear \/ ResetLoop \/ Create \/ Run \/ Load
      BY Changes
    <2>2. ~Write
      BY AppendProperties, StepFacts DEF Write, Inv, TypeOK
    <2>3. CASE RecoverClear \/ ResetLoop \/ Create
      BY <2>3 DEF RecoverClear, ResetLoop, Create, Inv, CpuAt, ProxyAt, Running, Loading
    <2>4. CASE Run \/ Load
      BY <2>4, ReadFrom DEF Run, Load, Packets, Inv, TypeOK
    <2> QED  BY <2>1, <2>2, <2>3, <2>4
  <1> QED  BY <1>1, Invariance, PTL DEF Spec, ClearedWhileQuiet

\* An event is handled after everything that was written before it.
THEOREM EventsSeeAll == Spec => EventSeesAll
  <1>1. Inv /\ [Next]_vars => (event /\ ~event' => queue = <<>>)
    BY Changes DEF Inv, CpuAt, Emptied
  <1> QED  BY <1>1, Invariance, PTL DEF Spec, EventSeesAll

\* When the wait of a flush returns, what came before it is drawn (proxy.c:324-331).
THEOREM FlushesDraw == Spec => FlushDraws
  <1>1. Inv /\ [Next]_vars =>
            ((plan = <<"wait">> \/ plan = <<"wait", "event", "stop">>) /\ plan' # plan
             => queue' = <<>> /\ proxy \notin {"draw"} \cup Loading)
    <2> SUFFICES ASSUME Inv, [Next]_vars, plan \in FlushWaits, plan' # plan
                 PROVE  queue' = <<>> /\ proxy \notin {"draw"} \cup Loading
      BY DEF FlushWaits
    <2>1. WaitLoop \/ RecoverRestart
      BY Changes, StepFacts DEF Inv
    <2>2. CASE WaitLoop
      <3>1. queue = <<>> /\ queue' = <<>>
        BY <2>2 DEF WaitLoop, AskProxy
      <3> QED
        BY <3>1 DEF Inv, Flushed, Drawn, Sound, ProxyAt, Running, Loading
    <2>3. CASE RecoverRestart
      BY <2>3 DEF RecoverRestart, Inv, CpuAt, Loading
    <2> QED  BY <2>1, <2>2, <2>3
  <1> QED  BY <1>1, Invariance, PTL DEF Spec, FlushDraws

----------------------------------------------------------------------------
\* Who wakes whom.

\* Each thread wakes the other before it sleeps; a proxy thread that has ended lets the
\* CPU thread sleep only in a wait that began before it ended, or for an event.
Served ==
    /\ cpu = "asleep" => proxy \notin Waiting /\ (proxy = "done" => Step \in {"wait", "event"})
    /\ cpu = "join" => proxy \notin Waiting

LEMMA ServedNext == Inv /\ Served /\ [Next]_vars => Served'
  <1> SUFFICES ASSUME Inv, Served, [Next]_vars PROVE Served'
    OBVIOUS
  <1> USE DEF Inv, TypeOK, CpuAt, ProxyAt, Served, Doing, Packets, Steps, Loading, Running, Waiting
  <1>1. CASE Write
    BY <1>1 DEF Write, Finish
  <1>2. CASE WriteRefused
    BY <1>2, StepFacts, SameStep DEF WriteRefused, Finish, AskProxy, WokenProxy
  <1>3. CASE Wake \/ Lock \/ Put \/ Unlock
    BY <1>3 DEF Wake, Lock, Put, Unlock, Finish
  <1>4. CASE WaitEnter \/ RecoverClear \/ RecoverRestart \/ StopJoin \/ Create
    BY <1>4 DEF WaitEnter, RecoverClear, RecoverRestart, StopJoin, Create, Finish
  <1>5. CASE WaitLoop
    BY <1>5, StepFacts, SameStep DEF WaitLoop, Finish, AskProxy, WokenProxy
  <1>6. CASE PostEvent \/ EventLoop
    BY <1>6, StepFacts, SameStep DEF PostEvent, EventLoop, Finish, AskProxy, WokenProxy
  <1>7. CASE ResetLoop
    BY <1>7, StepFacts, SameStep DEF ResetLoop, Finish, AskProxy, WokenProxy
  <1>8. CASE StopLoop
    BY <1>8, StepFacts, SameStep DEF StopLoop, AskProxy, WokenProxy
  <1>9. CASE Start \/ After
    BY <1>9, StepFacts, SameStep DEF Start, After, EndTurn, WokenCpu
  <1>10. CASE Turn
    BY <1>10, StepFacts, SameStep DEF Turn, EndTurn, WokenCpu
  <1>11. CASE Run
    BY <1>11, SameStep DEF Run
  <1>12. CASE Draw \/ Load \/ Fail
    BY <1>12, SameStep DEF Draw, Load, Fail
  <1>13. CASE Starve
    BY <1>13, StepFacts, SameStep DEF Starve, WokenCpu
  <1>14. CASE Spurious
    BY <1>14, StepFacts, SameStep DEF Spurious, WokenCpu, WokenProxy
  <1>15. CASE \E call \in Calls : Begin(call)
    BY <1>15 DEF Begin
  <1>16. CASE UNCHANGED vars
    BY <1>16, SameStep DEF vars
  <1> QED
    BY <1>1, <1>2, <1>3, <1>4, <1>5, <1>6, <1>7, <1>8, <1>9, <1>10, <1>11, <1>12, <1>13, <1>14,
       <1>15, <1>16 DEF Next, CpuStep, ProxyStep

\* The CPU thread asleep in a call, or joining the proxy thread, never finds that one
\* asleep as well, nor ended unless it is stranded; and it never sleeps with the mutex
\* it took for the backend's picture.
CallIsServed ==
    /\ cpu = "asleep" => proxy \notin Waiting /\ (proxy = "done" => Stranded)
    /\ cpu \in {"join", "recovering"} => proxy \notin Waiting
    /\ held => cpu = "run" /\ plan \in {<<"put", "unlock">>, <<"unlock">>}

\* No wake is lost between the two conditions of thread-proxy.c, for any calls, any
\* length of the queue and any corruption: what CallsReturn needs beyond fairness.
THEOREM CallsAreServed == Spec => []CallIsServed
  <1>1. Init => Served
    BY DEF Init, Served
  <1>2. Inv /\ Served => CallIsServed
    <2> SUFFICES ASSUME Inv, Served PROVE CallIsServed
      OBVIOUS
    <2>1. cpu = "asleep" => proxy \notin Waiting /\ (proxy = "done" => Stranded)
      BY StepFacts DEF Inv, ProxyAt, CpuAt, Served, Stranded, StrandedInWait, StrandedInEvent,
         Packets
    <2>2. cpu \in {"join", "recovering"} => proxy \notin Waiting
      BY DEF Inv, ProxyAt, CpuAt, Served, Waiting, Running, Loading
    <2>3. ASSUME held PROVE cpu = "run" /\ plan \in {<<"put", "unlock">>, <<"unlock">>}
      <3>1. Step \in {"put", "unlock"} /\ plan \in Plans
        BY <2>3 DEF Inv, CpuAt
      <3>2. cpu = "run"
        BY <3>1 DEF Inv, CpuAt, TypeOK, Packets
      <3>3. plan \in {<<"put", "unlock">>, <<"unlock">>}
        BY <3>1, PlanFacts DEF Step, Plans, FlushWaits, First
      <3> QED  BY <3>2, <3>3
    <2> QED  BY <2>1, <2>2, <2>3 DEF CallIsServed
  <1> QED  BY <1>1, <1>2, Invariance, ServedNext, PTL DEF Spec
=============================================================================
