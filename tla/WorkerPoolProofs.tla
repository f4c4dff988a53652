-------------------------- MODULE WorkerPoolProofs --------------------------
(***************************************************************************)
(* Proofs about WorkerPool, for any lanes, bundles and number of workers:  *)
(* types, every lane and every process accounted for, a free slot whenever *)
(* one is wanted, and the meaning of the pool's exit code.  One inductive  *)
(* invariant carries them all, because a lane is lost or counted twice     *)
(* exactly when bundles overlap, and a process escapes when two jobs name  *)
(* it.                                                                     *)
(***************************************************************************)
EXTENDS WorkerPool, FiniteSetTheorems, TLAPS

\* What is needed beside the properties: when the pool polls, which processes its jobs name, and
\* what the exit code says so far.
Steady ==
    /\ IsFiniteSet(running)
    /\ pc # "poll" => unpolled = {} /\ closing = {}
    /\ pc = "end" => pending = {}
    /\ \A j \in running : procs[j.pid] # Gone
    /\ ~failed => done \subseteq zips

Inv == TypeOK /\ LanesAccounted /\ WorkersAccounted /\ Steady

----------------------------------------------------------------------------
\* Bundles and the lanes in them.

LEMMA LanesFinite ==
    ASSUME NEW S, S \subseteq Lanes
    PROVE  IsFiniteSet(S) /\ Cardinality(S) \in 0 .. Cardinality(Lanes)
<1>1. /\ IsFiniteSet(S) /\ Cardinality(S) <= Cardinality(Lanes)
      /\ IsFiniteSet(Lanes)
    BY FS_Subset, PoolAssumption
<1>2. Cardinality(S) \in Nat /\ Cardinality(Lanes) \in Nat
    BY <1>1, FS_CardinalityType
<1> QED
    BY <1>1, <1>2

LEMMA BundleLanes ==
    /\ \A b \in Bundles : b # {} /\ b \subseteq Lanes
    /\ (UNION Bundles) = Lanes
    /\ \A a, b \in Bundles : a # b => a \cap b = {}
    BY PoolAssumption

\* Taking a bundle out of pending takes out its lanes.
LEMMA TakenLanes ==
    ASSUME pending \subseteq Bundles, NEW b \in pending
    PROVE  /\ (UNION (pending \ {b})) = (UNION pending) \ b
           /\ Cardinality(UNION (pending \ {b})) = Cardinality(UNION pending) - Cardinality(b)
<1>1. (UNION (pending \ {b})) = (UNION pending) \ b
    BY BundleLanes
<1>2. (UNION pending) \subseteq Lanes /\ b \subseteq Lanes /\ (UNION pending) \cap b = b
    BY BundleLanes
<1>3. IsFiniteSet(UNION pending) /\ IsFiniteSet(b)
    BY <1>2, LanesFinite
<1>4. Cardinality((UNION pending) \ b) = Cardinality(UNION pending) - Cardinality((UNION pending) \cap b)
    BY <1>3, FS_Difference
<1> QED
    BY <1>1, <1>2, <1>4

\* Taking jobs out of running takes out their lanes, and no others.
LEMMA LeftLanes ==
    ASSUME TypeOK, WorkersAccounted, NEW S \in SUBSET running
    PROVE  /\ LanesOf(running \ S) = LanesOf(running) \ LanesOf(S)
           /\ LanesOf(S) \subseteq LanesOf(running)
           /\ LanesOf(running) \subseteq Lanes
<1>1. \A j \in running : j.bundle \in Bundles
    BY DEF TypeOK, Job
<1>2. \A j, k \in running : j # k => j.bundle \cap k.bundle = {}
    BY <1>1, BundleLanes DEF WorkersAccounted
<1> QED
    BY <1>1, <1>2, BundleLanes DEF LanesOf

\* Stopping jobs puts their lanes back, and the counter counts them.
LEMMA RequeuedLanes ==
    ASSUME Inv, NEW S \in SUBSET running
    PROVE  /\ (UNION Requeued(S)) = (UNION pending) \cup LanesOf(S)
           /\ Requeued(S) \subseteq Bundles
           /\ RequeuedCount(S) = Cardinality(UNION Requeued(S))
<1>1. (UNION Requeued(S)) = (UNION pending) \cup LanesOf(S)
    BY DEF Requeued, LanesOf
<1>2. Requeued(S) \subseteq Bundles
    BY DEF Inv, TypeOK, Job, Requeued
<1>3. /\ (UNION pending) \subseteq Lanes /\ LanesOf(S) \subseteq Lanes
      /\ (UNION pending) \cap LanesOf(S) = {}
    <2>1. pending \subseteq Bundles
        BY DEF Inv, TypeOK
    <2>2. (UNION pending) \subseteq Lanes
        BY <2>1, BundleLanes
    <2>3. LanesOf(S) \subseteq LanesOf(running) /\ LanesOf(running) \subseteq Lanes
        BY LeftLanes DEF Inv
    <2> QED
        BY <2>2, <2>3 DEF Inv, LanesAccounted
<1>4. IsFiniteSet(UNION pending) /\ IsFiniteSet(LanesOf(S))
    BY <1>3, LanesFinite
<1>5. Cardinality((UNION pending) \cup LanesOf(S))
          = Cardinality(UNION pending) + Cardinality(LanesOf(S)) - Cardinality({})
    BY <1>3, <1>4, FS_Union
<1>6. Cardinality(UNION pending) \in Nat /\ Cardinality(LanesOf(S)) \in Nat /\ Cardinality({}) = 0
    BY <1>4, FS_CardinalityType, FS_EmptySet
<1>7. pendingCount = Cardinality(UNION pending)
    BY DEF Inv, LanesAccounted
<1>8. Cardinality(UNION Requeued(S)) = pendingCount + Cardinality(LanesOf(S))
    <2>1. Cardinality(UNION Requeued(S)) = Cardinality((UNION pending) \cup LanesOf(S))
        BY <1>1
    <2>2. Cardinality((UNION pending) \cup LanesOf(S))
              = Cardinality(UNION pending) + Cardinality(LanesOf(S))
        BY <1>5, <1>6
    <2> QED
        BY <1>7, <2>1, <2>2
<1> QED
    BY <1>1, <1>2, <1>8 DEF RequeuedCount

----------------------------------------------------------------------------
\* The initial state.

LEMMA InitInv == Init => Inv
<1> SUFFICES ASSUME Init
             PROVE  Inv
    OBVIOUS
<1>1. Cardinality(Lanes) \in 0 .. Cardinality(Lanes)
    BY LanesFinite
<1>2. TypeOK
    <2>1. desired \in 0 .. MaxWorkers
        BY PoolAssumption DEF Init, Slots
    <2>2. procs \in [Pids -> Proc]
        BY DEF Init, Gone, Proc
    <2> QED
        BY <1>1, <2>1, <2>2 DEF Init, TypeOK
<1>3. LanesAccounted
    <2>1. (UNION pending) = Lanes /\ pendingCount = Cardinality(UNION pending)
        BY BundleLanes DEF Init
    <2>2. LanesOf(running) = {} /\ done = {}
        BY DEF Init, LanesOf
    <2> QED
        BY <2>1, <2>2 DEF LanesAccounted
<1>4. WorkersAccounted /\ Steady
    BY FS_EmptySet DEF Init, WorkersAccounted, Steady, Alive, Gone
<1> QED
    BY <1>2, <1>3, <1>4 DEF Inv

----------------------------------------------------------------------------
\* The processes' steps.

\* They leave the pool alone, wake no process and forget none.
LEMMA OutsideKeeps ==
    ASSUME Inv, UNCHANGED <<overwrite, poolVars>>,
           procs' \in [Pids -> Proc],
           \A p \in Pids : /\ Alive(p)' => Alive(p)
                           /\ procs'[p] = Gone => procs[p] = Gone,
           statuses' \in [Lanes -> Statuses], zips \subseteq zips', zips' \subseteq Lanes
    PROVE  Inv'
<1> USE DEF Inv, poolVars
<1>1. TypeOK'
    BY DEF TypeOK
<1>2. LanesAccounted'
    BY DEF LanesAccounted, LanesOf
<1>3. WorkersAccounted'
    BY DEF WorkersAccounted
<1>4. Steady'
    BY DEF Steady, TypeOK, Job
<1> QED
    BY <1>1, <1>2, <1>3, <1>4

LEMMA ProcStepInv ==
    ASSUME Inv, NEW p \in Pids, ProcStep(p)
    PROVE  Inv'
<1>1. procs \in [Pids -> Proc] /\ procs[p].todo \subseteq Lanes /\ procs[p] \in Proc
    BY DEF Inv, TypeOK, Proc
<1>2. ASSUME NEW at \in {"work", "zip"}, Goes(p, at), procs[p].at \in {"load", "work"}
      PROVE  /\ procs' \in [Pids -> Proc]
             /\ \A q \in Pids : /\ Alive(q)' => Alive(q)
                                /\ procs'[q] = Gone => procs[q] = Gone
    BY <1>1, <1>2 DEF Goes, Proc, Alive, Gone
<1>3. ASSUME Fails(p)
      PROVE  /\ procs' \in [Pids -> Proc]
             /\ \A q \in Pids : /\ Alive(q)' => Alive(q)
                                /\ procs'[q] = Gone => procs[q] = Gone
    BY <1>1, <1>3 DEF Fails, Proc, Alive, Gone
<1>4. /\ statuses \in [Lanes -> Statuses] /\ zips \subseteq Lanes
      /\ "open" \in Statuses /\ "failed" \in Statuses /\ "complete" \in Statuses
    BY DEF Inv, TypeOK, Statuses
<1>5. ASSUME NEW l \in Lanes, StartLane(p, l)
      PROVE  Inv'
    BY <1>2, <1>3, <1>4, <1>5, OutsideKeeps DEF StartLane
<1>6. ASSUME NEW l \in Lanes, FailLane(p, l)
      PROVE  Inv'
    BY <1>3, <1>4, <1>6, OutsideKeeps DEF FailLane
<1>7. ASSUME NEW l \in Lanes, PublishZip(p, l)
      PROVE  Inv'
    BY <1>2, <1>3, <1>4, <1>7, OutsideKeeps DEF PublishZip
<1>8. ASSUME NEW l \in Lanes, CompleteLane(p, l)
      PROVE  Inv'
    <2>1. procs' = [procs EXCEPT ![p] = [todo |-> procs[p].todo \ {l},
                                         at |-> IF procs[p].todo = {l} THEN "ok" ELSE "load"]]
        BY <1>8 DEF CompleteLane
    <2>2. /\ procs' \in [Pids -> Proc]
          /\ \A q \in Pids : /\ Alive(q)' => Alive(q)
                             /\ procs'[q] = Gone => procs[q] = Gone
        BY <1>1, <1>8, <2>1 DEF CompleteLane, Proc, Alive, Gone
    <2> QED
        BY <1>4, <1>8, <2>2, OutsideKeeps DEF CompleteLane
<1>9. CASE Dies(p)
    BY <1>3, <1>4, <1>9, OutsideKeeps DEF Dies
<1> QED
    BY <1>5, <1>6, <1>7, <1>8, <1>9 DEF ProcStep

LEMMA ZipArrivesInv ==
    ASSUME Inv, NEW l \in Lanes, ZipArrives(l)
    PROVE  Inv'
<1>1. procs \in [Pids -> Proc] /\ statuses \in [Lanes -> Statuses] /\ zips \subseteq Lanes
    BY DEF Inv, TypeOK
<1>2. procs' = procs /\ statuses' = statuses /\ zips' = zips \cup {l}
    BY DEF ZipArrives
<1> QED
    BY <1>1, <1>2, OutsideKeeps DEF ZipArrives, Alive

----------------------------------------------------------------------------
\* The pool's steps.

LEMMA ScaleInv ==
    ASSUME Inv, NEW n \in 0 .. MaxWorkers, ScaleTo(n)
    PROVE  Inv'
<1>1. PICK S \in Surplus(n) :
          /\ procs' = Terminated(S)
          /\ pending' = Requeued(S)
          /\ pendingCount' = RequeuedCount(S)
          /\ running' = running \ S
    BY DEF ScaleTo
<1>2. /\ pc = "control" /\ pc' = "launch" /\ desired' = n
      /\ UNCHANGED <<overwrite, shutdown, unpolled, closing, done, failed, statuses, zips>>
      /\ S \in SUBSET running
    BY DEF ScaleTo, Surplus
<1>3. unpolled = {} /\ closing = {}
    BY <1>2 DEF Inv, Steady
<1>4. /\ (UNION pending') = (UNION pending) \cup LanesOf(S)
      /\ pending' \subseteq Bundles
      /\ pendingCount' = Cardinality(UNION pending')
    BY <1>1, <1>2, RequeuedLanes
<1>5. /\ LanesOf(running') = LanesOf(running) \ LanesOf(S)
      /\ LanesOf(S) \subseteq LanesOf(running)
      /\ LanesOf(running) \subseteq Lanes
    BY <1>1, <1>2, LeftLanes DEF Inv
<1>6. (UNION pending') \subseteq Lanes
    BY <1>4, BundleLanes
<1>7. pendingCount' \in 0 .. Cardinality(Lanes)
    BY <1>4, <1>6, LanesFinite
<1>8. TypeOK'
    <2>1. procs' \in [Pids -> Proc]
        BY <1>1 DEF Terminated, Gone, Proc, Inv, TypeOK
    <2> QED
        BY <1>1, <1>2, <1>3, <1>4, <1>7, <2>1 DEF Inv, TypeOK
<1>9. LanesAccounted'
    <2>1. ~shutdown => ((UNION pending) \cup LanesOf(running) \cup done) = Lanes
        BY DEF Inv, LanesAccounted
    <2>2. ~shutdown' => ((UNION pending') \cup LanesOf(running') \cup done') = Lanes
        BY <1>2, <1>4, <1>5, <2>1
    <2>3. /\ (UNION pending') \cap LanesOf(running') = {}
          /\ done' \cap ((UNION pending') \cup LanesOf(running')) = {}
        BY <1>2, <1>4, <1>5 DEF Inv, LanesAccounted
    <2> QED
        BY <1>4, <2>2, <2>3 DEF LanesAccounted, LanesOf
<1>10. WorkersAccounted'
    <2>1. ASSUME NEW p \in Pids, Alive(p)'
          PROVE  \E j \in running' : j.pid = p
        <3>1. procs'[p] = procs[p] /\ ~\E j \in S : j.pid = p
            BY <1>1, <2>1 DEF Terminated, Alive, Gone
        <3>2. PICK j \in running : j.pid = p
            BY <2>1, <3>1 DEF Alive, Inv, WorkersAccounted
        <3> QED
            BY <1>1, <3>1, <3>2
    <2> QED
        BY <1>1, <1>2, <2>1 DEF Inv, WorkersAccounted
<1>11. Steady'
    <2>1. IsFiniteSet(running')
        BY <1>1, FS_Subset DEF Inv, Steady
    <2>2. ASSUME NEW j \in running'
          PROVE  procs'[j.pid] # Gone
        <3>1. j \in running /\ j.pid \in Pids /\ \A k \in S : k.pid # j.pid
            BY <1>1, <1>2, <2>2 DEF Inv, TypeOK, Job, WorkersAccounted
        <3>2. procs'[j.pid] = procs[j.pid]
            BY <1>1, <3>1 DEF Terminated
        <3> QED
            BY <3>1, <3>2 DEF Inv, Steady
    <2> QED
        BY <1>2, <1>3, <2>1, <2>2 DEF Inv, Steady
<1> QED
    BY <1>8, <1>9, <1>10, <1>11 DEF Inv

LEMMA ShutDownInv ==
    ASSUME Inv, ShutDown
    PROVE  Inv'
<1>1. /\ pc = "control" /\ pc' = "end" /\ shutdown' = TRUE /\ desired' \in 0 .. MaxWorkers
      /\ procs' = Terminated(running)
      /\ running' = {} /\ pending' = {} /\ pendingCount' = 0
      /\ UNCHANGED <<overwrite, unpolled, closing, done, failed, statuses, zips>>
    BY DEF ShutDown
<1>2. unpolled = {} /\ closing = {}
    BY <1>1 DEF Inv, Steady
<1>3. 0 \in 0 .. Cardinality(Lanes) /\ Cardinality({}) = 0
    BY LanesFinite, FS_EmptySet
<1>4. TypeOK'
    <2>1. procs' \in [Pids -> Proc]
        BY <1>1 DEF Terminated, Gone, Proc, Inv, TypeOK
    <2> QED
        BY <1>1, <1>2, <1>3, <2>1 DEF Inv, TypeOK
<1>5. LanesAccounted'
    <2>1. (UNION pending') = {} /\ LanesOf(running') = {}
        BY <1>1 DEF LanesOf
    <2> QED
        BY <1>1, <1>3, <2>1 DEF LanesAccounted, LanesOf
<1>6. WorkersAccounted'
    <2>1. \A p \in Pids : ~Alive(p)'
        BY <1>1 DEF Terminated, Alive, Gone, Inv, WorkersAccounted
    <2> QED
        BY <1>1, <2>1 DEF WorkersAccounted
<1>7. Steady'
    BY <1>1, <1>2, FS_EmptySet DEF Inv, Steady
<1> QED
    BY <1>4, <1>5, <1>6, <1>7 DEF Inv

\* What taking a bundle to launch does to the lanes.
LEMMA TakeLanes ==
    ASSUME Inv, NEW b \in pending, Take(b)
    PROVE  /\ pending' \subseteq Bundles
           /\ (UNION pending') = (UNION pending) \ b
           /\ pendingCount' = Cardinality(UNION pending')
           /\ pendingCount' \in 0 .. Cardinality(Lanes)
           /\ b \subseteq UNION pending
           /\ b \in Bundles /\ b \subseteq Lanes /\ b # {}
           /\ unpolled = {} /\ closing = {} /\ pc = "launch"
<1>1. pending \subseteq Bundles /\ b \in Bundles
    BY DEF Inv, TypeOK
<1>2. pending' = pending \ {b} /\ pendingCount' = pendingCount - Cardinality(b) /\ pc = "launch"
    BY DEF Take
<1>3. (UNION pending') = (UNION pending) \ b
    BY <1>1, <1>2, TakenLanes
<1>4. pendingCount' = Cardinality(UNION pending')
    <2>1. Cardinality(UNION (pending \ {b})) = Cardinality(UNION pending) - Cardinality(b)
        BY <1>1, TakenLanes
    <2>2. pendingCount = Cardinality(UNION pending)
        BY DEF Inv, LanesAccounted
    <2> QED
        BY <1>2, <2>1, <2>2
<1>5. pending' \subseteq Bundles
    BY <1>1, <1>2
<1>6. (UNION pending') \subseteq Lanes
    BY <1>5, BundleLanes
<1>7. pendingCount' \in 0 .. Cardinality(Lanes)
    BY <1>4, <1>6, LanesFinite
<1> QED
    BY <1>1, <1>2, <1>3, <1>4, <1>5, <1>7, BundleLanes DEF Inv, Steady

LEMMA LaunchInv ==
    ASSUME Inv, NEW b \in pending, Launch(b)
    PROVE  Inv'
<1>1. PICK p \in Pids, s \in FreeSlots :
          /\ procs[p] = Gone
          /\ running' = running \cup {[slot |-> s, bundle |-> b, pid |-> p]}
          /\ procs' = [procs EXCEPT ![p] = [todo |-> b, at |-> "load"]]
    BY DEF Launch
<1> DEFINE job == [slot |-> s, bundle |-> b, pid |-> p]
<1>2. /\ Take(b)
      /\ UNCHANGED <<overwrite, pc, desired, shutdown, unpolled, closing, done, failed, statuses, zips>>
    BY DEF Launch
<1>3. /\ pending' \subseteq Bundles
      /\ (UNION pending') = (UNION pending) \ b
      /\ pendingCount' = Cardinality(UNION pending')
      /\ pendingCount' \in 0 .. Cardinality(Lanes)
      /\ b \subseteq UNION pending
      /\ b \in Bundles /\ b \subseteq Lanes /\ b # {}
      /\ unpolled = {} /\ closing = {} /\ pc = "launch"
    BY <1>2, TakeLanes
<1>a. running' = running \cup {job} /\ job.bundle = b /\ job.slot = s /\ job.pid = p
    BY <1>1
<1>4. LanesOf(running') = LanesOf(running) \cup b
    <2> HIDE DEF job
    <2> QED
        BY <1>a DEF LanesOf
<1>5. s \in Slots /\ \A j \in running : j.slot # s
    <2>1. desired \in 0 .. MaxWorkers /\ MaxWorkers \in Nat
        BY PoolAssumption DEF Inv, TypeOK
    <2> QED
        BY <2>1 DEF FreeSlots, Slots
<1>6. \A j \in running : j.pid # p /\ j.bundle # b
    <2>1. \A j \in running : j.pid # p
        BY <1>1 DEF Inv, Steady
    <2>2. (UNION pending) \cap LanesOf(running) = {}
        BY DEF Inv, LanesAccounted
    <2>3. \A j \in running : j.bundle \subseteq LanesOf(running)
        BY DEF LanesOf
    <2> QED
        BY <1>3, <2>1, <2>2, <2>3
<1>7. TypeOK'
    <2>1. procs' \in [Pids -> Proc]
        BY <1>1, <1>3 DEF Proc, Inv, TypeOK
    <2>2. running' \subseteq Job
        BY <1>1, <1>3, <1>5 DEF Job, Inv, TypeOK
    <2> QED
        BY <1>1, <1>2, <1>3, <2>1, <2>2 DEF Inv, TypeOK
<1>8. LanesAccounted'
    <2>1. ~shutdown' => ((UNION pending') \cup LanesOf(running') \cup done') = Lanes
        BY <1>2, <1>3, <1>4 DEF Inv, LanesAccounted
    <2>2. /\ (UNION pending') \cap LanesOf(running') = {}
          /\ done' \cap ((UNION pending') \cup LanesOf(running')) = {}
        BY <1>2, <1>3, <1>4 DEF Inv, LanesAccounted
    <2> QED
        BY <1>3, <2>1, <2>2 DEF LanesAccounted, LanesOf
<1>9. WorkersAccounted'
    <2>1. ASSUME NEW q \in Pids, Alive(q)'
          PROVE  \E j \in running' : j.pid = q
        <3>1. CASE q = p
            BY <1>a, <3>1
        <3>2. CASE q # p
            <4>1. Alive(q)
                BY <1>1, <2>1, <3>2 DEF Alive
            <4> QED
                BY <1>1, <4>1 DEF Inv, WorkersAccounted
        <3> QED
            BY <3>1, <3>2
    <2>2. ASSUME NEW j \in running', NEW k \in running', j # k
          PROVE  j.slot # k.slot /\ j.pid # k.pid /\ j.bundle # k.bundle
        BY <1>1, <1>5, <1>6, <2>2 DEF Inv, WorkersAccounted
    <2> QED
        BY <1>2, <1>3, <2>1, <2>2 DEF WorkersAccounted
<1>10. Steady'
    <2>1. IsFiniteSet(running')
        BY <1>1, FS_AddElement DEF Inv, Steady
    <2>2. ASSUME NEW j \in running'
          PROVE  procs'[j.pid] # Gone
        <3>1. CASE j = job
            BY <1>1, <3>1 DEF Inv, TypeOK, Gone
        <3>2. CASE j # job
            BY <1>1, <1>6, <2>2, <3>2 DEF Inv, TypeOK, Steady, Job
        <3> QED
            BY <3>1, <3>2
    <2> QED
        BY <1>2, <1>3, <2>1, <2>2 DEF Inv, Steady
<1> QED
    BY <1>7, <1>8, <1>9, <1>10 DEF Inv

LEMMA LaunchFailsInv ==
    ASSUME Inv, NEW b \in pending, LaunchFails(b)
    PROVE  Inv'
<1>1. /\ Take(b)
      /\ done' = done \cup b /\ failed' = TRUE
      /\ UNCHANGED <<overwrite, pc, desired, shutdown, running, unpolled, closing, procs, statuses, zips>>
    BY DEF LaunchFails
<1>2. /\ pending' \subseteq Bundles
      /\ (UNION pending') = (UNION pending) \ b
      /\ pendingCount' = Cardinality(UNION pending')
      /\ pendingCount' \in 0 .. Cardinality(Lanes)
      /\ b \subseteq UNION pending
      /\ b \subseteq Lanes
      /\ unpolled = {} /\ closing = {} /\ pc = "launch"
    BY <1>1, TakeLanes
<1>3. TypeOK'
    BY <1>1, <1>2 DEF Inv, TypeOK
<1>4. LanesAccounted'
    <2>1. LanesOf(running)' = LanesOf(running)
        BY <1>1 DEF LanesOf
    <2>2. ~shutdown' => ((UNION pending') \cup LanesOf(running)' \cup done') = Lanes
        BY <1>1, <1>2, <2>1 DEF Inv, LanesAccounted
    <2>3. /\ (UNION pending') \cap LanesOf(running)' = {}
          /\ done' \cap ((UNION pending') \cup LanesOf(running)') = {}
        BY <1>1, <1>2, <2>1 DEF Inv, LanesAccounted
    <2> QED
        BY <1>2, <2>2, <2>3 DEF LanesAccounted
<1>5. WorkersAccounted' /\ Steady'
    BY <1>1, <1>2 DEF Inv, WorkersAccounted, Steady, Alive
<1> QED
    BY <1>3, <1>4, <1>5 DEF Inv

\* A job leaves running for the summaries.
LEMMA RecordedInv ==
    ASSUME Inv, NEW j \in unpolled, NEW killed, Recorded(j, killed), pc = "poll",
           UNCHANGED <<overwrite, pc, desired, shutdown, pending, pendingCount, statuses, zips>>
    PROVE  Inv'
<1>1. /\ running' = running \ {j} /\ unpolled' = unpolled \ {j} /\ closing' = {}
      /\ done' = done \cup j.bundle
      /\ procs' = [procs EXCEPT ![j.pid] = Gone]
      /\ j \in running /\ j \in Job /\ j.bundle \in Bundles /\ j.pid \in Pids
    BY DEF Recorded, Inv, TypeOK, Job
<1>2. failed' \in BOOLEAN /\ (~failed' => ~failed /\ OutputsComplete(j))
    <2>1. PICK bad \in {procs[j.pid].at # "ok"} \cup (IF killed THEN {FALSE} ELSE {}) :
              failed' = (failed \/ ~OutputsComplete(j) \/ bad)
        BY DEF Recorded
    <2> QED
        BY <2>1
<1>3. /\ LanesOf(running') = LanesOf(running) \ j.bundle
      /\ j.bundle \subseteq LanesOf(running)
      /\ LanesOf(running) \subseteq Lanes
    <2>1. LanesOf({j}) = j.bundle
        BY DEF LanesOf
    <2>2. {j} \in SUBSET running
        BY <1>1
    <2> QED
        BY <1>1, <2>1, <2>2, LeftLanes DEF Inv
<1>4. TypeOK'
    <2>1. procs' \in [Pids -> Proc]
        BY <1>1 DEF Gone, Proc, Inv, TypeOK
    <2>2. done' \subseteq Lanes
        BY <1>1, <1>3 DEF Inv, TypeOK
    <2> QED
        BY <1>1, <1>2, <2>1, <2>2 DEF Inv, TypeOK
<1>5. LanesAccounted'
    <2>1. ~shutdown' => ((UNION pending') \cup LanesOf(running') \cup done') = Lanes
        BY <1>1, <1>3 DEF Inv, LanesAccounted
    <2>2. /\ (UNION pending') \cap LanesOf(running') = {}
          /\ done' \cap ((UNION pending') \cup LanesOf(running')) = {}
        BY <1>1, <1>3 DEF Inv, LanesAccounted
    <2>3. pendingCount' = Cardinality(UNION pending')
        BY DEF Inv, LanesAccounted
    <2> QED
        BY <2>1, <2>2, <2>3 DEF LanesAccounted, LanesOf
<1>6. WorkersAccounted'
    <2>1. ASSUME NEW p \in Pids, Alive(p)'
          PROVE  \E k \in running' : k.pid = p
        <3>1. p # j.pid
            BY <1>1, <2>1 DEF Alive, Gone, Inv, TypeOK
        <3>2. Alive(p)
            BY <1>1, <2>1, <3>1 DEF Alive
        <3> QED
            BY <1>1, <3>1, <3>2 DEF Inv, WorkersAccounted
    <2> QED
        BY <1>1, <2>1 DEF Inv, WorkersAccounted
<1>7. Steady'
    <2>1. IsFiniteSet(running')
        BY <1>1, FS_RemoveElement DEF Inv, Steady
    <2>2. ASSUME NEW k \in running'
          PROVE  procs'[k.pid] # Gone
        <3>1. k \in running /\ k.pid # j.pid
            BY <1>1, <2>2 DEF Inv, WorkersAccounted
        <3> QED
            BY <1>1, <3>1 DEF Inv, Steady, TypeOK
    <2>3. ~failed' => done' \subseteq zips'
        BY <1>1, <1>2 DEF OutputsComplete, Inv, Steady
    <2> QED
        BY <1>1, <2>1, <2>2, <2>3 DEF Inv, Steady
<1> QED
    BY <1>4, <1>5, <1>6, <1>7 DEF Inv

\* Steps that move neither a lane nor a process.
LEMMA LoopKeeps ==
    ASSUME Inv,
           UNCHANGED <<overwrite, desired, shutdown, pending, pendingCount, running, done, failed,
                       procs, statuses, zips>>,
           pc' \in {"control", "poll", "end"},
           unpolled' \subseteq running, closing' \subseteq unpolled',
           pc' # "poll" => unpolled' = {} /\ closing' = {},
           pc' = "end" => pending = {} /\ running = {}
    PROVE  Inv'
<1>1. TypeOK' /\ WorkersAccounted' /\ Steady'
    BY DEF Inv, TypeOK, WorkersAccounted, Steady, Alive
<1>2. LanesAccounted'
    BY DEF Inv, LanesAccounted, LanesOf
<1> QED
    BY <1>1, <1>2 DEF Inv

LEMMA PoolStepInv ==
    ASSUME Inv, PoolStep
    PROVE  Inv'
<1>0. unpolled \subseteq running /\ closing \subseteq unpolled
    BY DEF Inv, TypeOK
<1>1. CASE LaunchesOver
    BY <1>0, <1>1, LoopKeeps DEF LaunchesOver, Inv, Steady
<1>2. CASE RoundOver
    BY <1>2, LoopKeeps DEF RoundOver
<1>3. ASSUME NEW j \in unpolled, Poll(j)
      PROVE  Inv'
    <2>1. CASE Recorded(j, FALSE)
        BY <1>3, <2>1, RecordedInv DEF Poll
    <2>2. CASE ~Recorded(j, FALSE)
        BY <1>0, <1>3, <2>2, LoopKeeps DEF Poll
    <2> QED
        BY <2>1, <2>2
<1>4. ASSUME NEW j \in closing, Close(j)
      PROVE  Inv'
    <2>1. j \in unpolled /\ pc = "poll"
        BY <1>0, <1>4 DEF Inv, Steady
    <2> QED
        BY <1>4, <2>1, RecordedInv DEF Close
<1> QED
    BY <1>1, <1>2, <1>3, <1>4, ScaleInv, ShutDownInv, LaunchInv, LaunchFailsInv DEF PoolStep

LEMMA NextInv == Inv /\ [Next]_vars => Inv'
<1> SUFFICES ASSUME Inv, [Next]_vars
             PROVE  Inv'
    OBVIOUS
<1>1. CASE UNCHANGED vars
    BY <1>1 DEF vars, poolVars, Inv, TypeOK, LanesAccounted, LanesOf, WorkersAccounted, Steady, Alive
<1> QED
    BY <1>1, PoolStepInv, ProcStepInv, ZipArrivesInv DEF Next

----------------------------------------------------------------------------
\* What the invariant gives.

LEMMA SpecInv == Spec => []Inv
<1> QED
    BY InitInv, NextInv, PTL DEF Spec

\* Type correctness: among others, pending_lane_count stays a number of lanes.
THEOREM TypeCorrect == Spec => []TypeOK
<1> QED
    BY SpecInv, PTL DEF Inv

\* No lane is lost or run twice, whatever is launched, stopped, put back or fails.
THEOREM LanesSafe == Spec => []LanesAccounted
<1> QED
    BY SpecInv, PTL DEF Inv

\* No worker outlives its job, no two share a slot or a bundle.
THEOREM WorkersSafe == Spec => []WorkersAccounted
<1> QED
    BY SpecInv, PTL DEF Inv

\* An exit with 0 stands for a ZIP of every lane.
THEOREM ExitSafe == Spec => []ExitMeansZips
<1>1. ASSUME Inv
      PROVE  ExitMeansZips
    <2> SUFFICES ASSUME pc = "end", ~shutdown, ~failed
                 PROVE  Lanes \subseteq zips
        BY DEF ExitMeansZips
    <2>1. pending = {} /\ running = {} /\ done \subseteq zips
        BY <1>1 DEF Inv, Steady, WorkersAccounted
    <2>2. ((UNION pending) \cup LanesOf(running) \cup done) = Lanes
        BY <1>1 DEF Inv, LanesAccounted
    <2>3. (UNION pending) = {} /\ LanesOf(running) = {}
        BY <2>1 DEF LanesOf
    <2> QED
        BY <2>1, <2>2, <2>3
<1> QED
    BY <1>1, SpecInv, PTL

\* A slot for each worker that may be launched: fewer jobs than wanted cannot fill the slots.
THEOREM SlotsSafe == Spec => []SlotsSuffice
<1>1. ASSUME Inv
      PROVE  SlotsSuffice
    <2> SUFFICES ASSUME Cardinality(running) < desired, FreeSlots = {}
                 PROVE  FALSE
        BY DEF SlotsSuffice
    <2> DEFINE f == [s \in 1 .. desired |-> CHOOSE j \in running : j.slot = s]
    <2>1. desired \in Nat /\ IsFiniteSet(running) /\ Cardinality(running) \in Nat
        BY <1>1, PoolAssumption, FS_CardinalityType DEF Inv, TypeOK, Steady
    <2>2. \A s \in 1 .. desired : f[s] \in running /\ f[s].slot = s
        BY DEF FreeSlots
    <2>3. f \in Injection(1 .. desired, running)
        <3>1. f \in [1 .. desired -> running]
            BY <2>2
        <3>2. \A s, t \in 1 .. desired : f[s] = f[t] => s = t
            BY <2>2
        <3> HIDE DEF f
        <3> QED
            BY <3>1, <3>2 DEF Injection, IsInjective
    <2>4. Cardinality(1 .. desired) <= Cardinality(running)
        BY <2>1, <2>3, FS_Injection
    <2>5. Cardinality(1 .. desired) = desired
        BY <2>1, FS_Interval
    <2> QED
        BY <2>1, <2>4, <2>5
<1> QED
    BY <1>1, SpecInv, PTL

\* What the pool's end means for the summaries, whether it failed or not.
EndRecordsAll == pc = "end" /\ ~shutdown => done = Lanes /\ pendingCount = 0

\* A pool that was not shut down leaves its loop (`while pending_bundles or
\* running`, run_pool_lanes) only with a summary for every lane, however often bundles were
\* stopped, put back or refused: what the end is worth that PoolEnds promises.
THEOREM EndSafe == Spec => []EndRecordsAll
<1>1. ASSUME Inv
      PROVE  EndRecordsAll
    <2> SUFFICES ASSUME pc = "end", ~shutdown
                 PROVE  done = Lanes /\ pendingCount = 0
        BY DEF EndRecordsAll
    <2>1. pending = {} /\ running = {}
        BY <1>1 DEF Inv, Steady, WorkersAccounted
    <2>2. (UNION pending) = {} /\ LanesOf(running) = {}
        BY <2>1 DEF LanesOf
    <2>3. Cardinality({}) = 0
        BY FS_EmptySet
    <2> QED
        BY <1>1, <2>2, <2>3 DEF Inv, LanesAccounted
<1> QED
    BY <1>1, SpecInv, PTL
=============================================================================
