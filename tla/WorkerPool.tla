----------------------------- MODULE WorkerPool -----------------------------
(***************************************************************************)
(* The pool of worker processes on one device                              *)
(* (tools/spinda/native_phase3_worker_pool.py): run_pool_lanes reads its   *)
(* control file, stops and launches workers, and polls them, in a loop;    *)
(* each worker is a process of src/platform/test/spinda-phase3-main.cpp    *)
(* that does the lanes of a bundle one after the other and leaves a status *)
(* file and a ZIP for each.                                                *)
(*                                                                         *)
(* The pool knows its workers only by their exit codes and by those files, *)
(* and the status files of earlier runs are still there when it starts.    *)
(***************************************************************************)
EXTENDS Integers, FiniteSets

CONSTANTS
    Lanes,         \* the lanes to run, after any skipping of those that have a ZIP
    Bundles,       \* chunk_lanes: the lanes, cut into bundles
    MaxWorkers,    \* max_workers
    Pids           \* process identifiers, used again once a process is reaped

ASSUME PoolAssumption ==
    /\ Lanes \subseteq Nat /\ IsFiniteSet(Lanes)
    /\ Bundles \subseteq (SUBSET Lanes) \ {{}} /\ (UNION Bundles) = Lanes
    /\ \A a, b \in Bundles : a # b => a \cap b = {}
    /\ MaxWorkers \in Nat \ {0}

VARIABLES
    overwrite,       \* --overwrite
    pc,              \* where the pool's loop is
    desired,         \* desired_workers
    shutdown,        \* the control file asked for a shutdown
    pending,         \* pending_bundles; the order they are taken in is left open
    pendingCount,    \* pending_lane_count
    running,         \* the RunningJobs
    unpolled,        \* those the current round has yet to poll
    closing,         \* the one the pool gives five seconds to exit
    done,            \* the lanes of the summaries in done
    failed,          \* the pool's exit code
    procs,           \* the worker processes
    statuses,        \* each lane's status file; "open" is "running", or none that can be read
    zips             \* the lanes with a final ZIP in the output folder

poolVars == <<pc, desired, shutdown, pending, pendingCount, running, unpolled, closing, done, failed>>
vars == <<overwrite, poolVars, procs, statuses, zips>>

Slots == 1 .. MaxWorkers
Job == [slot: Slots, bundle: Bundles, pid: Pids]
Proc == [todo: SUBSET Lanes, at: {"load", "work", "zip", "ok", "error", "gone"}]
Statuses == {"open", "complete", "failed"}
Gone == [todo |-> {}, at |-> "gone"]

LanesOf(jobs) == UNION {j.bundle : j \in jobs}

Alive(p) == procs[p].at \in {"load", "work", "zip"}

\* A pool that was not told to skip lanes may start with ZIPs in its folder.
Init ==
    /\ overwrite \in BOOLEAN
    /\ pc = "control"
    /\ desired \in Slots
    /\ shutdown = FALSE
    /\ pending = Bundles /\ pendingCount = Cardinality(Lanes)
    /\ running = {} /\ unpolled = {} /\ closing = {}
    /\ done = {} /\ failed = FALSE
    /\ procs = [p \in Pids |-> Gone]
    /\ statuses \in [Lanes -> Statuses]
    /\ zips \in SUBSET Lanes

----------------------------------------------------------------------------
\* The worker processes.

\* The lane process p does.
IsCurrent(p, l) == l \in procs[p].todo /\ \A m \in procs[p].todo : l <= m

Goes(p, at) == procs' = [procs EXCEPT ![p].at = at]

Fails(p) == procs' = [procs EXCEPT ![p] = [todo |-> {}, at |-> "error"]]

\* runPhase3 up to its first status.
StartLane(p, l) ==
    /\ procs[p].at = "load" /\ IsCurrent(p, l)
    /\ IF ~overwrite /\ l \in zips
       THEN Fails(p) /\ UNCHANGED statuses
       ELSE Goes(p, "work") /\ statuses' = [statuses EXCEPT ![l] = "open"]
    /\ UNCHANGED <<overwrite, poolVars, zips>>

\* Whatever fails between the first status and the ZIP ends the whole process.
FailLane(p, l) ==
    /\ procs[p].at = "work" /\ IsCurrent(p, l)
    /\ Fails(p)
    /\ statuses' = [statuses EXCEPT ![l] = "failed"]
    /\ UNCHANGED <<overwrite, poolVars, zips>>

\* writeBinaryAtomic: a ZIP that came meanwhile is only replaced with --overwrite, and else
\* leaves the status as it is.
PublishZip(p, l) ==
    /\ procs[p].at = "work" /\ IsCurrent(p, l)
    /\ IF ~overwrite /\ l \in zips
       THEN Fails(p) /\ UNCHANGED zips
       ELSE Goes(p, "zip") /\ zips' = zips \cup {l}
    /\ UNCHANGED <<overwrite, poolVars, statuses>>

\* The status "complete"; main goes on with the next lane.
CompleteLane(p, l) ==
    /\ procs[p].at = "zip" /\ IsCurrent(p, l)
    /\ procs' = [procs EXCEPT ![p] = [todo |-> @.todo \ {l},
                                      at |-> IF @.todo = {l} THEN "ok" ELSE "load"]]
    /\ statuses' = [statuses EXCEPT ![l] = "complete"]
    /\ UNCHANGED <<overwrite, poolVars, zips>>

\* A process dies, or ends before it can write a status.
Dies(p) ==
    /\ Alive(p)
    /\ Fails(p)
    /\ UNCHANGED <<overwrite, poolVars, statuses, zips>>

\* Another device's ZIP is copied into the folder.
ZipArrives(l) ==
    /\ l \notin zips
    /\ zips' = zips \cup {l}
    /\ UNCHANGED <<overwrite, poolVars, procs, statuses>>

----------------------------------------------------------------------------
\* run_pool_lanes: the control file.

\* Mutant of Terminated: the processes go on.
LeftRunning(jobs) == procs

\* terminate_worker for each of some jobs: whether it still ran or not, it is gone.
Terminated(jobs) == [p \in Pids |-> IF \E j \in jobs : j.pid = p THEN Gone ELSE procs[p]]

\* The jobs scale_down_running_workers stops to get down to n: those in the highest slots.
Surplus(n) ==
    {S \in SUBSET running :
        /\ Cardinality(running \ S) = IF Cardinality(running) <= n THEN Cardinality(running) ELSE n
        /\ \A j \in S, k \in running \ S : j.slot > k.slot}

\* Mutant of Requeued: the stopped lanes are not put back.
Forgotten(jobs) == pending

Requeued(jobs) == pending \cup {j.bundle : j \in jobs}

\* Mutant of RequeuedCount: the counter is not raised.
CountKept(jobs) == pendingCount

RequeuedCount(jobs) == pendingCount + Cardinality(LanesOf(jobs))

ScaleTo(n) ==
    /\ pc = "control"
    /\ desired' = n
    /\ \E S \in Surplus(n) :
           /\ procs' = Terminated(S)
           /\ pending' = Requeued(S)
           /\ pendingCount' = RequeuedCount(S)
           /\ running' = running \ S
    /\ pc' = "launch"
    /\ UNCHANGED <<overwrite, shutdown, unpolled, closing, done, failed, statuses, zips>>

ShutDown ==
    /\ pc = "control"
    /\ shutdown' = TRUE
    /\ desired' \in 0 .. MaxWorkers
    /\ procs' = Terminated(running)
    /\ running' = {} /\ pending' = {} /\ pendingCount' = 0
    /\ pc' = "end"
    /\ UNCHANGED <<overwrite, unpolled, closing, done, failed, statuses, zips>>

----------------------------------------------------------------------------
\* run_pool_lanes: launching.

FreeSlots == {s \in 1 .. desired : \A j \in running : j.slot # s}

CanLaunch == pending # {} /\ Cardinality(running) < desired /\ FreeSlots # {}

Take(b) ==
    /\ pc = "launch" /\ CanLaunch
    /\ b \in pending
    /\ pending' = pending \ {b}
    /\ pendingCount' = pendingCount - Cardinality(b)

Launch(b) ==
    /\ Take(b)
    /\ overwrite \/ b \cap zips = {}
    /\ \E p \in Pids, s \in FreeSlots :
           /\ \A t \in FreeSlots : s <= t
           /\ procs[p] = Gone
           /\ running' = running \cup {[slot |-> s, bundle |-> b, pid |-> p]}
           /\ procs' = [procs EXCEPT ![p] = [todo |-> b, at |-> "load"]]
    /\ UNCHANGED <<overwrite, pc, desired, shutdown, unpolled, closing, done, failed, statuses, zips>>

\* build_job raises: an input is missing, or a lane of the bundle has a ZIP and there is no
\* --overwrite.  All lanes of the bundle are recorded as failed.
LaunchFails(b) ==
    /\ Take(b)
    /\ done' = done \cup b
    /\ failed' = TRUE
    /\ UNCHANGED <<overwrite, pc, desired, shutdown, running, unpolled, closing, procs, statuses, zips>>

LaunchesOver ==
    /\ pc = "launch" /\ ~CanLaunch
    /\ pc' = "poll"
    /\ unpolled' = running
    /\ UNCHANGED <<overwrite, desired, shutdown, pending, pendingCount, running, closing, done, failed,
                   procs, statuses, zips>>

----------------------------------------------------------------------------
\* run_pool_lanes: polling.

\* job_terminal_status
Terminal(j) == \A l \in j.bundle : statuses[l] \in {"complete", "failed"}

\* Mutant of OutputsComplete: it trusts the status files.
OutputsCompleteByStatus(j) == \A l \in j.bundle : statuses[l] = "complete"

\* job_outputs_complete
OutputsComplete(j) == \A l \in j.bundle : statuses[l] = "complete" /\ l \in zips

\* Mutant of Ended: only what the status files say counts.
EndedByStatus(j) == Terminal(j)

Ended(j) == Terminal(j) \/ ~Alive(j.pid)

\* The summary of a job, whose process may have been terminated just before: then the pool
\* may not know its exit code yet.
Recorded(j, killed) ==
    /\ running' = running \ {j}
    /\ unpolled' = unpolled \ {j}
    /\ closing' = {}
    /\ done' = done \cup j.bundle
    /\ \E bad \in {procs[j.pid].at # "ok"} \cup (IF killed THEN {FALSE} ELSE {}) :
           failed' = (failed \/ ~OutputsComplete(j) \/ bad)
    /\ procs' = [procs EXCEPT ![j.pid] = Gone]

\* The process of a job that is over may not have exited yet.
Poll(j) ==
    /\ pc = "poll" /\ closing = {}
    /\ j \in unpolled
    /\ \/ /\ Ended(j) /\ ~Alive(j.pid)
          /\ Recorded(j, FALSE)
       \/ /\ Ended(j) /\ Alive(j.pid)
          /\ closing' = {j}
          /\ UNCHANGED <<running, unpolled, done, failed, procs>>
       \/ /\ ~Ended(j)
          /\ unpolled' = unpolled \ {j}
          /\ UNCHANGED <<running, closing, done, failed, procs>>
    /\ UNCHANGED <<overwrite, pc, desired, shutdown, pending, pendingCount, statuses, zips>>

\* It exits in time, or is terminated.
Close(j) ==
    /\ j \in closing
    /\ Recorded(j, Alive(j.pid))
    /\ UNCHANGED <<overwrite, pc, desired, shutdown, pending, pendingCount, statuses, zips>>

RoundOver ==
    /\ pc = "poll" /\ closing = {} /\ unpolled = {}
    /\ pc' = IF pending = {} /\ running = {} THEN "end" ELSE "control"
    /\ UNCHANGED <<overwrite, desired, shutdown, pending, pendingCount, running, unpolled, closing,
                   done, failed, procs, statuses, zips>>

----------------------------------------------------------------------------
PoolStep ==
    \/ \E n \in 0 .. MaxWorkers : ScaleTo(n)
    \/ ShutDown
    \/ \E b \in pending : Launch(b) \/ LaunchFails(b)
    \/ LaunchesOver
    \/ \E j \in unpolled : Poll(j)
    \/ \E j \in closing : Close(j)
    \/ RoundOver

ProcStep(p) ==
    \/ \E l \in Lanes : StartLane(p, l) \/ FailLane(p, l) \/ PublishZip(p, l) \/ CompleteLane(p, l)
    \/ Dies(p)

Next == PoolStep \/ (\E p \in Pids : ProcStep(p)) \/ (\E l \in Lanes : ZipArrives(l))

Spec == Init /\ [][Next]_vars

\* The pool's loop and its processes run; nobody has to write the control file.
FairSpec == Spec /\ WF_vars(PoolStep) /\ \A p \in Pids : WF_vars(ProcStep(p))

----------------------------------------------------------------------------
TypeOK ==
    /\ overwrite \in BOOLEAN
    /\ pc \in {"control", "launch", "poll", "end"}
    /\ desired \in 0 .. MaxWorkers
    /\ shutdown \in BOOLEAN
    /\ pending \subseteq Bundles /\ pendingCount \in 0 .. Cardinality(Lanes)
    /\ running \subseteq Job /\ unpolled \subseteq running /\ closing \subseteq unpolled
    /\ done \subseteq Lanes /\ failed \in BOOLEAN
    /\ procs \in [Pids -> Proc]
    /\ statuses \in [Lanes -> Statuses]
    /\ zips \subseteq Lanes

\* No lane is lost or done twice through launches, stops and requeues: until a shutdown each is
\* pending, running or recorded, in exactly one of them, and the counter is right.
LanesAccounted ==
    /\ ~shutdown => (UNION pending) \cup LanesOf(running) \cup done = Lanes
    /\ (UNION pending) \cap LanesOf(running) = {}
    /\ done \cap ((UNION pending) \cup LanesOf(running)) = {}
    /\ pendingCount = Cardinality(UNION pending)

\* No worker escapes the pool: each live process is that of one running job, which has its slot
\* and its bundle to itself; when the pool has ended, by itself or shut down, none is left.
\* A process that outlasts even the kill of terminate_worker is left out.
WorkersAccounted ==
    /\ \A p \in Pids : Alive(p) => \E j \in running : j.pid = p
    /\ \A j, k \in running : j # k => j.slot # k.slot /\ j.pid # k.pid /\ j.bundle # k.bundle
    /\ pc = "end" => running = {}

\* The launch loop never breaks off for want of a slot, whatever slots are left after the pool
\* was scaled down and up.
SlotsSuffice == pc = "launch" /\ Cardinality(running) < desired => FreeSlots # {}

\* A pool that exits with 0 left a ZIP for every lane, whatever the status files of earlier runs
\* said, and whoever was stopped on the way.
ExitMeansZips == pc = "end" /\ ~shutdown /\ ~failed => Lanes \subseteq zips

\* The pool ends, however often it is scaled, unless it is left without workers again and again.
PoolEnds == <>[](desired > 0) => <>(pc = "end")
=============================================================================
