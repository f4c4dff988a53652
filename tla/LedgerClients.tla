---------------------------- MODULE LedgerClients ----------------------------
(***************************************************************************)
(* The devices that work for a ledger: on each a worker client             *)
(* (tools/spinda/phase3_ledger_worker_client.py) that claims a batch of    *)
(* lanes, runs a pool of workers on it and reports, and a command center   *)
(* whose heartbeats tell the coordinator what the device is doing.         *)
(*                                                                         *)
(* A call of a client is answered, or times out: then the coordinator may  *)
(* still carry it out at any later time, or never.  A heartbeat of a       *)
(* command center is built from files of that moment and imported later.   *)
(* Clients, pools and whole machines stop at any time and may come back; a *)
(* pool may outlive its client.  The coordinator may at any time fail to   *)
(* read its file, which it then takes for an empty one.  The clients run   *)
(* without --once.                                                         *)
(***************************************************************************)
EXTENDS Ledger

CONSTANTS
    MaxUnderWay,   \* bound: heartbeats and timed-out calls under way
    Outlived       \* bound: the devices whose pools may outlive their clients

ASSUME ClientsAssumption == MaxUnderWay \in Nat /\ Outlived \subseteq Devices

VARIABLES
    clients,     \* the worker client of each device
    pools,       \* its worker pool: lanes queued, and lanes its status file lists as running
    orphans,     \* the lanes that pools which outlived their client still have to do
    sidecars,    \* the client's status file: its active lanes, and whether it is fresh
    panels,      \* the devices whose command center runs
    beats,       \* heartbeats of command centers under way
    late,        \* calls that timed out at their client and may still be carried out
    forfeited    \* history: lanes a client lost the lease of while it works on them

vars == <<records, zips, clients, pools, orphans, sidecars, panels, beats, late, forfeited>>

Client == [pc: {"off", "claim", "won", "run", "report"},
           batch: SUBSET Lanes,       \* the lanes claimed
           job: SUBSET Lanes,         \* run_lanes: those without a ZIP when it began
           reported: SUBSET Lanes,    \* reported_lanes
           todo: SUBSET Lanes]        \* what report_results has yet to report

Pool == [queue: SUBSET Lanes, busy: SUBSET Lanes]
Sidecar == [lanes: SUBSET Lanes, fresh: BOOLEAN]
Beat == [device: Devices, done: SUBSET Lanes, active: SUBSET Lanes]
Call == [op: {"claim"}, device: Devices] \cup [op: {"finish", "fail"}, device: Devices, lane: Lanes]

IdleClient(pc) == [pc |-> pc, batch |-> {}, job |-> {}, reported |-> {}, todo |-> {}]
FreshSidecar(lanes) == [lanes |-> lanes, fresh |-> TRUE]

\* The lanes the pool of a live client still has to do.
Own(d) == IF clients[d].pc = "run" THEN pools[d].queue \cup pools[d].busy ELSE {}

\* The lanes the pools of a device still have to do.
Working(d) == Own(d) \cup orphans[d]

\* The lanes a device works on whose lease the step ends.  A lane a step gave straight to
\* another device would not be among them.
Forfeit ==
    forfeited' = [d \in Devices |->
        forfeited[d] \cup {l \in Working(d) : Holder[l] = d /\ Holder'[l] = Nobody}]

\* A lane that is no longer worked on is not lost any more.
WorksOn(d, left) == forfeited' = [forfeited EXCEPT ![d] = @ \cap left]

Init ==
    /\ records = NoRecords
    /\ zips = [d \in Devices |-> {}]
    /\ clients = [d \in Devices |-> IdleClient("claim")]
    /\ pools = [d \in Devices |-> [queue |-> {}, busy |-> {}]]
    /\ orphans = [d \in Devices |-> {}]
    /\ sidecars = [d \in Devices |-> FreshSidecar({})]
    /\ panels = Devices
    /\ beats = {} /\ late = {}
    /\ forfeited = [d \in Devices |-> {}]

----------------------------------------------------------------------------
\* A client's calls.

RoomForOne == Cardinality(late) + Cardinality(beats) < MaxUnderWay

TimeOut(call) ==
    /\ RoomForOne
    /\ late' = late \cup {call}

\* claim_lanes, answered.  No lane leaves it where it was, to ask again later.
Claim(d) ==
    /\ clients[d].pc = "claim"
    /\ records' = AfterClaim(d)
    /\ clients' = IF Granted = {} THEN clients
                  ELSE [clients EXCEPT ![d].pc = "won", ![d].batch = Granted]
    /\ sidecars' = IF Granted = {} THEN [sidecars EXCEPT ![d] = FreshSidecar({})] ELSE sidecars
    /\ Forfeit
    /\ UNCHANGED <<zips, pools, orphans, panels, beats, late>>

ClaimTimesOut(d) ==
    /\ clients[d].pc = "claim"
    /\ TimeOut([op |-> "claim", device |-> d])
    /\ sidecars' = [sidecars EXCEPT ![d] = FreshSidecar({})]
    /\ UNCHANGED <<records, zips, clients, pools, orphans, panels, beats, forfeited>>

\* main, from the answer to the start of the pool; without a lane to run it goes on to
\* report.  The pool writes its status file anew.
Begin(d) ==
    LET job == clients[d].batch \ zips[d] IN
    /\ clients[d].pc = "won"
    /\ IF job = {}
       THEN /\ clients' = [clients EXCEPT ![d].pc = "report", ![d].todo = clients[d].batch]
            /\ sidecars' = [sidecars EXCEPT ![d] = FreshSidecar(clients[d].batch)]
            /\ UNCHANGED <<pools, forfeited>>
       ELSE /\ clients' = [clients EXCEPT ![d].pc = "run", ![d].job = job]
            /\ sidecars' = [sidecars EXCEPT ![d] = FreshSidecar(job)]
            /\ pools' = [pools EXCEPT ![d] = [queue |-> job, busy |-> {}]]
            /\ forfeited' = [forfeited EXCEPT ![d] = @ \cup {l \in job : Holder[l] # d}]
    /\ UNCHANGED <<records, zips, orphans, panels, beats, late>>

\* heartbeat, of run_claimed_batch.  One that times out changes nothing at the client.
Heartbeat(d) ==
    /\ clients[d].pc = "run"
    /\ records' = AfterHeartbeat(d, clients[d].job)
    /\ UNCHANGED <<zips, clients, pools, orphans, sidecars, panels, beats, late, forfeited>>

\* report_available_results, for one lane: a rejected call is printed and forgotten.
ReportEarly(d, l) ==
    /\ clients[d].pc = "run"
    /\ l \in clients[d].batch \cap zips[d] /\ l \notin clients[d].reported
    /\ \/ /\ FinishAccepted(d, l)
          /\ records' = AfterFinish(d, l)
          /\ clients' = [clients EXCEPT ![d].reported = @ \cup {l}]
          /\ sidecars' = [sidecars EXCEPT ![d] = FreshSidecar(clients[d].job)]
          /\ UNCHANGED late
       \/ /\ TimeOut([op |-> "finish", device |-> d, lane |-> l])
          /\ UNCHANGED <<records, clients, sidecars>>
    /\ Forfeit
    /\ UNCHANGED <<zips, pools, orphans, panels, beats>>

\* Mutant of ReportOp: every lane of the batch is reported finished.
ReportFinished(d, l) == "finish"

\* report_one_result: what a client reports of a lane, by the ZIP in its own folder.
ReportOp(d, l) == IF l \in zips[d] THEN "finish" ELSE "fail"

Accepted(d, l) == IF ReportOp(d, l) = "finish" THEN FinishAccepted(d, l) ELSE FailAccepted(d, l)
AfterReport(d, l) == IF ReportOp(d, l) = "finish" THEN AfterFinish(d, l) ELSE AfterFail(d, l)

\* report_results_until_success: one lane after the other, from the first again after a
\* call that was rejected or timed out, and back to claiming after the last.
ReportLane(d, l) ==
    /\ clients[d].pc = "report"
    /\ l \in clients[d].todo /\ \A m \in clients[d].todo : l <= m
    /\ \/ /\ Accepted(d, l)
          /\ records' = AfterReport(d, l)
          /\ IF clients[d].todo = {l}
             THEN /\ clients' = [clients EXCEPT ![d] = IdleClient("claim")]
                  /\ sidecars' = [sidecars EXCEPT ![d] = FreshSidecar({})]
             ELSE /\ clients' = [clients EXCEPT ![d].todo = @ \ {l}]
                  /\ UNCHANGED sidecars
          /\ UNCHANGED late
       \/ /\ \/ ~Accepted(d, l) /\ UNCHANGED late
             \/ TimeOut([op |-> ReportOp(d, l), device |-> d, lane |-> l])
          /\ clients' = [clients EXCEPT ![d].todo = clients[d].batch]
          /\ sidecars' = [sidecars EXCEPT ![d] = FreshSidecar(clients[d].batch)]
          /\ UNCHANGED records
    /\ Forfeit
    /\ UNCHANGED <<zips, pools, orphans, panels, beats>>

----------------------------------------------------------------------------
\* A device's pool, its files and its faults.

Workers == 1    \* bound: lanes a pool runs at a time

\* run_pool_lanes as its client sees it: a lane is started, then leaves a ZIP or none.
PoolStarts(d, l) ==
    /\ clients[d].pc = "run"
    /\ l \in pools[d].queue /\ Cardinality(pools[d].busy) < Workers
    /\ pools' = [pools EXCEPT ![d] = [queue |-> @.queue \ {l}, busy |-> @.busy \cup {l}]]
    /\ UNCHANGED <<records, zips, clients, orphans, sidecars, panels, beats, late, forfeited>>

PoolEndsLane(d, l) ==
    /\ clients[d].pc = "run"
    /\ l \in pools[d].busy
    /\ pools' = [pools EXCEPT ![d].busy = @ \ {l}]
    /\ zips' \in {zips, [zips EXCEPT ![d] = @ \cup {l}]}
    /\ WorksOn(d, pools[d].queue \cup (pools[d].busy \ {l}) \cup orphans[d])
    /\ UNCHANGED <<records, clients, orphans, sidecars, panels, beats, late>>

\* The pool exits: with its lanes done, on a shutdown, or because it dies, and then its
\* status file still lists the lanes it ran.
PoolExits(d) ==
    /\ clients[d].pc = "run"
    /\ \E left \in {{}, pools[d].busy} :
           pools' = [pools EXCEPT ![d] = [queue |-> {}, busy |-> left]]
    /\ clients' = [clients EXCEPT ![d].pc = "report", ![d].todo = clients[d].batch]
    /\ WorksOn(d, orphans[d])
    /\ UNCHANGED <<records, zips, orphans, sidecars, panels, beats, late>>

\* The client dies, alone, with its pool or with the whole machine; the files stay.  A
\* pool that outlives its client, being a process of its own, goes on with its lanes.
Crash(d) ==
    /\ clients[d].pc # "off"
    /\ clients' = [clients EXCEPT ![d] = IdleClient("off")]
    /\ pools' = [pools EXCEPT ![d].queue = {}]
    /\ \E left \in {{}} \cup {Own(e) \cup orphans[e] : e \in Outlived \cap {d}} :
           /\ orphans' = [orphans EXCEPT ![d] = left]
           /\ panels' = panels \/ (left = {} /\ panels' = panels \ {d})
           /\ WorksOn(d, left)
    /\ UNCHANGED <<records, zips, sidecars, beats, late>>

\* What the status file of a device's pools may list as running: all of them write it.
Listed(d) == {pools[d].busy} \cup {lanes \in SUBSET orphans[d] : Cardinality(lanes) <= Workers}

\* Such a pool ends a lane, with a ZIP or without.
OrphanEndsLane(d, l) ==
    /\ l \in orphans[d]
    /\ orphans' = [orphans EXCEPT ![d] = @ \ {l}]
    /\ pools' = [pools EXCEPT ![d].busy = IF clients[d].pc = "run" THEN @ ELSE @ \ {l}]
    /\ zips' \in {zips, [zips EXCEPT ![d] = @ \cup {l}]}
    /\ WorksOn(d, Own(d) \cup (orphans[d] \ {l}))
    /\ UNCHANGED <<records, clients, sidecars, panels, beats, late>>

\* Such pools are stopped or die.
OrphansDie(d) ==
    /\ orphans[d] # {}
    /\ orphans' = [orphans EXCEPT ![d] = {}]
    /\ \E listed \in Listed(d) :
           pools' = [pools EXCEPT ![d].busy = IF clients[d].pc = "run" THEN @ ELSE listed]
    /\ WorksOn(d, Own(d))
    /\ UNCHANGED <<records, zips, clients, sidecars, panels, beats, late>>

Restart(d) ==
    /\ clients[d].pc = "off"
    /\ clients' = [clients EXCEPT ![d].pc = "claim"]
    /\ sidecars' = [sidecars EXCEPT ![d] = FreshSidecar({})]
    /\ panels' = panels \cup {d}
    /\ UNCHANGED <<records, zips, pools, orphans, beats, late, forfeited>>

\* The client's status file is not written for DEFAULT_LEDGER_CLIENT_STALE_SECONDS: a
\* client that claims or reports writes it each time, one that waits for its pool does not.
SidecarAges(d) ==
    /\ clients[d].pc \in {"run", "off"} /\ sidecars[d].fresh
    /\ sidecars' = [sidecars EXCEPT ![d].fresh = FALSE]
    /\ UNCHANGED <<records, zips, clients, pools, orphans, panels, beats, late, forfeited>>

\* A finished ZIP is copied to the coordinator's folder.
Consolidate(d, l) ==
    /\ l \in zips[d] \ zips[Local]
    /\ zips' = [zips EXCEPT ![Local] = @ \cup {l}]
    /\ UNCHANGED <<records, clients, pools, orphans, sidecars, panels, beats, late, forfeited>>

----------------------------------------------------------------------------
\* The coordinator.

\* send_once of a subordinate's command center; for the coordinator's own device, the
\* status files live_payload reads before it releases what they no longer list.  The
\* ledger of a subordinate, sent as well, adds nothing: it takes no claims, and its lanes
\* done are ZIPs of its own folder.
BuildBeat(d) ==
    /\ d \in panels
    /\ RoomForOne
    /\ \E listed \in Listed(d) :
           beats' = beats \cup
               {[device |-> d, done |-> zips[d],
                 active |-> listed \cup IF sidecars[d].fresh THEN sidecars[d].lanes ELSE {}]}
    /\ UNCHANGED <<records, zips, clients, pools, orphans, sidecars, panels, late, forfeited>>

\* The releases of live_payload for the coordinator's own device, taken together: with the
\* client's file too old it keeps the lanes the pools run, and with none all are released.
\* Whose worker a claim is for is left out, so that it releases more than the code does.
LocalSync(active) == AfterReleaseInactive(Local, active, FALSE)

\* api_coordination_heartbeat.
HandleBeat(m) ==
    /\ records' = IF m.device = Local THEN LocalSync(m.active)
                  ELSE AfterImport(m.device, m.done, m.active)
    /\ beats' = beats \ {m}
    /\ Forfeit
    /\ UNCHANGED <<zips, clients, pools, orphans, sidecars, panels, late>>

LoseBeat(m) ==
    /\ beats' = beats \ {m}
    /\ UNCHANGED <<records, zips, clients, pools, orphans, sidecars, panels, late, forfeited>>

\* live_payload: no heartbeat of a subordinate came for the freshness window.
StaleSubordinate(d) ==
    /\ d # Local
    /\ records' = AfterReleaseInactive(d, {}, TRUE)
    /\ Forfeit
    /\ UNCHANGED <<zips, clients, pools, orphans, sidecars, panels, beats, late>>

\* A call its client no longer waits for is carried out, or was lost on the way.
HandleLate(c) ==
    /\ records' = CASE c.op = "claim" -> AfterClaim(c.device)
                    [] c.op = "finish" -> IF FinishAccepted(c.device, c.lane)
                                          THEN AfterFinish(c.device, c.lane) ELSE records
                    [] c.op = "fail" -> IF FailAccepted(c.device, c.lane)
                                        THEN AfterFail(c.device, c.lane) ELSE records
    /\ late' = late \ {c}
    /\ Forfeit
    /\ UNCHANGED <<zips, clients, pools, orphans, sidecars, panels, beats>>

LoseLate(c) ==
    /\ late' = late \ {c}
    /\ UNCHANGED <<records, zips, clients, pools, orphans, sidecars, panels, beats, forfeited>>

Reconcile ==
    /\ records' = AfterReconcile
    /\ Forfeit
    /\ UNCHANGED <<zips, clients, pools, orphans, sidecars, panels, beats, late>>

\* _read_unlocked cannot read the file, and the next write replaces it.
Unreadable ==
    /\ records' = NoRecords
    /\ Forfeit
    /\ UNCHANGED <<zips, clients, pools, orphans, sidecars, panels, beats, late>>

Tick ==
    /\ records' = AfterTick
    /\ Forfeit
    /\ UNCHANGED <<zips, clients, pools, orphans, sidecars, panels, beats, late>>

----------------------------------------------------------------------------
ClientStep(d) ==
    \/ Claim(d) \/ ClaimTimesOut(d) \/ Begin(d) \/ Heartbeat(d)
    \/ \E l \in Lanes : ReportEarly(d, l) \/ ReportLane(d, l)

DeviceStep(d) ==
    \/ \E l \in Lanes :
         PoolStarts(d, l) \/ PoolEndsLane(d, l) \/ OrphanEndsLane(d, l) \/ Consolidate(d, l)
    \/ PoolExits(d) \/ Crash(d) \/ OrphansDie(d) \/ Restart(d) \/ SidecarAges(d)

CoordinatorStep ==
    \/ \E d \in Devices : BuildBeat(d) \/ StaleSubordinate(d)
    \/ \E m \in beats : HandleBeat(m) \/ LoseBeat(m)
    \/ \E c \in late : HandleLate(c) \/ LoseLate(c)
    \/ Reconcile \/ Unreadable \/ Tick

Next == (\E d \in Devices : ClientStep(d) \/ DeviceStep(d)) \/ CoordinatorStep

Spec == Init /\ [][Next]_vars

\* Time passes, files age, and what is under way arrives or is lost.
FairSpec ==
    /\ Spec
    /\ WF_vars(Tick)
    /\ WF_vars(\E m \in beats : HandleBeat(m) \/ LoseBeat(m))
    /\ WF_vars(\E c \in late : HandleLate(c) \/ LoseLate(c))
    /\ \A d \in Devices : WF_vars(SidecarAges(d) /\ clients[d].pc = "off")

----------------------------------------------------------------------------
TypeOK ==
    /\ records \in [Lanes -> Record]
    /\ zips \in [Devices -> SUBSET Lanes]
    /\ clients \in [Devices -> Client]
    /\ pools \in [Devices -> Pool]
    /\ orphans \in [Devices -> SUBSET Lanes]
    /\ sidecars \in [Devices -> Sidecar]
    /\ panels \subseteq Devices
    /\ beats \subseteq Beat
    /\ late \subseteq Call
    /\ forfeited \in [Devices -> SUBSET Lanes]

\* The ledger is a lock on lanes: through claims, imports, releases, late calls and expiry, a
\* lane's lease never passes from one device straight to another.
Leases == INSTANCE LaneLease WITH owner <- Holder
LeasesAreLocks == Leases!Spec

\* A lane is recorded done only if its final ZIP exists in some device's folder, whatever calls
\* and heartbeats were late.
DoneHasZip == \A l \in Lanes : records[l].status = "done" => \E d \in Devices : l \in zips[d]

\* Two devices work on the same lane, by a pool that outlived its client or not, only after
\* the lease of one of them ended while it worked on it: by time, a heartbeat or a call carried
\* out late, a ZIP that came from elsewhere, or a file that could not be read.  No claim, import
\* or report takes a lane from under a worker.
SharedOnlyIfForfeited ==
    \A d, e \in Devices : \A l \in Working(d) \cap Working(e) :
        d = e \/ l \in forfeited[d] \cup forfeited[e]

\* A machine that stays off ends up holding no lane, whatever of it was still under way.
DeadHoldNothing ==
    \A d \in Devices :
        <>[](clients[d].pc = "off" /\ d \notin panels) => <>[](LanesOf(d) = {})

\* As the class says: a crashed subordinate does not permanently own a lane.  Here a client
\* and its pools stay down while its command center stays up.
CrashedOwnNothing ==
    \A d \in Devices :
        <>[](clients[d].pc = "off" /\ orphans[d] = {}) => []<>(LanesOf(d) = {})
=============================================================================
