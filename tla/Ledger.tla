------------------------------- MODULE Ledger -------------------------------
(***************************************************************************)
(* The coordinator's lane ledger (Phase3LaneLedger of                      *)
(* tools/spinda/phase3_command_center_web.py): for each lane of the run    *)
(* who works on it, under a lease, and which lanes are done.               *)
(*                                                                         *)
(* Every method holds the ledger's lock from reading the file to replacing *)
(* it, so each is one step: here an operator that gives the records the    *)
(* method writes.  A lease is the time it has left.  The statuses "claimed" *)
(* and "running", which every method tests together, are "active"; no      *)
(* caller in the repository writes "quarantined" or "verified".            *)
(***************************************************************************)
EXTENDS Integers, FiniteSets

CONSTANTS
    Lanes,        \* the lanes of the run
    Devices,      \* the devices that work on it
    Local,        \* the device the coordinator runs on
    Nobody,       \* no device_id in a record
    Folder,       \* the device_id "folder-reconcile"
    BatchSize,    \* lanes a client asks for in one claim
    Lease,        \* lease of a claim or a heartbeat
    BeatLease     \* lease of a command center's heartbeat

ASSUME LedgerAssumption ==
    /\ Lanes \subseteq Nat /\ IsFiniteSet(Lanes)
    /\ Local \in Devices /\ Nobody \notin Devices /\ Folder \notin Devices /\ Nobody # Folder
    /\ BatchSize \in Nat \ {0} /\ Lease \in Nat \ {0} /\ BeatLease \in Nat \ {0}

VARIABLES
    records,    \* the records of the ledger's file
    zips        \* the final ZIPs in each device's output folder

Statuses == {"pending", "active", "released", "failed", "done"}

Longer(a, b) == IF a > b THEN a ELSE b

Record == [status: Statuses,
           device: Devices \cup {Nobody, Folder},
           lease: 0 .. Longer(Lease, BeatLease),  \* lease_until_unix - now, 0 when past
           beat: BOOLEAN]                        \* active, its source "remote-active-heartbeat"

NoRecord == [status |-> "pending", device |-> Nobody, lease |-> 0, beat |-> FALSE]
NoRecords == [l \in Lanes |-> NoRecord]

\* Mutant of Leased: a claim is for good.
LeasedForGood(r) == r.status = "active"

Leased(r) == r.status = "active" /\ r.lease > 0

\* Leased to another device than d, as import_remote_status tests it.
Conflict(d, r) == Leased(r) /\ r.device # d

\* The holder of each lane, for the abstract specification.
Holder == [l \in Lanes |-> IF Leased(records[l]) THEN records[l].device ELSE Nobody]

LanesOf(d) == {l \in Lanes : Holder[l] = d}

----------------------------------------------------------------------------
\* _mark_done_from_zip_unlocked: a record whose lane has a ZIP in the coordinator's folder.
MarkDone(r) ==
    IF r.status = "done" THEN r
    ELSE [r EXCEPT !.status = "done", !.beat = FALSE,
                   !.device = IF @ = Nobody THEN Folder ELSE @]

\* Mutant of Claimable: a claim that does not look at the lease.
ClaimableIfNotDone(l) == l \notin zips[Local] /\ records[l].status # "done"

Claimable(l) ==
    /\ l \notin zips[Local]
    /\ records[l].status # "done"
    /\ ~Leased(records[l])

\* The lanes a claim looks at before it has its count, and those it grants.
Scanned == {l \in Lanes : Cardinality({m \in Lanes : m < l /\ Claimable(m)}) < BatchSize}
Granted == {l \in Scanned : Claimable(l)}

ClaimRecord(d) == [status |-> "active", device |-> d, lease |-> Lease, beat |-> FALSE]

AfterClaim(d) ==
    [l \in Lanes |-> IF l \in Granted THEN ClaimRecord(d)
                     ELSE IF l \in Scanned \cap zips[Local] THEN MarkDone(records[l])
                     ELSE records[l]]

AfterHeartbeat(d, S) ==
    [l \in Lanes |-> IF l \in S /\ records[l].device = d /\ records[l].status = "active"
                     THEN [records[l] EXCEPT !.lease = Lease]
                     ELSE records[l]]

FinishAccepted(d, l) == records[l].device \in {Nobody, d, Folder}

AfterFinish(d, l) == [records EXCEPT ![l].status = "done", ![l].device = d, ![l].beat = FALSE]

FailAccepted(d, l) == records[l].device \in {Nobody, d}

AfterFail(d, l) == [records EXCEPT ![l].status = "failed", ![l].device = d, ![l].beat = FALSE]

\* An active record of a device that no longer reports its lane.
Dropped(l) ==
    IF l \in zips[Local] THEN MarkDone(records[l])
    ELSE [records[l] EXCEPT !.status = "released", !.beat = FALSE]

\* release_inactive_claims of device d for a set of lanes still reported; with onlyBeats
\* it touches only the records heartbeats of command centers made.
AfterReleaseInactive(d, keep, onlyBeats) ==
    [l \in Lanes |->
        IF /\ records[l].device = d /\ records[l].status = "active"
           /\ l \notin keep
           /\ onlyBeats => records[l].beat
        THEN Dropped(l) ELSE records[l]]

AfterReconcile == [l \in Lanes |-> IF l \in zips[Local] THEN MarkDone(records[l]) ELSE records[l]]

----------------------------------------------------------------------------
\* import_remote_status with sync_active_claims: the lanes a device's command center
\* reports done and active.

ImportDone(d, l) ==
    LET r == records[l] IN
    IF l \in zips[Local] THEN MarkDone(r)
    ELSE IF r.status = "done" \/ Conflict(d, r) THEN r
    ELSE [r EXCEPT !.status = "done", !.device = d, !.beat = FALSE]

\* Mutant of ImportActive: it takes a lane although another device holds it.
ImportActiveOverOthers(d, l) ==
    LET r == records[l] IN
    IF r.status = "done" THEN r
    ELSE [status |-> "active", device |-> d, beat |-> TRUE,
          lease |-> Longer(r.lease, BeatLease)]

ImportActive(d, l) ==
    LET r == records[l] IN
    IF r.status = "done" \/ Conflict(d, r) THEN r
    ELSE [status |-> "active", device |-> d, beat |-> TRUE,
          lease |-> Longer(r.lease, BeatLease)]

AfterImport(d, done, active) ==
    [l \in Lanes |->
        IF l \in done THEN ImportDone(d, l)
        ELSE IF l \in active THEN ImportActive(d, l)
        ELSE IF records[l].device = d /\ records[l].status = "active" THEN Dropped(l)
        ELSE records[l]]

\* Mutant of AfterTick: a lease runs on below zero.
AfterTickUnfloored == [l \in Lanes |-> [records[l] EXCEPT !.lease = @ - 1]]

\* Time passes for every lease.
AfterTick == [l \in Lanes |-> [records[l] EXCEPT !.lease = IF @ > 0 THEN @ - 1 ELSE 0]]
=============================================================================
