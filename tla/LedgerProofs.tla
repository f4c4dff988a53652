---------------------------- MODULE LedgerProofs ----------------------------
(***************************************************************************)
(* Proofs about LedgerClients, for any lanes, devices, leases and bounds:  *)
(* types, the ledger as a lock on lanes, the lanes two clients can share,  *)
(* the ZIPs behind what is recorded done, and what a dead device may not   *)
(* gain.                                                                   *)
(***************************************************************************)
EXTENDS LedgerClients, TLAPS

----------------------------------------------------------------------------
\* What the ledger's methods write are records.

LEMMA LongerTyped ==
    ASSUME NEW r \in Record
    PROVE  /\ Longer(r.lease, BeatLease) \in 0 .. Longer(Lease, BeatLease)
           /\ Lease \in 0 .. Longer(Lease, BeatLease)
    BY LedgerAssumption DEF Record, Longer

LEMMA MarkDoneTyped ==
    ASSUME NEW r \in Record
    PROVE  MarkDone(r) \in Record
    BY DEF MarkDone, Record, Statuses

LEMMA DroppedTyped ==
    ASSUME TypeOK, NEW l \in Lanes
    PROVE  Dropped(l) \in Record
<1>1. records[l] \in Record
    BY DEF TypeOK
<1>2. [records[l] EXCEPT !.status = "released", !.beat = FALSE] \in Record
    BY <1>1 DEF Record, Statuses
<1> QED
    BY <1>1, <1>2, MarkDoneTyped DEF Dropped

LEMMA ClaimTyped ==
    ASSUME TypeOK, NEW d \in Devices
    PROVE  AfterClaim(d) \in [Lanes -> Record]
<1>1. ClaimRecord(d) \in Record
    BY LedgerAssumption DEF ClaimRecord, Record, Statuses, Longer
<1>2. \A l \in Lanes : records[l] \in Record /\ MarkDone(records[l]) \in Record
    BY MarkDoneTyped DEF TypeOK
<1> QED
    BY <1>1, <1>2 DEF AfterClaim

LEMMA HeartbeatTyped ==
    ASSUME TypeOK, NEW d \in Devices, NEW S
    PROVE  AfterHeartbeat(d, S) \in [Lanes -> Record]
<1>1. ASSUME NEW l \in Lanes
      PROVE  /\ records[l] \in Record
             /\ [records[l] EXCEPT !.lease = Lease] \in Record
    <2>1. records[l] \in Record
        BY DEF TypeOK
    <2> QED
        BY <2>1, LongerTyped DEF Record
<1> QED
    BY <1>1 DEF AfterHeartbeat

LEMMA ReportTyped ==
    ASSUME TypeOK, NEW d \in Devices, NEW l \in Lanes
    PROVE  AfterFinish(d, l) \in [Lanes -> Record] /\ AfterFail(d, l) \in [Lanes -> Record]
<1>1. records \in [Lanes -> Record] /\ records[l] \in Record
    BY DEF TypeOK
<1>2. ASSUME NEW s \in Statuses
      PROVE  [records EXCEPT ![l].status = s, ![l].device = d, ![l].beat = FALSE]
                 \in [Lanes -> Record]
    BY <1>1 DEF Record
<1> QED
    BY <1>2 DEF AfterFinish, AfterFail, Statuses

LEMMA ReleaseTyped ==
    ASSUME TypeOK, NEW d \in Devices, NEW keep, NEW only
    PROVE  AfterReleaseInactive(d, keep, only) \in [Lanes -> Record]
    BY DroppedTyped DEF AfterReleaseInactive, TypeOK

LEMMA ImportTyped ==
    ASSUME TypeOK, NEW d \in Devices, NEW done, NEW active
    PROVE  AfterImport(d, done, active) \in [Lanes -> Record]
<1>1. ASSUME NEW l \in Lanes
      PROVE  /\ records[l] \in Record
             /\ ImportDone(d, l) \in Record
             /\ ImportActive(d, l) \in Record
             /\ Dropped(l) \in Record
    <2>1. records[l] \in Record
        BY DEF TypeOK
    <2>2. [records[l] EXCEPT !.status = "done", !.device = d, !.beat = FALSE] \in Record
        BY <2>1 DEF Record, Statuses
    <2>3. ImportDone(d, l) \in Record
        BY <2>1, <2>2, MarkDoneTyped DEF ImportDone
    <2>4. [status |-> "active", device |-> d, beat |-> TRUE,
           lease |-> Longer(records[l].lease, BeatLease)] \in Record
        BY <2>1, LongerTyped DEF Record, Statuses
    <2>5. ImportActive(d, l) \in Record
        BY <2>1, <2>4 DEF ImportActive
    <2> QED
        BY <2>1, <2>3, <2>5, DroppedTyped
<1> QED
    BY <1>1 DEF AfterImport

LEMMA OthersTyped ==
    ASSUME TypeOK
    PROVE  /\ AfterReconcile \in [Lanes -> Record]
           /\ NoRecords \in [Lanes -> Record]
           /\ AfterTick \in [Lanes -> Record]
<1>1. AfterReconcile \in [Lanes -> Record]
    BY MarkDoneTyped DEF AfterReconcile, TypeOK
<1>2. NoRecords \in [Lanes -> Record]
    BY LedgerAssumption DEF NoRecords, NoRecord, Record, Statuses, Longer
<1>3. ASSUME NEW l \in Lanes
      PROVE  [records[l] EXCEPT !.lease = IF @ > 0 THEN @ - 1 ELSE 0] \in Record
    <2>1. records[l] \in Record
        BY DEF TypeOK
    <2> QED
        BY <2>1, LedgerAssumption DEF Record, Longer
<1> QED
    BY <1>1, <1>2, <1>3 DEF AfterTick

----------------------------------------------------------------------------
\* Type correctness.

LEMMA InitTyped == Init => TypeOK
<1> SUFFICES ASSUME Init
             PROVE  TypeOK
    OBVIOUS
<1>1. records \in [Lanes -> Record]
    BY LedgerAssumption DEF Init, NoRecords, NoRecord, Record, Statuses, Longer
<1>2. clients \in [Devices -> Client]
    BY DEF Init, Client, IdleClient
<1>3. pools \in [Devices -> Pool] /\ sidecars \in [Devices -> Sidecar]
    BY DEF Init, Pool, Sidecar, FreshSidecar
<1> QED
    BY <1>1, <1>2, <1>3 DEF TypeOK, Init

LEMMA ForfeitTyped ==
    ASSUME TypeOK, Forfeit
    PROVE  forfeited' \in [Devices -> SUBSET Lanes]
<1>1. \A d \in Devices : Working(d) \subseteq Lanes
    BY DEF Working, Own, TypeOK, Pool
<1> QED
    BY <1>1 DEF Forfeit, TypeOK

LEMMA GrantedLanes == Granted \subseteq Lanes
    BY DEF Granted, Scanned

LEMMA ListedLanes ==
    ASSUME TypeOK, NEW d \in Devices, NEW listed \in Listed(d)
    PROVE  listed \subseteq Lanes
    BY DEF Listed, TypeOK, Pool

LEMMA ClientStepTyped ==
    ASSUME TypeOK, NEW d \in Devices, ClientStep(d)
    PROVE  TypeOK'
<1> USE DEF TypeOK
<1>1. /\ clients[d] \in Client /\ pools[d] \in Pool /\ zips[d] \subseteq Lanes
      /\ \A lanes \in SUBSET Lanes : FreshSidecar(lanes) \in Sidecar
      /\ IdleClient("claim") \in Client
    BY DEF FreshSidecar, Sidecar, IdleClient, Client
<1>2. CASE Claim(d)
    <2>1. clients' \in [Devices -> Client]
        BY <1>1, <1>2, GrantedLanes DEF Claim, Client
    <2> QED
        BY <1>1, <1>2, <2>1, ClaimTyped, ForfeitTyped DEF Claim
<1>3. CASE ClaimTimesOut(d)
    BY <1>1, <1>3 DEF ClaimTimesOut, TimeOut, Call
<1>4. CASE Begin(d)
    <2> DEFINE job == clients[d].batch \ zips[d]
    <2>1. clients[d].batch \subseteq Lanes /\ job \subseteq Lanes
        BY <1>1 DEF Client
    <2>2. CASE job = {}
        <3>1. clients' = [clients EXCEPT ![d].pc = "report", ![d].todo = clients[d].batch]
            BY <1>4, <2>2 DEF Begin
        <3>2. clients' \in [Devices -> Client]
            BY <1>1, <2>1, <3>1 DEF Client
        <3> QED
            BY <1>1, <1>4, <2>1, <2>2, <3>2 DEF Begin
    <2>3. CASE job # {}
        <3>1. /\ clients' = [clients EXCEPT ![d].pc = "run", ![d].job = job]
              /\ pools' = [pools EXCEPT ![d] = [queue |-> job, busy |-> {}]]
              /\ forfeited' = [forfeited EXCEPT ![d] = @ \cup {l \in job : Holder[l] # d}]
            BY <1>4, <2>3 DEF Begin
        <3>2. clients' \in [Devices -> Client]
            BY <1>1, <2>1, <3>1 DEF Client
        <3>3. pools' \in [Devices -> Pool]
            BY <2>1, <3>1 DEF Pool
        <3>4. forfeited' \in [Devices -> SUBSET Lanes]
            BY <2>1, <3>1
        <3> QED
            BY <1>1, <1>4, <2>1, <2>3, <3>2, <3>3, <3>4 DEF Begin
    <2> QED
        BY <2>2, <2>3
<1>5. CASE Heartbeat(d)
    BY <1>5, HeartbeatTyped DEF Heartbeat
<1>6. ASSUME NEW l \in Lanes, ReportEarly(d, l)
      PROVE  TypeOK'
    <2>1. records' \in [Lanes -> Record] /\ late' \subseteq Call
        BY <1>6, ReportTyped DEF ReportEarly, TimeOut, Call
    <2>2. clients' \in [Devices -> Client] /\ sidecars' \in [Devices -> Sidecar]
        <3>1. clients[d].job \subseteq Lanes
            BY <1>1 DEF Client
        <3>2. [clients EXCEPT ![d].reported = @ \cup {l}] \in [Devices -> Client]
            BY <1>1 DEF Client
        <3>3. /\ clients' \in {clients, [clients EXCEPT ![d].reported = @ \cup {l}]}
              /\ sidecars' \in {sidecars, [sidecars EXCEPT ![d] = FreshSidecar(clients[d].job)]}
            BY <1>6 DEF ReportEarly
        <3>4. clients' \in [Devices -> Client]
            BY <1>1, <3>2, <3>3
        <3>5. sidecars' \in [Devices -> Sidecar]
            BY <1>1, <3>1, <3>3
        <3> QED
            BY <3>4, <3>5
    <2> QED
        BY <1>6, <2>1, <2>2, ForfeitTyped DEF ReportEarly
<1>7. ASSUME NEW l \in Lanes, ReportLane(d, l)
      PROVE  TypeOK'
    <2>1. records' \in [Lanes -> Record] /\ late' \subseteq Call
        BY <1>7, ReportTyped DEF ReportLane, TimeOut, Call, AfterReport, ReportOp
    <2>2. clients' \in [Devices -> Client] /\ sidecars' \in [Devices -> Sidecar]
        <3>1. clients[d].batch \subseteq Lanes /\ clients[d].todo \subseteq Lanes
            BY <1>1 DEF Client
        <3>2. /\ [clients EXCEPT ![d].todo = @ \ {l}] \in [Devices -> Client]
              /\ [clients EXCEPT ![d].todo = clients[d].batch] \in [Devices -> Client]
            BY <1>1, <3>1 DEF Client
        <3>3. /\ clients' \in {[clients EXCEPT ![d].todo = @ \ {l}],
                               [clients EXCEPT ![d].todo = clients[d].batch],
                               [clients EXCEPT ![d] = IdleClient("claim")]}
              /\ \/ sidecars' = sidecars
                 \/ \E lanes \in {{}, clients[d].batch} :
                        sidecars' = [sidecars EXCEPT ![d] = FreshSidecar(lanes)]
            BY <1>7 DEF ReportLane
        <3>4. clients' \in [Devices -> Client]
            BY <1>1, <3>2, <3>3
        <3>5. sidecars' \in [Devices -> Sidecar]
            BY <1>1, <3>1, <3>3
        <3> QED
            BY <3>4, <3>5
    <2> QED
        BY <1>7, <2>1, <2>2, ForfeitTyped DEF ReportLane
<1> QED
    BY <1>2, <1>3, <1>4, <1>5, <1>6, <1>7 DEF ClientStep

LEMMA DeviceStepTyped ==
    ASSUME TypeOK, NEW d \in Devices, DeviceStep(d)
    PROVE  TypeOK'
<1> USE DEF TypeOK
<1>1. /\ clients[d] \in Client /\ pools[d] \in Pool /\ zips[d] \subseteq Lanes
      /\ sidecars[d] \in Sidecar /\ forfeited[d] \subseteq Lanes /\ Local \in Devices
      /\ IdleClient("off") \in Client
    BY LedgerAssumption DEF IdleClient, Client
<1>2. clients[d].batch \subseteq Lanes /\ pools[d].queue \subseteq Lanes /\ pools[d].busy \subseteq Lanes
    BY <1>1 DEF Client, Pool
<1>3. ASSUME NEW l \in Lanes, PoolStarts(d, l)
      PROVE  TypeOK'
    BY <1>1, <1>2, <1>3 DEF PoolStarts, Pool
<1>4. ASSUME NEW l \in Lanes, PoolEndsLane(d, l)
      PROVE  TypeOK'
    <2>1. pools' \in [Devices -> Pool]
        BY <1>1, <1>2, <1>4 DEF PoolEndsLane, Pool
    <2>2. zips' \in [Devices -> SUBSET Lanes]
        BY <1>1, <1>4 DEF PoolEndsLane
    <2>3. forfeited' \in [Devices -> SUBSET Lanes]
        BY <1>1, <1>4 DEF PoolEndsLane, WorksOn
    <2> QED
        BY <1>4, <2>1, <2>2, <2>3 DEF PoolEndsLane
<1>5. ASSUME NEW l \in Lanes, Consolidate(d, l)
      PROVE  TypeOK'
    BY <1>1, <1>5 DEF Consolidate
<1>6. CASE PoolExits(d)
    <2>1. pools' \in [Devices -> Pool]
        BY <1>1, <1>2, <1>6 DEF PoolExits, Pool
    <2>2. clients' \in [Devices -> Client]
        BY <1>1, <1>2, <1>6 DEF PoolExits, Client
    <2> QED
        BY <1>1, <1>6, <2>1, <2>2 DEF PoolExits, WorksOn
<1>7. CASE Crash(d)
    <2>1. pools' \in [Devices -> Pool]
        BY <1>1, <1>7 DEF Crash, Pool
    <2>2. panels' \subseteq Devices
        BY <1>7 DEF Crash
    <2>3. orphans' \in [Devices -> SUBSET Lanes]
        <3>1. Own(d) \subseteq Lanes
            BY <1>2 DEF Own
        <3> QED
            BY <1>7, <3>1 DEF Crash
    <2>4. forfeited' \in [Devices -> SUBSET Lanes]
        BY <1>1, <1>7 DEF Crash, WorksOn
    <2> QED
        BY <1>1, <1>7, <2>1, <2>2, <2>3, <2>4 DEF Crash
<1>8. CASE Restart(d)
    <2>1. clients' \in [Devices -> Client]
        BY <1>1, <1>8 DEF Restart, Client
    <2>2. sidecars' \in [Devices -> Sidecar]
        BY <1>8 DEF Restart, FreshSidecar, Sidecar
    <2> QED
        BY <1>8, <2>1, <2>2 DEF Restart
<1>9. CASE SidecarAges(d)
    BY <1>1, <1>9 DEF SidecarAges, Sidecar
<1>10. ASSUME NEW l \in Lanes, OrphanEndsLane(d, l)
       PROVE  TypeOK'
    <2>1. pools' \in [Devices -> Pool]
        BY <1>1, <1>2, <1>10 DEF OrphanEndsLane, Pool
    <2>2. orphans' \in [Devices -> SUBSET Lanes] /\ zips' \in [Devices -> SUBSET Lanes]
        BY <1>1, <1>10 DEF OrphanEndsLane
    <2>3. forfeited' \in [Devices -> SUBSET Lanes]
        BY <1>1, <1>10 DEF OrphanEndsLane, WorksOn
    <2> QED
        BY <1>10, <2>1, <2>2, <2>3 DEF OrphanEndsLane
<1>11. CASE OrphansDie(d)
    <2>1. pools' \in [Devices -> Pool]
        <3>1. PICK listed \in Listed(d) :
                  pools' = [pools EXCEPT ![d].busy = IF clients[d].pc = "run" THEN @ ELSE listed]
            BY <1>11 DEF OrphansDie
        <3>2. listed \subseteq Lanes
            BY <1>2, <3>1, ListedLanes
        <3> QED
            BY <1>1, <1>2, <3>1, <3>2 DEF Pool
    <2>2. orphans' \in [Devices -> SUBSET Lanes] /\ forfeited' \in [Devices -> SUBSET Lanes]
        BY <1>1, <1>11 DEF OrphansDie, WorksOn
    <2> QED
        BY <1>11, <2>1, <2>2 DEF OrphansDie
<1> QED
    BY <1>3, <1>4, <1>5, <1>6, <1>7, <1>8, <1>9, <1>10, <1>11 DEF DeviceStep

LEMMA CoordinatorStepTyped ==
    ASSUME TypeOK, CoordinatorStep
    PROVE  TypeOK'
<1> USE DEF TypeOK
<1>1. ASSUME NEW d \in Devices, BuildBeat(d)
      PROVE  TypeOK'
    <2>1. /\ \A listed \in Listed(d) : listed \subseteq Lanes
          /\ sidecars[d].lanes \subseteq Lanes /\ zips[d] \subseteq Lanes
        BY ListedLanes DEF Sidecar
    <2>2. beats' \subseteq Beat
        BY <1>1, <2>1 DEF BuildBeat, Beat
    <2> QED
        BY <1>1, <2>2 DEF BuildBeat
<1>2. ASSUME NEW d \in Devices, StaleSubordinate(d)
      PROVE  TypeOK'
    BY <1>2, ReleaseTyped, ForfeitTyped DEF StaleSubordinate
<1>3. ASSUME NEW m \in beats, HandleBeat(m)
      PROVE  TypeOK'
    <2>1. m.device \in Devices /\ Local \in Devices
        BY LedgerAssumption DEF Beat
    <2>2. records' \in [Lanes -> Record]
        BY <1>3, <2>1, ReleaseTyped, ImportTyped DEF HandleBeat, LocalSync
    <2> QED
        BY <1>3, <2>2, ForfeitTyped DEF HandleBeat
<1>4. ASSUME NEW m \in beats, LoseBeat(m)
      PROVE  TypeOK'
    BY <1>4 DEF LoseBeat
<1>5. ASSUME NEW c \in late, HandleLate(c)
      PROVE  TypeOK'
    <2>1. c \in Call /\ c.op \in {"claim", "finish", "fail"} /\ c.device \in Devices
        BY DEF Call
    <2>2. CASE c.op = "claim"
        BY <1>5, <2>1, <2>2, ClaimTyped, ForfeitTyped DEF HandleLate
    <2>3. CASE c.op # "claim"
        <3>1. c.lane \in Lanes
            BY <2>1, <2>3 DEF Call
        <3>2. records' \in [Lanes -> Record]
            BY <1>5, <2>1, <2>3, <3>1, ReportTyped DEF HandleLate
        <3> QED
            BY <1>5, <3>2, ForfeitTyped DEF HandleLate
    <2> QED
        BY <2>2, <2>3
<1>6. ASSUME NEW c \in late, LoseLate(c)
      PROVE  TypeOK'
    BY <1>6 DEF LoseLate
<1>7. CASE Reconcile
    BY <1>7, OthersTyped, ForfeitTyped DEF Reconcile
<1>8. CASE Unreadable
    BY <1>8, OthersTyped, ForfeitTyped DEF Unreadable
<1>9. CASE Tick
    BY <1>9, OthersTyped, ForfeitTyped DEF Tick
<1> QED
    BY <1>1, <1>2, <1>3, <1>4, <1>5, <1>6, <1>7, <1>8, <1>9 DEF CoordinatorStep

LEMMA NextTyped == TypeOK /\ [Next]_vars => TypeOK'
<1> SUFFICES ASSUME TypeOK, [Next]_vars
             PROVE  TypeOK'
    OBVIOUS
<1>1. CASE UNCHANGED vars
    BY <1>1 DEF TypeOK, vars
<1> QED
    BY <1>1, ClientStepTyped, DeviceStepTyped, CoordinatorStepTyped DEF Next

\* Type correctness: the ledger's records, the clients, their files and what is under way keep
\* their shapes through every call, fault and late message.
THEOREM TypeCorrect == Spec => []TypeOK
<1> QED
    BY InitTyped, NextTyped, PTL DEF Spec

----------------------------------------------------------------------------
\* The ledger as a lock: what a step may do to one lane's record r, written as s, when d is
\* the device it serves.

HolderOf(r) == IF Leased(r) THEN r.device ELSE Nobody

Owned(r) == r.status = "active" => r.device \in Devices

Moves(d, r, s) ==
    /\ Owned(s)
    /\ HolderOf(s) # HolderOf(r) =>
           HolderOf(s) = Nobody \/ (HolderOf(r) = Nobody /\ HolderOf(s) = d)

AllOwned == \A l \in Lanes : Owned(records[l])

AllMove(d, new) == \A l \in Lanes : Moves(d, records[l], new[l])

LEMMA ReleasedMoves ==
    ASSUME NEW d, NEW r \in Record, NEW s \in Record, s.status # "active"
    PROVE  Moves(d, r, s)
    BY DEF Moves, Owned, HolderOf, Leased

LEMMA StaysMoves ==
    ASSUME NEW d, NEW r \in Record, Owned(r)
    PROVE  Moves(d, r, r)
    BY DEF Moves

LEMMA TakenMoves ==
    ASSUME NEW d \in Devices, NEW r \in Record, NEW s \in Record,
           s.device = d, HolderOf(r) \in {Nobody, d}
    PROVE  Moves(d, r, s)
    BY LedgerAssumption DEF Moves, Owned, HolderOf

LEMMA MarkDoneMoves ==
    ASSUME NEW d, NEW r \in Record
    PROVE  Moves(d, r, MarkDone(r))
<1>1. MarkDone(r) \in Record /\ MarkDone(r).status = "done"
    BY MarkDoneTyped DEF MarkDone, Record
<1> QED
    BY <1>1, ReleasedMoves

LEMMA DroppedMoves ==
    ASSUME TypeOK, NEW d, NEW l \in Lanes
    PROVE  Moves(d, records[l], Dropped(l))
<1>1. records[l] \in Record
    BY DEF TypeOK
<1>2. Dropped(l) \in Record /\ Dropped(l).status \in {"done", "released"}
    BY <1>1, DroppedTyped DEF Dropped, MarkDone, Record
<1> QED
    BY <1>1, <1>2, ReleasedMoves

LEMMA ClaimMoves ==
    ASSUME TypeOK, AllOwned, NEW d \in Devices
    PROVE  AllMove(d, AfterClaim(d))
<1> SUFFICES ASSUME NEW l \in Lanes
             PROVE  Moves(d, records[l], AfterClaim(d)[l])
    BY DEF AllMove
<1>1. records[l] \in Record /\ Owned(records[l])
    BY DEF TypeOK, AllOwned
<1>2. ClaimRecord(d) \in Record /\ ClaimRecord(d).device = d
    BY LedgerAssumption DEF ClaimRecord, Record, Statuses, Longer
<1>3. CASE l \in Granted
    <2>1. HolderOf(records[l]) = Nobody
        BY <1>3 DEF Granted, Claimable, HolderOf
    <2>2. Moves(d, records[l], ClaimRecord(d))
        BY <1>1, <1>2, <2>1, TakenMoves
    <2> QED
        BY <1>3, <2>2 DEF AfterClaim
<1>4. CASE l \notin Granted
    <2>1. Moves(d, records[l], MarkDone(records[l])) /\ Moves(d, records[l], records[l])
        BY <1>1, MarkDoneMoves, StaysMoves
    <2> QED
        BY <1>4, <2>1 DEF AfterClaim
<1> QED
    BY <1>3, <1>4

LEMMA HeartbeatMoves ==
    ASSUME TypeOK, AllOwned, NEW d \in Devices, NEW S
    PROVE  AllMove(d, AfterHeartbeat(d, S))
<1> SUFFICES ASSUME NEW l \in Lanes
             PROVE  Moves(d, records[l], AfterHeartbeat(d, S)[l])
    BY DEF AllMove
<1>1. records[l] \in Record /\ Owned(records[l])
    BY DEF TypeOK, AllOwned
<1>2. CASE l \in S /\ records[l].device = d /\ records[l].status = "active"
    <2> DEFINE s == [records[l] EXCEPT !.lease = Lease]
    <2>1. s \in Record /\ s.device = d
        BY <1>1, <1>2, LongerTyped DEF Record
    <2>2. HolderOf(records[l]) \in {Nobody, d}
        BY <1>2 DEF HolderOf
    <2>3. AfterHeartbeat(d, S)[l] = s
        BY <1>2 DEF AfterHeartbeat
    <2> QED
        BY <1>1, <2>1, <2>2, <2>3, TakenMoves
<1>3. CASE ~(l \in S /\ records[l].device = d /\ records[l].status = "active")
    <2>1. AfterHeartbeat(d, S)[l] = records[l]
        BY <1>3 DEF AfterHeartbeat
    <2> QED
        BY <1>1, <2>1, StaysMoves
<1> QED
    BY <1>2, <1>3

LEMMA ReportMoves ==
    ASSUME TypeOK, AllOwned, NEW d \in Devices, NEW e, NEW l \in Lanes
    PROVE  AllMove(e, AfterFinish(d, l)) /\ AllMove(e, AfterFail(d, l))
<1>1. ASSUME NEW m \in Lanes
      PROVE  /\ Moves(e, records[m], AfterFinish(d, l)[m])
             /\ Moves(e, records[m], AfterFail(d, l)[m])
    <2>1. records \in [Lanes -> Record] /\ records[m] \in Record /\ Owned(records[m])
        BY DEF TypeOK, AllOwned
    <2>2. CASE m = l
        <3>1. AfterFinish(d, l)[m] \in Record /\ AfterFail(d, l)[m] \in Record
            BY ReportTyped
        <3>2. ASSUME NEW st \in {"done", "failed"}
              PROVE  [records EXCEPT ![l].status = st, ![l].device = d, ![l].beat = FALSE][m].status
                         = st
            BY <2>1, <2>2 DEF Record
        <3>3. AfterFinish(d, l)[m].status = "done" /\ AfterFail(d, l)[m].status = "failed"
            BY <3>2 DEF AfterFinish, AfterFail
        <3> QED
            BY <2>1, <3>1, <3>3, ReleasedMoves
    <2>3. CASE m # l
        <3>1. AfterFinish(d, l)[m] = records[m] /\ AfterFail(d, l)[m] = records[m]
            BY <2>1, <2>3 DEF AfterFinish, AfterFail
        <3> QED
            BY <2>1, <3>1, StaysMoves
    <2> QED
        BY <2>2, <2>3
<1> QED
    BY <1>1 DEF AllMove

LEMMA ReleaseMoves ==
    ASSUME TypeOK, AllOwned, NEW d, NEW e, NEW keep, NEW only
    PROVE  AllMove(e, AfterReleaseInactive(d, keep, only))
<1> SUFFICES ASSUME NEW l \in Lanes
             PROVE  Moves(e, records[l], AfterReleaseInactive(d, keep, only)[l])
    BY DEF AllMove
<1>1. records[l] \in Record /\ Owned(records[l])
    BY DEF TypeOK, AllOwned
<1> QED
    BY <1>1, DroppedMoves, StaysMoves DEF AfterReleaseInactive

LEMMA ImportMoves ==
    ASSUME TypeOK, AllOwned, NEW d \in Devices, NEW done, NEW active
    PROVE  AllMove(d, AfterImport(d, done, active))
<1> SUFFICES ASSUME NEW l \in Lanes
             PROVE  Moves(d, records[l], AfterImport(d, done, active)[l])
    BY DEF AllMove
<1>1. records[l] \in Record /\ Owned(records[l])
    BY DEF TypeOK, AllOwned
<1>2. Moves(d, records[l], ImportDone(d, l))
    <2>1. [records[l] EXCEPT !.status = "done", !.device = d, !.beat = FALSE] \in Record
        BY <1>1 DEF Record, Statuses
    <2>2. Moves(d, records[l], [records[l] EXCEPT !.status = "done", !.device = d, !.beat = FALSE])
        <3>1. [records[l] EXCEPT !.status = "done", !.device = d, !.beat = FALSE].status = "done"
            BY <1>1 DEF Record
        <3> QED
            BY <1>1, <2>1, <3>1, ReleasedMoves
    <2> QED
        BY <1>1, <2>2, MarkDoneMoves, StaysMoves DEF ImportDone
<1>3. Moves(d, records[l], ImportActive(d, l))
    <2> DEFINE s == [status |-> "active", device |-> d, beat |-> TRUE,
                     lease |-> Longer(records[l].lease, BeatLease)]
    <2>1. s \in Record /\ s.device = d
        BY <1>1, LongerTyped DEF Record, Statuses
    <2>2. CASE records[l].status = "done" \/ Conflict(d, records[l])
        BY <1>1, <2>2, StaysMoves DEF ImportActive
    <2>3. CASE ~(records[l].status = "done" \/ Conflict(d, records[l]))
        <3>1. HolderOf(records[l]) \in {Nobody, d}
            BY <2>3 DEF Conflict, HolderOf
        <3>2. ImportActive(d, l) = s
            BY <2>3 DEF ImportActive
        <3> QED
            BY <1>1, <2>1, <3>1, <3>2, TakenMoves
    <2> QED
        BY <2>2, <2>3
<1> QED
    BY <1>1, <1>2, <1>3, DroppedMoves, StaysMoves DEF AfterImport

LEMMA OthersMove ==
    ASSUME TypeOK, AllOwned, NEW e
    PROVE  AllMove(e, AfterReconcile) /\ AllMove(e, NoRecords) /\ AllMove(e, AfterTick)
<1>1. ASSUME NEW l \in Lanes
      PROVE  /\ Moves(e, records[l], AfterReconcile[l])
             /\ Moves(e, records[l], NoRecords[l])
             /\ Moves(e, records[l], AfterTick[l])
    <2>1. records[l] \in Record /\ Owned(records[l])
        BY DEF TypeOK, AllOwned
    <2>2. Moves(e, records[l], AfterReconcile[l])
        BY <2>1, MarkDoneMoves, StaysMoves DEF AfterReconcile
    <2>3. Moves(e, records[l], NoRecords[l])
        BY DEF Moves, Owned, HolderOf, Leased, NoRecords, NoRecord
    <2>4. Moves(e, records[l], AfterTick[l])
        <3>1. /\ AfterTick[l].status = records[l].status
              /\ AfterTick[l].device = records[l].device
              /\ AfterTick[l].lease > 0 => records[l].lease > 0
            BY <2>1 DEF AfterTick, Record
        <3> QED
            BY <2>1, <3>1 DEF Moves, Owned, HolderOf, Leased
    <2> QED
        BY <2>2, <2>3, <2>4
<1> QED
    BY <1>1 DEF AllMove

\* Every step that writes the ledger serves one device.
LEMMA StepMoves ==
    ASSUME TypeOK, AllOwned, [Next]_vars
    PROVE  \E d \in Devices : AllMove(d, records')
<1>0. /\ Local \in Devices
      /\ \A d \in Devices : AllMove(d, records)
    BY LedgerAssumption, StaysMoves DEF AllMove, AllOwned, TypeOK
<1>1. CASE records' = records
    BY <1>0, <1>1
<1>2. ASSUME NEW d \in Devices, ClientStep(d)
      PROVE  \E e \in Devices : AllMove(e, records')
    <2>1. CASE Claim(d)
        BY <2>1, ClaimMoves DEF Claim
    <2>2. CASE ClaimTimesOut(d) \/ Begin(d)
        BY <1>1, <2>2 DEF ClaimTimesOut, Begin
    <2>3. CASE Heartbeat(d)
        BY <2>3, HeartbeatMoves DEF Heartbeat
    <2>4. ASSUME NEW l \in Lanes, ReportEarly(d, l) \/ ReportLane(d, l)
          PROVE  \E e \in Devices : AllMove(e, records')
        <3>1. records' \in {records, AfterFinish(d, l), AfterFail(d, l)}
            BY <2>4 DEF ReportEarly, ReportLane, AfterReport
        <3> QED
            BY <1>0, <3>1, ReportMoves
    <2> QED
        BY <1>2, <2>1, <2>2, <2>3, <2>4 DEF ClientStep
<1>3. ASSUME NEW d \in Devices, DeviceStep(d)
      PROVE  records' = records
    BY <1>3 DEF DeviceStep, PoolStarts, PoolEndsLane, Consolidate, PoolExits, Crash,
        OrphanEndsLane, OrphansDie, Restart, SidecarAges
<1>4. ASSUME CoordinatorStep
      PROVE  \E e \in Devices : AllMove(e, records')
    <2>1. ASSUME NEW d \in Devices, BuildBeat(d) \/ StaleSubordinate(d)
          PROVE  \E e \in Devices : AllMove(e, records')
        BY <1>0, <1>1, <2>1, ReleaseMoves DEF BuildBeat, StaleSubordinate
    <2>2. ASSUME NEW m \in beats, HandleBeat(m) \/ LoseBeat(m)
          PROVE  \E e \in Devices : AllMove(e, records')
        <3>1. m.device \in Devices
            BY DEF TypeOK, Beat
        <3> QED
            BY <1>0, <1>1, <2>2, <3>1, ReleaseMoves, ImportMoves DEF HandleBeat, LocalSync, LoseBeat
    <2>3. ASSUME NEW c \in late, HandleLate(c) \/ LoseLate(c)
          PROVE  \E e \in Devices : AllMove(e, records')
        <3>1. c \in Call /\ c.op \in {"claim", "finish", "fail"} /\ c.device \in Devices
            BY DEF TypeOK, Call
        <3>2. CASE LoseLate(c)
            BY <1>1, <3>2 DEF LoseLate
        <3>3. CASE HandleLate(c) /\ c.op = "claim"
            BY <3>1, <3>3, ClaimMoves DEF HandleLate
        <3>4. CASE HandleLate(c) /\ c.op # "claim"
            <4>1. c.lane \in Lanes
                BY <3>1, <3>4 DEF Call
            <4>2. records' \in {records, AfterFinish(c.device, c.lane), AfterFail(c.device, c.lane)}
                BY <3>1, <3>4 DEF HandleLate
            <4> QED
                BY <1>0, <3>1, <4>1, <4>2, ReportMoves
        <3> QED
            BY <2>3, <3>2, <3>3, <3>4
    <2>4. CASE Reconcile \/ Unreadable \/ Tick
        BY <1>0, <2>4, OthersMove DEF Reconcile, Unreadable, Tick
    <2> QED
        BY <1>4, <2>1, <2>2, <2>3, <2>4 DEF CoordinatorStep
<1> QED
    BY <1>1, <1>2, <1>3, <1>4 DEF Next, vars

LEMMA InitOwned == Init => AllOwned
    BY DEF Init, NoRecords, NoRecord, AllOwned, Owned

LEMMA NextOwned == TypeOK /\ AllOwned /\ [Next]_vars => AllOwned'
    BY StepMoves DEF AllMove, Moves, AllOwned, Owned

\* A lane's lease is a lock: the ledger implements LaneLease.
THEOREM LedgerImplementsLease == Spec => LeasesAreLocks
<1>1. Init => Leases!Init
    BY DEF Init, NoRecords, NoRecord, Leases!Init, Holder, Leased
<1>2. ASSUME TypeOK, AllOwned, [Next]_vars
      PROVE  [Leases!Next]_Holder
    <2>1. PICK d \in Devices : AllMove(d, records')
        BY <1>2, StepMoves
    <2>2. Holder' \in [Lanes -> Devices \cup {Nobody}]
        <3>1. AllOwned'
            BY <1>2, NextOwned
        <3> QED
            BY <3>1 DEF Holder, AllOwned, Owned, Leased
    <2>3. \A l \in Lanes : Holder[l] = HolderOf(records[l]) /\ Holder'[l] = HolderOf(records'[l])
        BY DEF Holder, HolderOf, Leased
    <2>4. Leases!Move(d)
        BY <2>1, <2>2, <2>3 DEF AllMove, Moves, Leases!Move
    <2> QED
        BY <2>4 DEF Leases!Next
<1> QED
    BY <1>1, <1>2, TypeCorrect, InitOwned, NextOwned, PTL DEF Spec, LeasesAreLocks, Leases!Spec

----------------------------------------------------------------------------
\* The lanes two devices can work on at a time: what a device works on and has not forfeited
\* is leased to it.

HeldOrForfeited ==
    \A d \in Devices : \A l \in Working(d) \ forfeited[d] : Holder[l] = d

\* A step that leaves the clients' work alone and keeps the history.
LEMMA ForfeitKeeps ==
    ASSUME TypeOK, AllOwned, HeldOrForfeited, [Next]_vars, Forfeit,
           \A d \in Devices : Working(d)' \subseteq Working(d)
    PROVE  HeldOrForfeited'
<1>1. PICK e \in Devices : AllMove(e, records')
    BY StepMoves
<1>2. \A l \in Lanes : Holder[l] = HolderOf(records[l]) /\ Holder'[l] = HolderOf(records'[l])
    BY DEF Holder, HolderOf, Leased
<1>3. ASSUME NEW d \in Devices, NEW l \in Working(d)', l \notin forfeited'[d]
      PROVE  Holder'[l] = d
    <2>1. l \in Working(d) /\ l \in Lanes
        BY <1>3 DEF Working, Own, TypeOK, Pool
    <2>2. l \notin forfeited[d] /\ ~(Holder[l] = d /\ Holder'[l] = Nobody)
        BY <1>3, <2>1 DEF Forfeit, TypeOK
    <2>3. Holder[l] = d
        BY <2>1, <2>2 DEF HeldOrForfeited
    <2> QED
        BY <1>1, <1>2, <2>1, <2>2, <2>3, LedgerAssumption DEF AllMove, Moves
<1> QED
    BY <1>3 DEF HeldOrForfeited

\* A step that leaves the ledger alone, and the history of what is still worked on.
LEMMA LocalKeeps ==
    ASSUME HeldOrForfeited, Holder' = Holder,
           \A d \in Devices : /\ Working(d)' \subseteq Working(d)
                              /\ forfeited[d] \cap Working(d)' \subseteq forfeited'[d]
    PROVE  HeldOrForfeited'
    BY DEF HeldOrForfeited

LEMMA HeldNext ==
    ASSUME TypeOK, AllOwned, HeldOrForfeited, [Next]_vars
    PROVE  HeldOrForfeited'
<1>1. CASE UNCHANGED vars
    BY <1>1, LocalKeeps DEF vars, Holder, Leased, Working, Own
<1>2. ASSUME NEW d \in Devices, ClientStep(d)
      PROVE  HeldOrForfeited'
    <2>0. clients[d] \in Client
        BY DEF TypeOK
    <2>1. CASE Claim(d)
        <3>1. \A e \in Devices : Working(e)' \subseteq Working(e)
            BY <2>0, <2>1 DEF Claim, Working, Own, TypeOK, Client
        <3> QED
            BY <2>1, <3>1, ForfeitKeeps DEF Claim
    <2>2. CASE ClaimTimesOut(d)
        BY <2>2, LocalKeeps DEF ClaimTimesOut, Working, Own, Holder, Leased
    <2>3. CASE Begin(d)
        <3> DEFINE job == clients[d].batch \ zips[d]
        <3>1. CASE job = {}
            <4>1. \A e \in Devices : Working(e)' \subseteq Working(e)
                BY <2>0, <2>3, <3>1 DEF Begin, Working, Own, TypeOK, Client
            <4> QED
                BY <2>3, <3>1, <4>1, LocalKeeps DEF Begin, Holder, Leased
        <3>2. CASE job # {}
            <4>1. /\ pools' = [pools EXCEPT ![d] = [queue |-> job, busy |-> {}]]
                  /\ clients' = [clients EXCEPT ![d].pc = "run", ![d].job = job]
                  /\ forfeited' = [forfeited EXCEPT ![d] = @ \cup {l \in job : Holder[l] # d}]
                  /\ Holder' = Holder /\ orphans' = orphans
                BY <2>3, <3>2 DEF Begin, Holder, Leased
            <4>2. ASSUME NEW e \in Devices, e # d
                  PROVE  Working(e)' = Working(e) /\ forfeited'[e] = forfeited[e]
                BY <4>1, <4>2 DEF Working, Own, TypeOK
            <4>3. /\ Working(d)' \subseteq job \cup Working(d)
                  /\ forfeited'[d] = forfeited[d] \cup {l \in job : Holder[l] # d}
                BY <4>1 DEF Working, Own, TypeOK
            <4>4. ASSUME NEW e \in Devices, NEW l \in Working(e)' \ forfeited'[e]
                  PROVE  Holder'[l] = e
                BY <4>1, <4>2, <4>3, <4>4 DEF HeldOrForfeited
            <4> QED
                BY <4>4 DEF HeldOrForfeited
        <3> QED
            BY <3>1, <3>2
    <2>4. CASE Heartbeat(d)
        <3>1. \A e \in Devices : Working(e)' = Working(e) /\ forfeited'[e] = forfeited[e]
            BY <2>4 DEF Heartbeat, Working, Own
        <3>2. ASSUME NEW e \in Devices, NEW l \in Lanes, Holder[l] = e
              PROVE  Holder'[l] = e
            <4>1. records[l] \in Record /\ Leased(records[l]) /\ records[l].device = e
                BY <3>2, LedgerAssumption DEF Holder, TypeOK
            <4>2. /\ records'[l].status = "active" /\ records'[l].device = e
                  /\ records'[l].lease > 0
                BY <2>4, <4>1, LedgerAssumption DEF Heartbeat, AfterHeartbeat, Record, Leased
            <4> QED
                BY <4>2 DEF Holder, Leased
        <3>3. \A e \in Devices : Working(e) \subseteq Lanes
            BY DEF Working, Own, TypeOK, Pool
        <3> QED
            BY <3>1, <3>2, <3>3 DEF HeldOrForfeited
    <2>5. ASSUME NEW l \in Lanes, ReportEarly(d, l) \/ ReportLane(d, l)
          PROVE  HeldOrForfeited'
        <3>1. \A e \in Devices : Working(e)' \subseteq Working(e)
            <4>1. CASE ReportEarly(d, l)
                <5>1. /\ clients' \in {clients, [clients EXCEPT ![d].reported = @ \cup {l}]}
                      /\ pools' = pools /\ orphans' = orphans
                    BY <4>1 DEF ReportEarly
                <5>2. \A e \in Devices : clients'[e].pc = clients[e].pc
                    BY <2>0, <5>1 DEF TypeOK, Client
                <5> QED
                    BY <5>1, <5>2 DEF Working, Own
            <4>2. CASE ReportLane(d, l)
                <5>1. /\ clients' \in {[clients EXCEPT ![d].todo = @ \ {l}],
                                       [clients EXCEPT ![d].todo = clients[d].batch],
                                       [clients EXCEPT ![d] = IdleClient("claim")]}
                      /\ pools' = pools /\ orphans' = orphans
                      /\ clients[d].pc = "report"
                    BY <4>2 DEF ReportLane
                <5>2. \A e \in Devices : clients'[e].pc = "run" => clients[e].pc = "run"
                    <6>1. CASE clients' = [clients EXCEPT ![d] = IdleClient("claim")]
                        <7>1. clients'[d].pc = "claim" /\ \A e \in Devices \ {d} : clients'[e] = clients[e]
                            BY <6>1 DEF TypeOK, IdleClient
                        <7> QED
                            BY <7>1
                    <6>2. CASE clients' # [clients EXCEPT ![d] = IdleClient("claim")]
                        <7>1. PICK todo : clients' = [clients EXCEPT ![d].todo = todo]
                            BY <5>1, <6>2
                        <7>2. \A e \in Devices : clients'[e].pc = clients[e].pc
                            BY <2>0, <7>1 DEF TypeOK, Client
                        <7> QED
                            BY <7>2
                    <6> QED
                        BY <6>1, <6>2
                <5> QED
                    BY <5>1, <5>2 DEF Working, Own
            <4> QED
                BY <2>5, <4>1, <4>2
        <3> QED
            BY <2>5, <3>1, ForfeitKeeps DEF ReportEarly, ReportLane
    <2> QED
        BY <1>2, <2>1, <2>2, <2>3, <2>4, <2>5 DEF ClientStep
<1>3. ASSUME NEW d \in Devices, DeviceStep(d)
      PROVE  HeldOrForfeited'
    <2>0. clients[d] \in Client /\ pools[d] \in Pool
        BY DEF TypeOK
    <2>1. Holder' = Holder
        BY <1>3 DEF DeviceStep, PoolStarts, PoolEndsLane, Consolidate, PoolExits, Crash, OrphanEndsLane,
            OrphansDie, Restart,
            SidecarAges, Holder, Leased
    <2>2. ASSUME NEW e \in Devices
          PROVE  /\ Working(e)' \subseteq Working(e)
                 /\ forfeited[e] \cap Working(e)' \subseteq forfeited'[e]
        <3>1. ASSUME NEW l \in Lanes, PoolStarts(d, l)
              PROVE  Working(e)' \subseteq Working(e) /\ forfeited'[e] = forfeited[e]
            BY <2>0, <3>1 DEF PoolStarts, Working, Own, TypeOK, Pool
        <3>2. ASSUME NEW left, WorksOn(d, left), e = d => Working(e)' \subseteq left
              PROVE  forfeited[e] \cap Working(e)' \subseteq forfeited'[e]
            BY <3>2 DEF WorksOn, TypeOK
        <3>3. ASSUME NEW l \in Lanes, PoolEndsLane(d, l)
              PROVE  /\ Working(e)' \subseteq Working(e)
                     /\ forfeited[e] \cap Working(e)' \subseteq forfeited'[e]
            <4> DEFINE left == pools[d].queue \cup (pools[d].busy \ {l}) \cup orphans[d]
            <4>1. Working(e)' \subseteq Working(e) /\ (e = d => Working(e)' \subseteq left)
                BY <2>0, <3>3 DEF PoolEndsLane, Working, Own, TypeOK, Pool
            <4>2. WorksOn(d, left)
                BY <3>3 DEF PoolEndsLane
            <4> HIDE DEF left
            <4> QED
                BY <3>2, <4>1, <4>2
        <3>4. CASE PoolExits(d)
            <4>1. Working(e)' \subseteq Working(e) /\ (e = d => Working(e)' \subseteq orphans[d])
                BY <2>0, <3>4 DEF PoolExits, Working, Own, TypeOK, Pool, Client
            <4>2. WorksOn(d, orphans[d])
                BY <3>4 DEF PoolExits
            <4> QED
                BY <3>2, <4>1, <4>2
        <3>5. CASE Crash(d)
            <4>1. PICK left \in {{}} \cup {Own(f) \cup orphans[f] : f \in Outlived \cap {d}} :
                      orphans' = [orphans EXCEPT ![d] = left] /\ WorksOn(d, left)
                BY <3>5 DEF Crash
            <4>2. left \subseteq Own(d) \cup orphans[d]
                BY <4>1
            <4>3. /\ clients' = [clients EXCEPT ![d] = IdleClient("off")]
                  /\ pools' = [pools EXCEPT ![d].queue = {}]
                BY <3>5 DEF Crash
            <4>4. Own(d)' = {} /\ (e # d => Own(e)' = Own(e))
                BY <4>3 DEF Own, IdleClient, TypeOK
            <4>5. orphans'[d] = left /\ (e # d => orphans'[e] = orphans[e])
                BY <4>1 DEF TypeOK
            <4>6. Working(e)' \subseteq Working(e) /\ (e = d => Working(e)' \subseteq left)
                BY <4>2, <4>4, <4>5 DEF Working
            <4> QED
                BY <3>2, <4>1, <4>6
        <3>6. ASSUME NEW l \in Lanes, OrphanEndsLane(d, l)
              PROVE  /\ Working(e)' \subseteq Working(e)
                     /\ forfeited[e] \cap Working(e)' \subseteq forfeited'[e]
            <4>1. Own(e)' = Own(e)
                BY <2>0, <3>6 DEF OrphanEndsLane, Own, TypeOK, Pool
            <4>2. orphans'[e] \subseteq orphans[e] /\ (e = d => orphans'[e] = orphans[d] \ {l})
                BY <3>6 DEF OrphanEndsLane, TypeOK
            <4>3. /\ Working(e)' \subseteq Working(e)
                  /\ e = d => Working(e)' \subseteq Own(d) \cup (orphans[d] \ {l})
                BY <4>1, <4>2 DEF Working
            <4>4. WorksOn(d, Own(d) \cup (orphans[d] \ {l}))
                BY <3>6 DEF OrphanEndsLane
            <4> QED
                BY <3>2, <4>3, <4>4
        <3>7. CASE OrphansDie(d)
            <4>1. Own(e)' = Own(e)
                <5>1. PICK listed \in Listed(d) : pools' = [pools EXCEPT ![d].busy =
                                                IF clients[d].pc = "run" THEN @ ELSE listed]
                    BY <3>7 DEF OrphansDie
                <5>2. /\ clients' = clients
                      /\ clients[e].pc = "run" => pools'[e] = pools[e]
                    BY <2>0, <3>7, <5>1 DEF OrphansDie, TypeOK, Pool
                <5> QED
                    BY <5>2 DEF Own
            <4>2. orphans'[e] \subseteq orphans[e] /\ (e = d => orphans'[e] = {})
                BY <3>7 DEF OrphansDie, TypeOK
            <4>3. Working(e)' \subseteq Working(e) /\ (e = d => Working(e)' \subseteq Own(d))
                BY <4>1, <4>2 DEF Working
            <4>4. WorksOn(d, Own(d))
                BY <3>7 DEF OrphansDie
            <4> QED
                BY <3>2, <4>3, <4>4
        <3>8. CASE Restart(d)
            BY <2>0, <3>8 DEF Restart, Working, Own, TypeOK, Client
        <3>9. ASSUME NEW l \in Lanes, SidecarAges(d) \/ Consolidate(d, l)
              PROVE  Working(e)' \subseteq Working(e) /\ forfeited'[e] = forfeited[e]
            BY <3>9 DEF SidecarAges, Consolidate, Working, Own
        <3>10. CASE SidecarAges(d)
            BY <3>10 DEF SidecarAges, Working, Own
        <3> QED
            BY <1>3, <3>1, <3>3, <3>4, <3>5, <3>6, <3>7, <3>8, <3>9, <3>10 DEF DeviceStep
    <2> QED
        BY <2>1, <2>2, LocalKeeps
<1>4. CASE CoordinatorStep
    <2>1. clients' = clients /\ pools' = pools /\ orphans' = orphans
        BY <1>4 DEF CoordinatorStep, BuildBeat, StaleSubordinate, HandleBeat, LoseBeat, HandleLate,
            LoseLate, Reconcile, Unreadable, Tick
    <2>2. \A d \in Devices : Working(d)' = Working(d)
        BY <2>1 DEF Working, Own
    <2>3. Forfeit \/ (records' = records /\ forfeited' = forfeited)
        BY <1>4 DEF CoordinatorStep, BuildBeat, StaleSubordinate, HandleBeat, LoseBeat, HandleLate,
            LoseLate, Reconcile, Unreadable, Tick
    <2> QED
        BY <2>2, <2>3, ForfeitKeeps, LocalKeeps DEF Holder, Leased
<1> QED
    BY <1>1, <1>2, <1>3, <1>4 DEF Next

\* Two devices work on one lane only after one of them lost its lease while it worked.
THEOREM SharedSafe == Spec => []SharedOnlyIfForfeited
<1>1. Init => HeldOrForfeited
    BY DEF Init, HeldOrForfeited, Working, Own, IdleClient
<1>2. ASSUME TypeOK, HeldOrForfeited
      PROVE  SharedOnlyIfForfeited
    BY <1>2 DEF HeldOrForfeited, SharedOnlyIfForfeited
<1> QED
    BY <1>1, <1>2, HeldNext, TypeCorrect, InitOwned, NextOwned, PTL DEF Spec

----------------------------------------------------------------------------
\* What is recorded done has a ZIP, because what is under way says done only of lanes that
\* had one when it was sent, and ZIPs stay.

BeatsTrue == \A m \in beats : m.done \subseteq zips[m.device]
LateTrue == \A c \in late : c.op = "finish" => c.lane \in zips[c.device]

ZipBehindDone == DoneHasZip /\ BeatsTrue /\ LateTrue

HasZip(l) == \E d \in Devices : l \in zips[d]

\* A writer's records call done what was done or has a ZIP.
DoneFrom(new) ==
    \A l \in Lanes : new[l].status = "done" => records[l].status = "done" \/ HasZip(l)

LEMMA MarkDoneFrom ==
    ASSUME NEW l \in Lanes, l \in zips[Local]
    PROVE  HasZip(l)
    BY LedgerAssumption DEF HasZip

LEMMA DroppedFrom ==
    ASSUME TypeOK, NEW l \in Lanes, Dropped(l).status = "done"
    PROVE  records[l].status = "done" \/ HasZip(l)
<1>1. CASE l \in zips[Local]
    BY <1>1, MarkDoneFrom
<1>2. CASE l \notin zips[Local]
    <2>1. Dropped(l) = [records[l] EXCEPT !.status = "released", !.beat = FALSE]
        BY <1>2 DEF Dropped
    <2>2. records[l] \in Record
        BY DEF TypeOK
    <2>3. Dropped(l).status = "released"
        BY <2>1, <2>2 DEF Record
    <2> QED
        BY <2>3
<1> QED
    BY <1>1, <1>2

LEMMA WritersFrom ==
    ASSUME TypeOK, NEW d \in Devices
    PROVE  /\ DoneFrom(records)
           /\ DoneFrom(AfterClaim(d))
           /\ \A S : DoneFrom(AfterHeartbeat(d, S))
           /\ \A keep, only : DoneFrom(AfterReleaseInactive(d, keep, only))
           /\ DoneFrom(AfterReconcile) /\ DoneFrom(NoRecords) /\ DoneFrom(AfterTick)
<1>1. DoneFrom(AfterClaim(d))
    BY MarkDoneFrom DEF DoneFrom, AfterClaim, ClaimRecord
<1>2. ASSUME NEW S, NEW l \in Lanes, AfterHeartbeat(d, S)[l].status = "done"
      PROVE  records[l].status = "done"
    <2>1. records[l] \in Record
        BY DEF TypeOK
    <2> QED
        BY <1>2, <2>1 DEF AfterHeartbeat, Record
<1>3. ASSUME NEW keep, NEW only, NEW l \in Lanes,
             AfterReleaseInactive(d, keep, only)[l].status = "done"
      PROVE  records[l].status = "done" \/ HasZip(l)
    BY <1>3, DroppedFrom DEF AfterReleaseInactive
<1>4. DoneFrom(AfterReconcile)
    BY MarkDoneFrom DEF DoneFrom, AfterReconcile
<1>5. DoneFrom(NoRecords)
    BY DEF DoneFrom, NoRecords, NoRecord
<1>6. ASSUME NEW l \in Lanes, AfterTick[l].status = "done"
      PROVE  records[l].status = "done"
    <2>1. records[l] \in Record
        BY DEF TypeOK
    <2> QED
        BY <1>6, <2>1 DEF AfterTick, Record
<1> QED
    BY <1>1, <1>2, <1>3, <1>4, <1>5, <1>6 DEF DoneFrom

LEMMA FinishFrom ==
    ASSUME TypeOK, NEW d \in Devices, NEW l \in Lanes
    PROVE  /\ HasZip(l) => DoneFrom(AfterFinish(d, l))
           /\ DoneFrom(AfterFail(d, l))
<1>1. ASSUME NEW st, NEW m \in Lanes,
             [records EXCEPT ![l].status = st, ![l].device = d, ![l].beat = FALSE][m].status = "done"
      PROVE  records[m].status = "done" \/ (m = l /\ st = "done")
    <2>1. records \in [Lanes -> Record] /\ records[m] \in Record /\ records[l] \in Record
        BY DEF TypeOK
    <2>2. CASE m = l
        BY <1>1, <2>1, <2>2 DEF Record
    <2>3. CASE m # l
        BY <1>1, <2>1, <2>3
    <2> QED
        BY <2>2, <2>3
<1> QED
    BY <1>1 DEF DoneFrom, AfterFinish, AfterFail

LEMMA ImportFrom ==
    ASSUME TypeOK, NEW d \in Devices, NEW done, NEW active, done \subseteq zips[d]
    PROVE  DoneFrom(AfterImport(d, done, active))
<1> SUFFICES ASSUME NEW l \in Lanes, AfterImport(d, done, active)[l].status = "done"
             PROVE  records[l].status = "done" \/ HasZip(l)
    BY DEF DoneFrom
<1>1. CASE l \in done
    BY <1>1 DEF HasZip
<1>2. CASE l \notin done /\ l \in active
    BY <1>2 DEF AfterImport, ImportActive
<1>3. CASE l \notin done /\ l \notin active
    BY <1>3, DroppedFrom DEF AfterImport
<1> QED
    BY <1>1, <1>2, <1>3

\* Each step writes such records, and no ZIP goes away.
LEMMA StepFrom ==
    ASSUME TypeOK, ZipBehindDone, [Next]_vars
    PROVE  /\ DoneFrom(records')
           /\ \A d \in Devices : zips[d] \subseteq zips'[d]
<1>0. DoneFrom(records)
    BY DEF DoneFrom
<1>1. ASSUME NEW d \in Devices, ClientStep(d)
      PROVE  DoneFrom(records') /\ zips' = zips
    <2>1. CASE Claim(d) \/ ClaimTimesOut(d) \/ Begin(d) \/ Heartbeat(d)
        BY <1>0, <2>1, WritersFrom DEF Claim, ClaimTimesOut, Begin, Heartbeat
    <2>2. ASSUME NEW l \in Lanes, ReportEarly(d, l)
          PROVE  DoneFrom(records') /\ zips' = zips
        BY <1>0, <2>2, FinishFrom DEF ReportEarly, HasZip
    <2>3. ASSUME NEW l \in Lanes, ReportLane(d, l)
          PROVE  DoneFrom(records') /\ zips' = zips
        BY <1>0, <2>3, FinishFrom DEF ReportLane, AfterReport, ReportOp, HasZip
    <2> QED
        BY <1>1, <2>1, <2>2, <2>3 DEF ClientStep
<1>2. ASSUME NEW d \in Devices, DeviceStep(d)
      PROVE  records' = records /\ \A e \in Devices : zips[e] \subseteq zips'[e]
    <2>1. records' = records
        BY <1>2 DEF DeviceStep, PoolStarts, PoolEndsLane, Consolidate, PoolExits, Crash, OrphanEndsLane,
            OrphansDie, Restart,
            SidecarAges
    <2>2. \/ zips' = zips
          \/ \E e \in Devices, l \in Lanes : zips' = [zips EXCEPT ![e] = @ \cup {l}]
        BY <1>2, LedgerAssumption DEF DeviceStep, PoolStarts, PoolEndsLane, Consolidate, PoolExits,
            Crash, OrphanEndsLane, OrphansDie, Restart, SidecarAges
    <2> QED
        BY <2>1, <2>2 DEF TypeOK
<1>3. ASSUME CoordinatorStep
      PROVE  DoneFrom(records') /\ zips' = zips
    <2>1. ASSUME NEW m \in beats, HandleBeat(m) \/ LoseBeat(m)
          PROVE  DoneFrom(records') /\ zips' = zips
        <3>1. m.device \in Devices /\ m.done \subseteq zips[m.device] /\ Local \in Devices
            BY LedgerAssumption DEF TypeOK, Beat, ZipBehindDone, BeatsTrue
        <3> QED
            BY <1>0, <2>1, <3>1, WritersFrom, ImportFrom DEF HandleBeat, LocalSync, LoseBeat
    <2>2. ASSUME NEW c \in late, HandleLate(c) \/ LoseLate(c)
          PROVE  DoneFrom(records') /\ zips' = zips
        <3>1. c \in Call /\ c.op \in {"claim", "finish", "fail"} /\ c.device \in Devices
            BY DEF TypeOK, Call
        <3>2. CASE LoseLate(c)
            BY <1>0, <3>2 DEF LoseLate
        <3>3. CASE HandleLate(c) /\ c.op = "claim"
            BY <3>1, <3>3, WritersFrom DEF HandleLate
        <3>4. CASE HandleLate(c) /\ c.op = "finish"
            <4>1. c.lane \in Lanes /\ HasZip(c.lane)
                BY <3>1, <3>4 DEF Call, ZipBehindDone, LateTrue, HasZip
            <4> QED
                BY <1>0, <3>1, <3>4, <4>1, FinishFrom DEF HandleLate
        <3>5. CASE HandleLate(c) /\ c.op = "fail"
            <4>1. c.lane \in Lanes
                BY <3>1, <3>5 DEF Call
            <4> QED
                BY <1>0, <3>1, <3>5, <4>1, FinishFrom DEF HandleLate
        <3> QED
            BY <2>2, <3>1, <3>2, <3>3, <3>4, <3>5
    <2>3. ASSUME NEW d \in Devices, BuildBeat(d) \/ StaleSubordinate(d)
          PROVE  DoneFrom(records') /\ zips' = zips
        BY <1>0, <2>3, WritersFrom DEF BuildBeat, StaleSubordinate
    <2>4. CASE Reconcile \/ Unreadable \/ Tick
        BY <2>4, WritersFrom, LedgerAssumption DEF Reconcile, Unreadable, Tick
    <2> QED
        BY <1>3, <2>1, <2>2, <2>3, <2>4 DEF CoordinatorStep
<1> QED
    BY <1>0, <1>1, <1>2, <1>3 DEF Next, vars

\* What joins what is under way is true when it does.
LEMMA UnderWayTrue ==
    ASSUME TypeOK, ZipBehindDone, [Next]_vars
    PROVE  BeatsTrue' /\ LateTrue'
<1>1. \A d \in Devices : zips[d] \subseteq zips'[d]
    BY StepFrom
<1>2. \A m \in beats' : m \in beats \/ (m.device \in Devices /\ m.done = zips[m.device])
    <2>1. ASSUME NEW d \in Devices, ClientStep(d) \/ DeviceStep(d)
          PROVE  beats' = beats
        BY <2>1 DEF ClientStep, DeviceStep, Claim, ClaimTimesOut, Begin, Heartbeat, ReportEarly,
            ReportLane, PoolStarts, PoolEndsLane, Consolidate, PoolExits, Crash,
        OrphanEndsLane, OrphansDie, Restart, SidecarAges
    <2>2. ASSUME NEW d \in Devices, BuildBeat(d)
          PROVE  \A m \in beats' : m \in beats \/ (m.device \in Devices /\ m.done = zips[m.device])
        BY <2>2 DEF BuildBeat
    <2>3. CASE CoordinatorStep /\ ~\E d \in Devices : BuildBeat(d)
        BY <2>3 DEF CoordinatorStep, StaleSubordinate, HandleBeat, LoseBeat, HandleLate, LoseLate,
            Reconcile, Unreadable, Tick
    <2> QED
        BY <2>1, <2>2, <2>3 DEF Next, vars
<1>3. \A c \in late' : \/ c \in late
                       \/ c.device \in Devices /\ (c.op = "finish" => c.lane \in zips[c.device])
    <2> DEFINE Sent(c) == c.device \in Devices /\ (c.op = "finish" => c.lane \in zips[c.device])
    <2>1. ASSUME NEW d \in Devices, ClientStep(d)
          PROVE  \A c \in late' : c \in late \/ Sent(c)
        <3>1. CASE Claim(d) \/ Begin(d) \/ Heartbeat(d)
            BY <3>1 DEF Claim, Begin, Heartbeat
        <3>2. CASE ClaimTimesOut(d)
            BY <3>2 DEF ClaimTimesOut, TimeOut
        <3>3. ASSUME NEW l \in Lanes, ReportEarly(d, l)
              PROVE  \A c \in late' : c \in late \/ Sent(c)
            <4>1. l \in zips[d]
                BY <3>3 DEF ReportEarly
            <4>2. late' = late \/ late' = late \cup {[op |-> "finish", device |-> d, lane |-> l]}
                BY <3>3 DEF ReportEarly, TimeOut
            <4> QED
                BY <4>1, <4>2
        <3>4. ASSUME NEW l \in Lanes, ReportLane(d, l)
              PROVE  \A c \in late' : c \in late \/ Sent(c)
            <4>1. \/ late' = late
                  \/ late' = late \cup {[op |-> ReportOp(d, l), device |-> d, lane |-> l]}
                BY <3>4 DEF ReportLane, TimeOut
            <4> QED
                BY <4>1 DEF ReportOp
        <3> QED
            BY <2>1, <3>1, <3>2, <3>3, <3>4 DEF ClientStep
    <2>2. ASSUME NEW d \in Devices, DeviceStep(d)
          PROVE  late' = late
        BY <2>2 DEF DeviceStep, PoolStarts, PoolEndsLane, Consolidate, PoolExits, Crash, OrphanEndsLane,
            OrphansDie, Restart,
            SidecarAges
    <2>3. CASE CoordinatorStep
        BY <2>3 DEF CoordinatorStep, BuildBeat, StaleSubordinate, HandleBeat, LoseBeat, HandleLate,
            LoseLate, Reconcile, Unreadable, Tick
    <2> QED
        BY <2>1, <2>2, <2>3 DEF Next, vars
<1>4. /\ \A m \in beats : m.device \in Devices
      /\ \A c \in late : c.device \in Devices
    BY DEF TypeOK, Beat, Call
<1> QED
    BY <1>1, <1>2, <1>3, <1>4 DEF ZipBehindDone, BeatsTrue, LateTrue

LEMMA ZipNext ==
    ASSUME TypeOK, ZipBehindDone, [Next]_vars
    PROVE  ZipBehindDone'
    BY StepFrom, UnderWayTrue DEF ZipBehindDone, DoneHasZip, DoneFrom, HasZip

\* No lane is recorded done without a ZIP, whatever was late, lost or carried out twice.
THEOREM DoneSafe == Spec => []DoneHasZip
<1>1. Init => ZipBehindDone
    BY DEF Init, NoRecords, NoRecord, ZipBehindDone, DoneHasZip, BeatsTrue, LateTrue
<1> QED
    BY <1>1, ZipNext, TypeCorrect, PTL DEF Spec, ZipBehindDone

----------------------------------------------------------------------------
\* What a device that stopped can still be given: for device d, what a step may do to one
\* lane's record r, written as s, when it does not serve d.

Fades(d, r, s) == HolderOf(s) = d => HolderOf(r) = d /\ s.lease <= r.lease

AllFade(d, new) == \A l \in Lanes : Fades(d, records[l], new[l])

\* A device that is off, with nothing of it under way.
Quiet(d) ==
    /\ clients[d].pc = "off" /\ d \notin panels
    /\ \A m \in beats : m.device # d
    /\ \A c \in late : c.device # d

\* The client of a device only calls while it runs.
LEMMA CallersRun ==
    ASSUME NEW d, ClientStep(d)
    PROVE  clients[d].pc # "off"
    BY DEF ClientStep, Claim, ClaimTimesOut, Begin, Heartbeat, ReportEarly, ReportLane

LEMMA SameFades ==
    ASSUME NEW d, NEW r \in Record
    PROVE  Fades(d, r, r)
<1>1. r.lease \in Int
    BY LongerTyped DEF Record
<1> QED
    BY <1>1 DEF Fades

LEMMA ReleasedFades ==
    ASSUME NEW d \in Devices, NEW r, NEW s, s.status # "active"
    PROVE  Fades(d, r, s)
    BY LedgerAssumption DEF Fades, HolderOf, Leased

LEMMA OtherFades ==
    ASSUME NEW d \in Devices, NEW r, NEW s, s.device # d
    PROVE  Fades(d, r, s)
    BY LedgerAssumption DEF Fades, HolderOf

LEMMA MarkDoneFades ==
    ASSUME NEW d \in Devices, NEW r \in Record
    PROVE  Fades(d, r, MarkDone(r))
<1>1. MarkDone(r).status = "done"
    BY DEF MarkDone, Record
<1> QED
    BY <1>1, ReleasedFades

LEMMA DroppedFades ==
    ASSUME TypeOK, NEW d \in Devices, NEW l \in Lanes
    PROVE  Fades(d, records[l], Dropped(l))
<1>1. records[l] \in Record
    BY DEF TypeOK
<1>2. Dropped(l).status \in {"done", "released"}
    BY <1>1 DEF Dropped, MarkDone, Record
<1> QED
    BY <1>2, ReleasedFades

\* Claims, heartbeats and imports of another device.
LEMMA ServingFades ==
    ASSUME TypeOK, NEW d \in Devices, NEW e \in Devices, e # d
    PROVE  /\ AllFade(d, AfterClaim(e))
           /\ \A S : AllFade(d, AfterHeartbeat(e, S))
           /\ \A done, active : AllFade(d, AfterImport(e, done, active))
<1>1. ASSUME NEW l \in Lanes PROVE Fades(d, records[l], AfterClaim(e)[l])
    <2>1. records[l] \in Record
        BY DEF TypeOK
    <2>2. Fades(d, records[l], ClaimRecord(e))
        BY OtherFades DEF ClaimRecord
    <2> QED
        BY <2>1, <2>2, SameFades, MarkDoneFades DEF AfterClaim
<1>2. ASSUME NEW S, NEW l \in Lanes PROVE Fades(d, records[l], AfterHeartbeat(e, S)[l])
    <2>1. records[l] \in Record
        BY DEF TypeOK
    <2>2. CASE l \in S /\ records[l].device = e /\ records[l].status = "active"
        <3>1. AfterHeartbeat(e, S)[l] = [records[l] EXCEPT !.lease = Lease]
            BY <2>2 DEF AfterHeartbeat
        <3>2. AfterHeartbeat(e, S)[l].device = e
            BY <2>1, <2>2, <3>1 DEF Record
        <3> QED
            BY <3>2, OtherFades
    <2>3. CASE ~(l \in S /\ records[l].device = e /\ records[l].status = "active")
        <3>1. AfterHeartbeat(e, S)[l] = records[l]
            BY <2>3 DEF AfterHeartbeat
        <3> QED
            BY <2>1, <3>1, SameFades
    <2> QED
        BY <2>2, <2>3
<1>3. ASSUME NEW done, NEW active, NEW l \in Lanes
      PROVE  Fades(d, records[l], AfterImport(e, done, active)[l])
    <2>1. records[l] \in Record
        BY DEF TypeOK
    <2>2. Fades(d, records[l], ImportDone(e, l))
        <3>1. [records[l] EXCEPT !.status = "done", !.device = e, !.beat = FALSE].device = e
            BY <2>1 DEF Record
        <3>2. Fades(d, records[l], [records[l] EXCEPT !.status = "done", !.device = e, !.beat = FALSE])
            BY <3>1, OtherFades
        <3> QED
            BY <2>1, <3>2, SameFades, MarkDoneFades DEF ImportDone
    <2>3. Fades(d, records[l], ImportActive(e, l))
        <3> DEFINE s == [status |-> "active", device |-> e, beat |-> TRUE,
                         lease |-> Longer(records[l].lease, BeatLease)]
        <3>1. Fades(d, records[l], s)
            BY OtherFades
        <3>2. ImportActive(e, l) \in {records[l], s}
            BY DEF ImportActive
        <3> HIDE DEF s
        <3> QED
            BY <2>1, <3>1, <3>2, SameFades
    <2> QED
        BY <2>1, <2>2, <2>3, SameFades, DroppedFades DEF AfterImport
<1> QED
    BY <1>1, <1>2, <1>3 DEF AllFade

\* Reports, releases, the coordinator's own steps and time, whomever they are for.
LEMMA EndingFades ==
    ASSUME TypeOK, NEW d \in Devices
    PROVE  /\ \A e \in Devices, l \in Lanes : AllFade(d, AfterFinish(e, l)) /\ AllFade(d, AfterFail(e, l))
           /\ \A e, keep, only : AllFade(d, AfterReleaseInactive(e, keep, only))
           /\ AllFade(d, AfterReconcile) /\ AllFade(d, NoRecords) /\ AllFade(d, AfterTick)
           /\ AllFade(d, records)
<1>0. records \in [Lanes -> Record]
    BY DEF TypeOK
<1>1. ASSUME NEW e \in Devices, NEW l \in Lanes, NEW m \in Lanes
      PROVE  /\ Fades(d, records[m], AfterFinish(e, l)[m])
             /\ Fades(d, records[m], AfterFail(e, l)[m])
    <2>1. CASE m = l
        <3>1. ASSUME NEW st \in {"done", "failed"}
              PROVE  [records EXCEPT ![l].status = st, ![l].device = e, ![l].beat = FALSE][m].status
                         = st
            BY <1>0, <2>1 DEF Record
        <3>2. AfterFinish(e, l)[m].status = "done" /\ AfterFail(e, l)[m].status = "failed"
            BY <3>1 DEF AfterFinish, AfterFail
        <3> QED
            BY <3>2, ReleasedFades
    <2>2. CASE m # l
        <3>1. AfterFinish(e, l)[m] = records[m] /\ AfterFail(e, l)[m] = records[m]
            BY <1>0, <2>2 DEF AfterFinish, AfterFail
        <3> QED
            BY <1>0, <3>1, SameFades
    <2> QED
        BY <2>1, <2>2
<1>2. ASSUME NEW e, NEW keep, NEW only, NEW l \in Lanes
      PROVE  Fades(d, records[l], AfterReleaseInactive(e, keep, only)[l])
    BY <1>0, SameFades, DroppedFades DEF AfterReleaseInactive
<1>3. ASSUME NEW l \in Lanes
      PROVE  /\ Fades(d, records[l], AfterReconcile[l])
             /\ Fades(d, records[l], NoRecords[l])
             /\ Fades(d, records[l], AfterTick[l])
             /\ Fades(d, records[l], records[l])
    <2>1. records[l] \in Record /\ Fades(d, records[l], records[l])
        BY <1>0, SameFades
    <2>2. Fades(d, records[l], AfterReconcile[l])
        BY <2>1, MarkDoneFades DEF AfterReconcile
    <2>3. Fades(d, records[l], NoRecords[l])
        BY ReleasedFades DEF NoRecords, NoRecord
    <2>4. Fades(d, records[l], AfterTick[l])
        <3>1. records[l].lease \in Nat
            BY <2>1, LongerTyped DEF Record
        <3>2. /\ AfterTick[l].status = records[l].status
              /\ AfterTick[l].device = records[l].device
              /\ AfterTick[l].lease = IF records[l].lease > 0 THEN records[l].lease - 1 ELSE 0
            BY <2>1 DEF AfterTick, Record
        <3>3. AfterTick[l].lease <= records[l].lease /\ (AfterTick[l].lease > 0 => records[l].lease > 0)
            BY <3>1, <3>2
        <3> QED
            BY <3>2, <3>3, LedgerAssumption DEF Fades, HolderOf, Leased
    <2> QED
        BY <2>1, <2>2, <2>3, <2>4
<1> QED
    BY <1>1, <1>2, <1>3 DEF AllFade

\* No step gives a quiet device a lane, or more time for one.
LEMMA StepFades ==
    ASSUME TypeOK, NEW d \in Devices, Quiet(d), [Next]_vars
    PROVE  AllFade(d, records')
<1>1. CASE records' = records
    BY <1>1, EndingFades
<1>2. ASSUME NEW e \in Devices, ClientStep(e)
      PROVE  AllFade(d, records')
    <2>1. e # d
        BY <1>2, CallersRun DEF Quiet
    <2>2. CASE Claim(e)
        BY <2>1, <2>2, ServingFades DEF Claim
    <2>3. CASE ClaimTimesOut(e) \/ Begin(e)
        BY <1>1, <2>3 DEF ClaimTimesOut, Begin
    <2>4. CASE Heartbeat(e)
        BY <2>1, <2>4, ServingFades DEF Heartbeat
    <2>5. ASSUME NEW l \in Lanes, ReportEarly(e, l) \/ ReportLane(e, l)
          PROVE  AllFade(d, records')
        <3>1. records' \in {records, AfterFinish(e, l), AfterFail(e, l)}
            BY <2>5 DEF ReportEarly, ReportLane, AfterReport
        <3> QED
            BY <3>1, EndingFades
    <2> QED
        BY <1>2, <2>2, <2>3, <2>4, <2>5 DEF ClientStep
<1>3. ASSUME NEW e \in Devices, DeviceStep(e)
      PROVE  records' = records
    BY <1>3 DEF DeviceStep, PoolStarts, PoolEndsLane, Consolidate, PoolExits, Crash,
        OrphanEndsLane, OrphansDie, Restart, SidecarAges
<1>4. ASSUME CoordinatorStep
      PROVE  AllFade(d, records')
    <2>1. ASSUME NEW e \in Devices, BuildBeat(e) \/ StaleSubordinate(e)
          PROVE  AllFade(d, records')
        BY <1>1, <2>1, EndingFades DEF BuildBeat, StaleSubordinate
    <2>2. ASSUME NEW m \in beats, HandleBeat(m) \/ LoseBeat(m)
          PROVE  AllFade(d, records')
        <3>1. m.device \in Devices /\ m.device # d
            BY DEF TypeOK, Beat, Quiet
        <3> QED
            BY <1>1, <2>2, <3>1, EndingFades, ServingFades DEF HandleBeat, LocalSync, LoseBeat
    <2>3. ASSUME NEW c \in late, HandleLate(c) \/ LoseLate(c)
          PROVE  AllFade(d, records')
        <3>1. /\ c \in Call /\ c.op \in {"claim", "finish", "fail"}
              /\ c.device \in Devices /\ c.device # d
            BY DEF TypeOK, Call, Quiet
        <3>2. CASE LoseLate(c)
            BY <1>1, <3>2 DEF LoseLate
        <3>3. CASE HandleLate(c) /\ c.op = "claim"
            BY <3>1, <3>3, ServingFades DEF HandleLate
        <3>4. CASE HandleLate(c) /\ c.op # "claim"
            <4>1. c.lane \in Lanes
                BY <3>1, <3>4 DEF Call
            <4>2. records' \in {records, AfterFinish(c.device, c.lane), AfterFail(c.device, c.lane)}
                BY <3>1, <3>4 DEF HandleLate
            <4> QED
                BY <3>1, <4>1, <4>2, EndingFades
        <3> QED
            BY <2>3, <3>2, <3>3, <3>4
    <2>4. CASE Reconcile \/ Unreadable \/ Tick
        BY <2>4, EndingFades DEF Reconcile, Unreadable, Tick
    <2> QED
        BY <1>4, <2>1, <2>2, <2>3, <2>4 DEF CoordinatorStep
<1> QED
    BY <1>1, <1>2, <1>3, <1>4 DEF Next, vars

\* Nothing of a quiet device comes under way until its client is started again.
LEMMA StepQuiet ==
    ASSUME TypeOK, NEW d \in Devices, Quiet(d), clients'[d].pc = "off", [Next]_vars
    PROVE  Quiet(d)'
<1> USE DEF Quiet
<1>1. CASE UNCHANGED <<clients, panels, beats, late>>
    BY <1>1
<1>2. ASSUME NEW e \in Devices, ClientStep(e)
      PROVE  Quiet(d)'
    <2>1. e # d
        BY <1>2, CallersRun
    <2>2. /\ panels' = panels /\ beats' = beats
          /\ \A c \in late' : c \in late \/ c.device = e
        BY <1>2 DEF ClientStep, Claim, ClaimTimesOut, Begin, Heartbeat, ReportEarly, ReportLane, TimeOut
    <2> QED
        BY <2>1, <2>2
<1>3. ASSUME NEW e \in Devices, DeviceStep(e)
      PROVE  Quiet(d)'
    <2>1. /\ beats' = beats /\ late' = late
          /\ \/ panels' \subseteq panels
             \/ Restart(e)
        BY <1>3 DEF DeviceStep, PoolStarts, PoolEndsLane, Consolidate, PoolExits, Crash,
        OrphanEndsLane, OrphansDie, Restart, SidecarAges
    <2>2. CASE Restart(e)
        <3>1. e # d
            <4>1. clients' = [clients EXCEPT ![e].pc = "claim"] /\ clients[e] \in Client
                BY <2>2 DEF Restart, TypeOK
            <4>2. clients'[e].pc = "claim"
                BY <4>1 DEF TypeOK, Client
            <4> QED
                BY <4>2
        <3>2. panels' = panels \cup {e}
            BY <2>2 DEF Restart
        <3> QED
            BY <2>1, <3>1, <3>2
    <2> QED
        BY <2>1, <2>2
<1>4. ASSUME NEW e \in Devices, BuildBeat(e)
      PROVE  Quiet(d)'
    <2>1. e # d
        BY <1>4 DEF BuildBeat
    <2>2. /\ UNCHANGED <<clients, panels, late>>
          /\ \A m \in beats' : m \in beats \/ m.device = e
        BY <1>4 DEF BuildBeat
    <2> QED
        BY <2>1, <2>2
<1>5. ASSUME NEW e \in Devices, StaleSubordinate(e)
      PROVE  Quiet(d)'
    BY <1>1, <1>5 DEF StaleSubordinate
<1>6. ASSUME NEW m \in beats, HandleBeat(m) \/ LoseBeat(m)
      PROVE  Quiet(d)'
    BY <1>6 DEF HandleBeat, LocalSync, LoseBeat
<1>7. ASSUME NEW c \in late, HandleLate(c) \/ LoseLate(c)
      PROVE  Quiet(d)'
    BY <1>7 DEF HandleLate, LoseLate
<1>8. CASE Reconcile \/ Unreadable \/ Tick
    BY <1>1, <1>8 DEF Reconcile, Unreadable, Tick
<1> QED
    BY <1>1, <1>2, <1>3, <1>4, <1>5, <1>6, <1>7, <1>8 DEF Next, CoordinatorStep, vars

\* A device that is off and has nothing under way stays so until its client is started
\* again, and meanwhile gets no lane and no longer lease, whatever the others, a lost
\* file or time do.
QuietOnlyLoses ==
    [][\A d \in Devices : Quiet(d) =>
          /\ clients'[d].pc = "off" => Quiet(d)'
          /\ \A l \in Lanes : HolderOf(records'[l]) = d =>
                 HolderOf(records[l]) = d /\ records'[l].lease <= records[l].lease]_vars

\* The promise of Phase3LaneLedger's docstring, that a crashed subordinate does not
\* own a lane permanently, as far as no fairness is needed: what of DeadHoldNothing is left is that
\* messages arrive or are lost, and that time passes.
THEOREM DeadGainNothing == Spec => QuietOnlyLoses
<1>1. ASSUME TypeOK, [Next]_vars, NEW d \in Devices, Quiet(d)
      PROVE  /\ clients'[d].pc = "off" => Quiet(d)'
             /\ \A l \in Lanes : HolderOf(records'[l]) = d =>
                    HolderOf(records[l]) = d /\ records'[l].lease <= records[l].lease
    BY <1>1, StepFades, StepQuiet DEF AllFade, Fades
<1> DEFINE Loses == \A d \in Devices : Quiet(d) =>
                      /\ clients'[d].pc = "off" => Quiet(d)'
                      /\ \A l \in Lanes : HolderOf(records'[l]) = d =>
                             HolderOf(records[l]) = d /\ records'[l].lease <= records[l].lease
<1>2. TypeOK /\ [Next]_vars => [Loses]_vars
    BY <1>1
<1>3. QuietOnlyLoses <=> [][Loses]_vars
    BY DEF QuietOnlyLoses
<1> HIDE DEF Loses
<1> QED
    BY <1>2, <1>3, TypeCorrect, PTL DEF Spec
=============================================================================
