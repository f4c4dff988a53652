------------------------------ MODULE Lockstep ------------------------------
(***************************************************************************)
(* The link cable between the cores of one process: the lockstep driver of *)
(* gba/sio/lockstep.c under the callbacks of MultiplayerController.cpp,    *)
(* which put core threads to sleep and wake them (WAIT in CoreThread).     *)
(* Every handler holds the controller's mutex from its start to its end,   *)
(* so that each is one action.  The machines run between their events, on  *)
(* threads of their own and at speeds of their own: an event may come at   *)
(* any time, and the time of its own machine it comes at is what it says.  *)
(* The player at seat i has id i - 1; the one at seat 1 is the master.     *)
(* What is sent and the bits of SIOCNT but the ready bit are left out.     *)
(***************************************************************************)
EXTENDS Integers, Sequences, SequencesExt, FiniteSets

CONSTANTS
    MaxPlayers,     \* MAX_GBAS
    LinkModes,      \* of SIO_NORMAL_8, SIO_NORMAL_32 and SIO_MULTI: "normal8", "normal32", "multi"
    Increment,      \* LOCKSTEP_INCREMENT
    Transfer,       \* LOCKSTEP_TRANSFER
    Rest,           \* transferCycles - 1024, by mode
    Alone,          \* the cycles of a transfer with nobody else attached
    Lates,          \* by how many cycles an event may be late
    Parties,        \* bound: who plays, see `party`
    DiffLimit,      \* 2^31: eventDiff is less, and not less than -DiffLimit
    MaxPosted       \* bound: how far the master runs ahead between transfers

ASSUMPTION LockstepAssumption ==
    /\ MaxPlayers \in Nat /\ LinkModes \subseteq {"multi", "normal8", "normal32"}
    /\ Increment \in Nat \ {0} /\ Transfer \in Nat \ {0} /\ Rest \in [LinkModes -> Int]
    /\ Alone \in Nat \ {0} /\ Lates \subseteq Nat
    /\ Parties \subseteq [joins : Nat, modes : SUBSET LinkModes, changes : Nat, leaves : Nat,
                            alone : BOOLEAN]
    /\ DiffLimit \in Nat \ {0} /\ MaxPosted \in Nat

Modes == LinkModes \cup {"gpio"}       \* "gpio": every mode without the driver

Counters == {"multi", "normal"}        \* attachedMulti and attachedNormal

\* Where a mode is counted: both widths of normal mode in the one counter.
Counter(m) == IF m = "multi" THEN "multi" ELSE "normal"

VARIABLES
    players,        \* by seat: node, Player and the machine's side of the cable
    loaded,         \* attachedMulti and attachedNormal
    phase,          \* transferActive
    aborted,        \* abort() was called
    changes,        \* how often a player left its mode, was reset or was late
    leaves,         \* how many left the cable
    overrun,        \* history: a master was unloaded with a wrapped eventDiff
    moved,          \* history: seats changed under a master that waited for them
    party           \* bounds: how many games are started, with which modes, how often they
                    \* may change and leave, and whether one alone in MULTI has events

vars == <<players, loaded, phase, aborted, changes, leaves, overrun, moved, party>>

Off == -1           \* the event is not scheduled
Phases == {"idle", "starting", "started", "finishing", "finished"}

Attached == Len(players)
Seats == 1 .. Attached
Others == Seats \ {1}

\* A player: its port's mode, whether the driver serves the port, and for how many
\* cycles its event is scheduled; nextEvent, eventDiff, the ready bit and
\* transferFinished; awake, cyclesPosted and waitMask; and, as history, whether the
\* master's last wait was for this player and whether eventDiff went over its 32 bits
\* since it was last 0.  Here one whose game was just started: attached, loaded in GPIO
\* and unloaded by the reset of its core.
NewPlayer ==
    [mode |-> "gpio", driver |-> "off", timer |-> Off, next |-> 0, diff |-> 0, ready |-> FALSE,
     finished |-> TRUE, awake |-> TRUE, posted |-> 0, mask |-> {}, with |-> FALSE,
     wrapped |-> FALSE]

\* node->mode: SIO_GPIO unless the driver is loaded.
NodeMode(p) == IF p.driver = "on" THEN p.mode ELSE "gpio"

Init ==
    /\ players = <<>> /\ loaded = [c \in Counters |-> 0] /\ phase = "idle"
    /\ aborted = FALSE /\ changes = 0 /\ leaves = 0
    /\ overrun = FALSE /\ moved = FALSE /\ party \in Parties

----------------------------------------------------------------------------
(* The callbacks of MultiplayerController, on the players they are given.  *)

\* signal: the players of the mask are no longer waited for.
Signal(ps, mask) ==
    LET left == ps[1].mask \ mask
    IN  [ps EXCEPT ![1].mask = left, ![1].awake = @ \/ left = {}]

\* wait: the master sleeps until the players of the mask have signalled.  It would be
\* refused, and the program abort (lockstep.c:368), if the master slept already; but an
\* update is made by a master that runs.
Wait(ps, mask) ==
    [ps EXCEPT ![1].mask = @ \cup mask, ![1].awake = FALSE]

\* A sleeper runs on to where it was told.
WakeAt(p) == [p EXCEPT !.next = IF p.awake THEN @ ELSE @ + p.posted, !.awake = TRUE]

\* addCycles(0, cycles): those whose mode is no higher than SIO_MULTI may run on.
PostToAll(ps, cycles) ==
    [i \in DOMAIN ps |->
        IF i # 1 /\ ps[i].mode \in LinkModes
        THEN WakeAt([ps[i] EXCEPT !.posted = @ + cycles]) ELSE ps[i]]

\* Mutant: the others are given their cycles, but nobody wakes them.
ReleasedSilently(ps, i) ==
    IF i # 1 THEN Signal([ps EXCEPT ![i].posted = 0], {i})
    ELSE [j \in DOMAIN ps |->
            IF j # 1 THEN [ps[j] EXCEPT !.posted = @ + ps[1].diff] ELSE ps[j]]

\* unload: the master no longer waits for a player that leaves; when the master
\* leaves, the others may run on to where it stopped.
Released(ps, i) ==
    IF i # 1 THEN Signal([ps EXCEPT ![i].posted = 0], {i})
    ELSE [j \in DOMAIN ps |->
            IF j # 1 THEN WakeAt([ps[j] EXCEPT !.posted = @ + ps[1].diff]) ELSE ps[j]]

----------------------------------------------------------------------------
(* The driver.                                                             *)

\* What 32 bits hold of a number of cycles.
Int32(x) == ((x + DiffLimit) % (2 * DiffLimit)) - DiffLimit

\* eventDiff += cycles.
Count(p, cycles) ==
    LET sum == p.diff + cycles
    IN  [p EXCEPT !.diff = Int32(sum), !.wrapped = @ \/ Int32(sum) # sum]

\* eventDiff = 0.
Afresh(p) == [p EXCEPT !.diff = 0, !.wrapped = FALSE]

\* Mutant: an event that is called off stays in the machine's list.
CallOffListed(p, left, timer) == IF p.timer = Off THEN p ELSE Count(p, -left)

\* The event is called off with `left` cycles to go.
CallOff(p, left, timer) ==
    [IF p.timer = Off THEN p ELSE Count(p, -left) EXCEPT !.timer = timer]

\* It is called off just after it was scheduled, or just before it is due.  What a
\* player but the master has left nobody reads.
Lefts(i) == IF i # 1 \/ players[i].timer = Off THEN {0} ELSE {0, players[i].timer}

\* GBASIOLockstepNodeUnload
Unloaded(ps, i, left) ==
    LET released == Released([ps EXCEPT ![i] = CallOff(@, left, Off)], i)
    IN  [released EXCEPT ![i].finished = TRUE, ![i].driver = "off", ![i].with = FALSE]

Overrun(i) == overrun \/ (i = 1 /\ players[1].wrapped)

CountOut(p, n) ==
    IF p.mode \in LinkModes THEN [loaded EXCEPT ![Counter(p.mode)] = @ - n] ELSE loaded

\* What _masterUpdate does to its own node, and to the phase.
MasterPhase(p) ==
    CASE phase = "idle" ->
           [p EXCEPT !.next = @ + Increment,
                     !.ready = IF p.mode = "multi" THEN loaded["multi"] = Attached ELSE @]
      [] phase = "starting"  -> [p EXCEPT !.next = @ + Transfer, !.finished = FALSE]
      [] phase = "started"   -> [p EXCEPT !.next = @ + Transfer]
      [] phase = "finishing" -> [p EXCEPT !.next = @ + Rest[p.mode]]
      [] phase = "finished"  -> [p EXCEPT !.next = @ + Increment, !.finished = TRUE]

NextPhase ==
    CASE phase = "idle" -> "idle"           [] phase = "starting" -> "started"
      [] phase = "started" -> "finishing"   [] phase = "finishing" -> "finished"
      [] phase = "finished" -> "idle"

NeedsToWait == phase \in {"starting", "finishing"}

\* The players whose node is in the master's mode.
SameMode == {i \in Others : NodeMode(players[i]) = players[1].mode}

AskedFor(ps, set) == [i \in DOMAIN ps |-> [ps[i] EXCEPT !.with = i \in set]]

\* _masterUpdate, `p` being the master's node with the lateness counted in.
MasterUpdate(p) ==
    LET own  == [players EXCEPT ![1] = MasterPhase(p)]
        told == IF SameMode = {} THEN own
                ELSE IF NeedsToWait THEN Wait(own, SameMode) ELSE Signal(own, SameMode)
    IN  PostToAll(IF NeedsToWait THEN AskedFor(told, SameMode) ELSE told, p.diff)

\* Mutant: the cycles are not compared.
CatchesUpAtOnce(p) == TRUE

\* The player used up the cycles it was given.
CatchesUp(p) == p.posted <= p.diff

\* _slaveUpdate and useCycles.
SlaveUpdate(i, p) ==
    LET given   == IF phase = "idle" /\ loaded[Counter(p.mode)] # Attached THEN p.posted + Increment ELSE p.posted
        acts    == phase \in {"started", "finished"} /\ CatchesUp(p)
        done    == IF acts THEN phase = "finished" ELSE p.finished
        node    == [p EXCEPT !.posted = given - p.diff, !.finished = done,
                             !.awake = given > p.diff,
                             !.ready = IF p.mode = "multi" THEN loaded["multi"] = Attached ELSE @]
        ps      == [players EXCEPT ![i] = node]
    IN  IF acts THEN Signal(ps, {i}) ELSE ps

\* Mutant: the cycles to come are not counted.
RescheduleUncounted(p, cycles) ==
    IF cycles > 0 THEN [p EXCEPT !.next = 0, !.timer = cycles] ELSE [Count(p, 1) EXCEPT !.timer = 1]

\* The end of the event: the next one in `cycles`, or the loop is left at once.
Reschedule(p, cycles) ==
    IF cycles > 0 THEN [Count(p, cycles) EXCEPT !.next = 0, !.timer = cycles]
                  ELSE [Count(p, 1) EXCEPT !.timer = 1]

Running(i) == ~aborted /\ i \in Seats /\ players[i].awake

\* _GBASIOLockstepNodeProcessEvents.  Nobody else on the cable, a player in MULTI is not
\* updated and its eventDiff only grows; when it is negative, the master's update ends
\* in addCycles' abort().
Event(i, late) ==
    LET p == [Count(players[i], late) EXCEPT !.next = @ - late]
        updates == p.next <= 0 /\ (Attached > 1 \/ p.mode # "multi")
    IN  /\ Running(i) /\ players[i].driver = "on" /\ players[i].timer # Off
        /\ Attached < 2 /\ p.mode = "multi" => party.alone
        /\ i = 1 => \A j \in Others : players[j].mode \in LinkModes => players[j].posted <= MaxPosted
        /\ IF ~updates
           THEN /\ LET cycles == IF Attached < 2 /\ p.mode = "multi" THEN Alone ELSE players[i].next
                   IN  players' = [players EXCEPT ![i] = Reschedule(p, cycles)]
                /\ UNCHANGED <<phase, aborted>>
           ELSE IF i = 1 /\ p.diff < 0
           THEN /\ players' = [players EXCEPT ![1] = p] /\ aborted' = TRUE
                /\ UNCHANGED phase
           ELSE IF i = 1
           THEN /\ LET ps == MasterUpdate(p)
                   IN  players' = [ps EXCEPT ![1] =
                                     Reschedule(Afresh(@), IF NeedsToWait THEN 0 ELSE @.next)]
                /\ phase' = NextPhase
                /\ UNCHANGED aborted
           ELSE /\ LET ps == SlaveUpdate(i, p)
                   IN  players' = [ps EXCEPT ![i] = Reschedule(Afresh(@), @.posted)]
                /\ UNCHANGED <<phase, aborted>>
        /\ changes' = changes + late /\ changes' <= party.changes
        /\ UNCHANGED <<loaded, leaves, overrun, moved, party>>

\* The game writes SIOCNT, bit 7 set: GBASIOLockstepNodeMultiWriteRegister and
\* GBASIOLockstepNodeNormalWriteRegister of the master.
StartTransfer(left) ==
    /\ Running(1) /\ players[1].driver = "on" /\ phase = "idle"
    /\ players[1].mode = "multi" => Attached > 1 /\ players[1].ready
    /\ phase' = "starting"
    /\ players' = [players EXCEPT ![1] = CallOff(@, left, 0)]
    /\ UNCHANGED <<loaded, aborted, changes, leaves, overrun, moved, party>>

\* The game changes the mode of its port: _switchMode up to the load.
Switch(i, m, left) ==
    LET p == players[i]
        ps == IF p.driver = "on" THEN Unloaded(players, i, left) ELSE players
    IN  /\ Running(i) /\ p.driver # "load" /\ m \in party.modes \cup {"gpio"} /\ m # p.mode
        /\ changes' = changes + (IF p.driver = "on" THEN 1 ELSE 0) /\ changes' <= party.changes
        /\ players' = [ps EXCEPT ![i].mode = m,
                                 ![i].driver = IF m \in LinkModes THEN "load" ELSE "off"]
        /\ loaded' = IF p.driver = "on" THEN CountOut(p, 1) ELSE loaded
        /\ phase' = IF p.driver = "on" /\ i = 1 THEN "idle" ELSE phase
        /\ overrun' = Overrun(i)
        /\ UNCHANGED <<aborted, leaves, moved, party>>

\* The core is reset, which a thread asleep in WAIT does as well (thread.c:380-421): the
\* machine's events are gone before the driver is unloaded, and the port is in GPIO.  A
\* sleeper that the unloading does not wake stays asleep.
ResetCore(i) ==
    LET p == players[i]
    IN  /\ ~aborted /\ i \in Seats /\ p.driver = "on"
        /\ changes < party.changes /\ changes' = changes + 1
        /\ players' = [Unloaded([players EXCEPT ![i].timer = Off], i, 0) EXCEPT ![i].mode = "gpio"]
        /\ loaded' = CountOut(p, 1)
        /\ phase' = IF i = 1 THEN "idle" ELSE phase
        /\ overrun' = Overrun(i)
        /\ UNCHANGED <<aborted, leaves, moved, party>>

\* GBASIOLockstepNodeLoad
Load(i) ==
    /\ Running(i) /\ players[i].driver = "load"
    /\ LET m == players[i].mode
       IN  /\ loaded' = [loaded EXCEPT ![Counter(m)] = @ + 1]
           /\ players' = [players EXCEPT ![i] = Afresh(@), ![i].driver = "on", ![i].timer = 0,
                            ![i].next = 0,
                            ![i].ready = IF m = "multi" THEN loaded'["multi"] = Attached ELSE @]
    /\ UNCHANGED <<phase, aborted, changes, leaves, overrun, moved, party>>

\* attachGame, on the core's own thread as it starts (CoreController.cpp:167), and the
\* reset of the core that follows it and unloads the driver.
Attach ==
    /\ ~aborted /\ Attached < MaxPlayers /\ Attached + leaves < party.joins
    /\ players' = Released(Append(players, NewPlayer), Attached + 1)
    /\ loaded' = IF Attached = 0 THEN [c \in Counters |-> 0] ELSE loaded
    /\ UNCHANGED <<phase, aborted, changes, leaves, overrun, moved, party>>

\* detachGame: with every player interrupted, the driver is taken out of the
\* multiplayer slot and out of the normal slot, and unloaded each time.
Detach(i, left) ==
    /\ ~aborted /\ i \in Seats /\ \A j \in Seats : players[j].driver # "load"
    /\ leaves < party.leaves /\ leaves' = leaves + 1
    /\ players' = RemoveAt(Unloaded(Unloaded(players, i, left), i, 0), i)
    /\ loaded' = CountOut(players[i], 2)
    /\ phase' = IF i = 1 THEN "idle" ELSE phase
    /\ moved' = (moved \/ (i # 1 /\ \E j \in players[1].mask : j > i))
    /\ overrun' = Overrun(i)
    /\ UNCHANGED <<aborted, changes, party>>

SeatEvent(i) == \E late \in Lates : Event(i, late)

Next ==
    \/ \E i \in Seats :
         \/ SeatEvent(i) \/ Load(i) \/ ResetCore(i)
         \/ \E left \in Lefts(i) :
              \/ Detach(i, left)
              \/ \E m \in Modes : Switch(i, m, left)
              \/ i = 1 /\ StartTransfer(left)
    \/ Attach

Spec == Init /\ [][Next]_vars

\* A core thread that is not asleep runs, so that its events come and its loads end.
Fairness ==
    \A i \in 1 .. MaxPlayers : WF_vars(SeatEvent(i)) /\ WF_vars(Load(i))

FairSpec == Spec /\ Fairness

----------------------------------------------------------------------------
(* Properties.                                                             *)

Player ==
    [mode : Modes, driver : {"load", "on", "off"}, timer : Nat \cup {Off}, next : Int,
     diff : Int, ready : BOOLEAN, finished : BOOLEAN, awake : BOOLEAN, posted : Int,
     mask : SUBSET (2 .. MaxPlayers), with : BOOLEAN, wrapped : BOOLEAN]

\* Every variable has its type, no more players attach than there are seats, and a
\* player the driver does not serve has no event.
TypeOK ==
    /\ players \in Seq(Player) /\ Attached <= MaxPlayers
    /\ \A i \in Seats : players[i].driver # "off" => players[i].mode \in LinkModes
    /\ \A i \in Seats : (players[i].driver = "on") <=> (players[i].timer # Off)
    /\ loaded \in [Counters -> Int] /\ phase \in Phases /\ aborted \in BOOLEAN
    /\ party \in Parties /\ changes \in 0 .. party.changes /\ leaves \in 0 .. party.leaves
    /\ overrun \in BOOLEAN /\ moved \in BOOLEAN

\* The master posts a negative number of cycles, which aborts the program
\* (MultiplayerController.cpp:94), only when eventDiff went over its 32 bits since it was
\* last 0 (a player alone in MULTI for 2^31 cycles whom a second one then joins): never
\* by the way its event is called off, moved and late.
NoAbort == aborted => players[1].wrapped

\* "All the other GBAs have caught up and are sleeping" (lockstep.c:339): when the
\* master goes on after a wait, every player it waited for, and that did not leave
\* since, is asleep and did its part of the transfer.  Not claimed once somebody left
\* a seat before another's during a wait: waitMask then has bits of other players.
CaughtUp ==
    [][SeatEvent(1) /\ phase \in {"started", "finished"} /\ phase' # phase /\ ~moved =>
         \A i \in Others : players[i].with =>
            ~players[i].awake /\ players[i].finished = (phase = "finished")]_vars

\* Reset while it slept: the reset unloads the driver and leaves the sleeper asleep.
ResetAsleep(i) == i \in Seats /\ ~players[i].awake /\ players[i].driver = "off"

\* A player that waits for the master, whatever the transfer comes to, whoever comes and
\* goes and whichever core is reset, runs again.  Not one that is itself reset in its
\* sleep, which the posts of the master then pass over; nor after an abort, or after a
\* master gave the others a number of cycles that went over its 32 bits, as unload does
\* unlooked; and with the exception of CaughtUp.
SleepersWake ==
    \A i \in 2 .. MaxPlayers :
        (i \in Seats /\ ~players[i].awake)
            ~> (i \notin Seats \/ players[i].awake \/ ResetAsleep(i) \/ aborted \/ overrun \/ moved)
=============================================================================
