--------------------------- MODULE LockstepProofs ---------------------------
(***************************************************************************)
(* Proofs about Lockstep: types, that the master never posts a negative    *)
(* number of cycles unless its eventDiff went over its 32 bits, and that   *)
(* it goes on only when those it waited for sleep, for any number of       *)
(* players, any cycles and any lateness.  The invariant behind the second: *)
(* a player's eventDiff, until it wraps, covers the cycles its event is    *)
(* away, so that calling the event off never takes it below zero.  Behind  *)
(* the third: Waits, below.  The fourth, that a master that sleeps in its  *)
(* wait, and was not reset there, has somebody running to answer it, rests *)
(* on Runs, near the end.                                                  *)
(***************************************************************************)
EXTENDS Lockstep, SequenceTheorems, TLAPS

SoundPlayer ==
    {p \in Player :
        /\ p.driver # "off" => p.mode \in LinkModes
        /\ (p.driver = "on") <=> (p.timer # Off)
        /\ p.timer # Off => p.wrapped \/ p.diff >= p.timer}

OnPlayer == {p \in SoundPlayer : p.driver = "on"}

\* A player between the calling off of its event and the end of its unload.
CalledOff == {p \in Player : p.timer = Off}

Inv == TypeOK /\ NoAbort /\ players \in Seq(SoundPlayer)

----------------------------------------------------------------------------
\* What the callbacks and the updates may change of a player without leaving a set of players.
Closed(T) ==
    /\ T \subseteq Player
    /\ \A p \in T, x \in Int : [p EXCEPT !.posted = x] \in T
    /\ \A p \in T, x \in Int : [p EXCEPT !.next = x] \in T
    /\ \A p \in T, b \in BOOLEAN : [p EXCEPT !.awake = b] \in T
    /\ \A p \in T, b \in BOOLEAN : [p EXCEPT !.with = b] \in T
    /\ \A p \in T, b \in BOOLEAN : [p EXCEPT !.ready = b] \in T
    /\ \A p \in T, b \in BOOLEAN : [p EXCEPT !.finished = b] \in T
    /\ \A p \in T, m \in SUBSET (2 .. MaxPlayers) : [p EXCEPT !.mask = m] \in T

LEMMA ClosedSets == Closed(SoundPlayer) /\ Closed(OnPlayer) /\ Closed(CalledOff)
<1>1. Closed(SoundPlayer)
    BY DEF Closed, SoundPlayer, Player
<1>2. Closed(OnPlayer)
    BY DEF Closed, OnPlayer, SoundPlayer, Player
<1>3. Closed(CalledOff)
    BY DEF Closed, CalledOff, Player
<1> QED
    BY <1>1, <1>2, <1>3

LEMMA PlayersClosed == Closed(Player)
    BY DEF Closed, Player

LEMMA Int32Type == ASSUME NEW x \in Int PROVE Int32(x) \in Int
<1>1. 2 * DiffLimit \in Nat \ {0}
    BY LockstepAssumption
<1>2. DiffLimit \in Nat /\ x + DiffLimit \in Int
    BY LockstepAssumption
<1>3. \A a \in Int, m \in Nat \ {0} : a % m \in Int
    OBVIOUS
<1>4. (x + DiffLimit) % (2 * DiffLimit) \in Int
    BY <1>1, <1>2, <1>3
<1> QED
    BY <1>2, <1>4 DEF Int32

\* Cycles counted in touch nothing but eventDiff, which is their sum or known to have wrapped.
LEMMA Counted ==
    ASSUME NEW p \in Player, NEW cycles \in Int
    PROVE  /\ Count(p, cycles) \in Player
           /\ Count(p, cycles).wrapped \/ (~p.wrapped /\ Count(p, cycles).diff = p.diff + cycles)
           /\ Count(p, cycles)
                = [p EXCEPT !.diff = Count(p, cycles).diff, !.wrapped = Count(p, cycles).wrapped]
<1> DEFINE q    == Count(p, cycles)
           sum  == p.diff + cycles
           full == p.wrapped \/ Int32(sum) # sum
<1>1. sum \in Int /\ Int32(sum) \in Int /\ full \in BOOLEAN
  <2>1. sum \in Int
      BY DEF Player
  <2> QED
      BY <2>1, Int32Type DEF Player
<1>2. q = [p EXCEPT !.diff = Int32(sum), !.wrapped = full]
    BY DEF Count, Player
<1>3. full \/ (~p.wrapped /\ Int32(sum) = sum)
    OBVIOUS
<1> HIDE DEF q, sum, full
<1>4. q = [[p EXCEPT !.diff = Int32(sum)] EXCEPT !.wrapped = full]
    BY <1>2
<1>5. [p EXCEPT !.diff = Int32(sum)] \in Player
    BY <1>1 DEF Player
<1>6. q \in Player /\ q.diff = Int32(sum) /\ q.wrapped = full
    BY <1>1, <1>2, <1>4, <1>5 DEF Player
<1> QED
    BY <1>2, <1>3, <1>6 DEF q, sum

LEMMA AfreshPlayer ==
    ASSUME NEW p \in Player
    PROVE  /\ Afresh(p) \in Player /\ Afresh(p).diff = 0
           /\ Afresh(p) = [p EXCEPT !.diff = 0, !.wrapped = FALSE]
<1>1. [p EXCEPT !.diff = 0] \in Player
    BY DEF Player
<1>2. Afresh(p) = [[p EXCEPT !.diff = 0] EXCEPT !.wrapped = FALSE]
    BY DEF Afresh
<1> QED
    BY <1>1, <1>2 DEF Afresh, Player

\* Players by seat, each in the set F gives its seat.
Tables(F) == {ps \in [DOMAIN F -> Player] : \A j \in DOMAIN F : ps[j] \in F[j]}

\* The sets of a table are closed, and its seats are 1 .. n.
Fits(F, n) == n \in Nat /\ DOMAIN F = 1 .. n /\ \A j \in 1 .. n : Closed(F[j])

LEMMA SignalTable ==
    ASSUME NEW n, NEW F, Fits(F, n), n >= 1, NEW ps \in Tables(F), NEW mask
    PROVE  Signal(ps, mask) \in Tables(F)
<1> DEFINE left == ps[1].mask \ mask
           woken == ps[1].awake \/ left = {}
<1>1. ps[1] \in F[1] /\ Closed(F[1]) /\ ps[1] \in Player /\ 1 \in 1 .. n
    BY DEF Fits, Tables
<1>2. left \in SUBSET (2 .. MaxPlayers) /\ woken \in BOOLEAN
    BY <1>1 DEF Player
<1>3. [ps[1] EXCEPT !.mask = left] \in F[1]
    BY <1>1, <1>2 DEF Closed
<1>4. [[ps[1] EXCEPT !.mask = left] EXCEPT !.awake = woken] \in F[1]
    BY <1>1, <1>2, <1>3 DEF Closed
<1>5. [[ps[1] EXCEPT !.mask = left] EXCEPT !.awake = woken] = [ps[1] EXCEPT !.mask = left, !.awake = woken]
    BY <1>1 DEF Player
<1>6. Signal(ps, mask) = [ps EXCEPT ![1] = [ps[1] EXCEPT !.mask = left, !.awake = woken]]
    BY <1>1 DEF Signal, Tables, Fits, Player
<1> HIDE DEF left, woken
<1> QED
    BY <1>1, <1>4, <1>5, <1>6 DEF Tables, Fits, Closed

LEMMA WaitTable ==
    ASSUME NEW n, NEW F, Fits(F, n), n >= 1, NEW ps \in Tables(F), NEW mask \in SUBSET (2 .. MaxPlayers)
    PROVE  Wait(ps, mask) \in Tables(F)
<1> DEFINE all == ps[1].mask \cup mask
<1>1. ps[1] \in F[1] /\ Closed(F[1]) /\ ps[1] \in Player /\ 1 \in 1 .. n
    BY DEF Fits, Tables
<1>2. all \in SUBSET (2 .. MaxPlayers)
    BY <1>1 DEF Player
<1>3. [ps[1] EXCEPT !.mask = all] \in F[1]
    BY <1>1, <1>2 DEF Closed
<1>4. [[ps[1] EXCEPT !.mask = all] EXCEPT !.awake = FALSE] \in F[1]
    BY <1>1, <1>3 DEF Closed
<1>5. [[ps[1] EXCEPT !.mask = all] EXCEPT !.awake = FALSE] = [ps[1] EXCEPT !.mask = all, !.awake = FALSE]
    BY <1>1 DEF Player
<1>6. Wait(ps, mask) = [ps EXCEPT ![1] = [ps[1] EXCEPT !.mask = all, !.awake = FALSE]]
    BY <1>1 DEF Wait, Tables, Fits, Player
<1> HIDE DEF all
<1> QED
    BY <1>1, <1>4, <1>5, <1>6 DEF Tables, Fits, Closed

LEMMA AskedTable ==
    ASSUME NEW n, NEW F, Fits(F, n), NEW ps \in Tables(F), NEW set
    PROVE  AskedFor(ps, set) \in Tables(F)
<1> DEFINE asked(j) == [ps[j] EXCEPT !.with = j \in set]
<1>1. \A j \in 1 .. n : asked(j) \in F[j] /\ asked(j) \in Player
  <2>1. \A j \in 1 .. n : (j \in set) \in BOOLEAN
      OBVIOUS
  <2> QED
      BY <2>1 DEF Tables, Fits, Closed
<1>2. AskedFor(ps, set) = [j \in 1 .. n |-> asked(j)]
    BY DEF AskedFor, Tables, Fits
<1> HIDE DEF asked
<1> QED
    BY <1>1, <1>2 DEF Tables, Fits

\* A player given cycles, and woken if it sleeps, stays in a closed set.
LEMMA GivenAndWoken ==
    ASSUME NEW T, Closed(T), NEW p \in T, NEW cycles \in Int
    PROVE  WakeAt([p EXCEPT !.posted = @ + cycles]) \in T
<1> DEFINE q == [p EXCEPT !.posted = p.posted + cycles]
           at == IF q.awake THEN q.next ELSE q.next + q.posted
<1>1. q \in T
    BY DEF Closed, Player
<1>2. q \in Player /\ at \in Int
    BY <1>1 DEF Closed, Player
<1>3. [q EXCEPT !.next = at] \in T
    BY <1>1, <1>2 DEF Closed
<1>4. [[q EXCEPT !.next = at] EXCEPT !.awake = TRUE] \in T
    BY <1>3 DEF Closed
<1>5. [[q EXCEPT !.next = at] EXCEPT !.awake = TRUE] = [q EXCEPT !.next = at, !.awake = TRUE]
    BY <1>2 DEF Player
<1>6. WakeAt(q) = [q EXCEPT !.next = at, !.awake = TRUE]
    BY <1>2 DEF WakeAt, Player
<1>7. [p EXCEPT !.posted = @ + cycles] = q
    BY DEF Closed, Player
<1> HIDE DEF q, at
<1> QED
    BY <1>4, <1>5, <1>6, <1>7

LEMMA PostTable ==
    ASSUME NEW n, NEW F, Fits(F, n), NEW ps \in Tables(F), NEW cycles \in Int
    PROVE  PostToAll(ps, cycles) \in Tables(F)
<1> DEFINE given(j) == IF j # 1 /\ ps[j].mode \in LinkModes
                       THEN WakeAt([ps[j] EXCEPT !.posted = @ + cycles]) ELSE ps[j]
<1>1. \A j \in 1 .. n : given(j) \in F[j] /\ given(j) \in Player
    BY GivenAndWoken DEF Tables, Fits, Closed
<1>2. PostToAll(ps, cycles) = [j \in 1 .. n |-> given(j)]
    BY DEF PostToAll, Tables, Fits
<1> HIDE DEF given
<1> QED
    BY <1>1, <1>2 DEF Tables, Fits

LEMMA ReleasedTable ==
    ASSUME NEW n, NEW F, Fits(F, n), NEW ps \in Tables(F), NEW i \in 1 .. n
    PROVE  Released(ps, i) \in Tables(F)
<1>1. CASE i # 1
  <2>1. [ps EXCEPT ![i].posted = 0] \in Tables(F)
      <3>1. [ps[i] EXCEPT !.posted = 0] \in F[i] /\ F[i] \subseteq Player
          BY DEF Tables, Fits, Closed
      <3>2. [ps EXCEPT ![i].posted = 0] = [ps EXCEPT ![i] = [ps[i] EXCEPT !.posted = 0]]
          BY DEF Tables, Fits
      <3> QED
          BY <3>1, <3>2 DEF Tables, Fits
  <2>2. n >= 1
      BY DEF Fits
  <2> QED
      BY <1>1, <2>1, <2>2, SignalTable DEF Released
<1>2. CASE i = 1
  <2> DEFINE given(j) == IF j # 1 THEN WakeAt([ps[j] EXCEPT !.posted = @ + ps[1].diff]) ELSE ps[j]
  <2>1. ps[1].diff \in Int
      BY <1>2 DEF Tables, Fits, Player
  <2>2. \A j \in 1 .. n : given(j) \in F[j] /\ given(j) \in Player
      BY <2>1, GivenAndWoken DEF Tables, Fits, Closed
  <2>3. Released(ps, i) = [j \in 1 .. n |-> given(j)]
      BY <1>2 DEF Released, Tables, Fits
  <2> HIDE DEF given
  <2> QED
      BY <2>2, <2>3 DEF Tables, Fits
<1> QED
    BY <1>1, <1>2

----------------------------------------------------------------------------
\* Sequences of players as tables.

Same(n) == [j \in 1 .. n |-> SoundPlayer]

LEMMA SameFits == ASSUME NEW n \in Nat PROVE Fits(Same(n), n)
    BY ClosedSets DEF Same, Fits

LEMMA SeqIsTable ==
    ASSUME NEW ps \in Seq(SoundPlayer)
    PROVE  Len(ps) \in Nat /\ DOMAIN ps = 1 .. Len(ps) /\ ps \in Tables(Same(Len(ps)))
<1>1. Len(ps) \in Nat /\ DOMAIN ps = 1 .. Len(ps) /\ ps \in [1 .. Len(ps) -> SoundPlayer]
    OBVIOUS
<1>2. SoundPlayer \subseteq Player
    BY DEF SoundPlayer
<1> QED
    BY <1>1, <1>2 DEF Tables, Same

LEMMA TableIsSeq ==
    ASSUME NEW n \in Nat, NEW ps \in Tables(Same(n))
    PROVE  ps \in Seq(SoundPlayer) /\ Len(ps) = n
<1>1. ps \in [1 .. n -> SoundPlayer]
    BY DEF Tables, Same
<1> QED
    BY <1>1

LEMMA RemovedSeq ==
    ASSUME NEW S, NEW s \in Seq(S), NEW i \in 1 .. Len(s)
    PROVE  RemoveAt(s, i) \in Seq(S) /\ Len(RemoveAt(s, i)) = Len(s) - 1
<1>1. Len(s) \in Nat /\ \A j \in 1 .. Len(s) : s[j] \in S
    OBVIOUS
<1>2. /\ SubSeq(s, 1, i - 1) \in Seq(S)
      /\ Len(SubSeq(s, 1, i - 1)) = i - 1
  <2>1. \A j \in 1 .. i - 1 : s[j] \in S
      BY <1>1
  <2>2. i - 1 \in Int /\ (IF 1 <= i - 1 THEN i - 1 - 1 + 1 ELSE 0) = i - 1
      BY <1>1
  <2> QED
      BY <2>1, <2>2, SubSeqProperties
<1>3. /\ SubSeq(s, i + 1, Len(s)) \in Seq(S)
      /\ Len(SubSeq(s, i + 1, Len(s))) = Len(s) - i
  <2>1. \A j \in i + 1 .. Len(s) : s[j] \in S
      BY <1>1
  <2>2. i + 1 \in Int /\ (IF i + 1 <= Len(s) THEN Len(s) - (i + 1) + 1 ELSE 0) = Len(s) - i
      BY <1>1
  <2> QED
      BY <1>1, <2>1, <2>2, SubSeqProperties
<1> DEFINE front == SubSeq(s, 1, i - 1)
           back  == SubSeq(s, i + 1, Len(s))
<1>4. RemoveAt(s, i) = front \o back
    BY DEF RemoveAt
<1>5. front \in Seq(S) /\ back \in Seq(S) /\ Len(front) = i - 1 /\ Len(back) = Len(s) - i
    BY <1>2, <1>3
<1> HIDE DEF front, back
<1>6. front \o back \in Seq(S) /\ Len(front \o back) = Len(front) + Len(back)
    BY <1>5, ConcatProperties
<1>7. i - 1 + (Len(s) - i) = Len(s) - 1
    BY <1>1
<1> QED
    BY <1>4, <1>5, <1>6, <1>7

----------------------------------------------------------------------------
\* The driver's updates.

LEMMA PhaseOn ==
    ASSUME phase \in Phases, NEW p \in OnPlayer
    PROVE  MasterPhase(p) \in OnPlayer /\ NextPhase \in Phases
<1>1. p \in Player /\ p.mode \in LinkModes /\ Closed(OnPlayer)
    BY ClosedSets DEF OnPlayer, SoundPlayer
<1>2. /\ Increment \in Int /\ Transfer \in Int /\ Rest[p.mode] \in Int
  <2>1. Increment \in Int /\ Transfer \in Int
      BY LockstepAssumption
  <2>2. Rest \in [LinkModes -> Int]
      BY LockstepAssumption
  <2> QED
      BY <1>1, <2>1, <2>2
<1>3. NextPhase \in Phases
    BY DEF NextPhase, Phases
<1>4. \A x \in Int : [p EXCEPT !.next = @ + x] \in OnPlayer
    BY <1>1 DEF Closed, Player
<1>5. \A x \in Int, b \in BOOLEAN : [p EXCEPT !.next = @ + x, !.finished = b] \in OnPlayer
  <2> SUFFICES ASSUME NEW x \in Int, NEW b \in BOOLEAN
               PROVE  [p EXCEPT !.next = @ + x, !.finished = b] \in OnPlayer
      OBVIOUS
  <2>1. [p EXCEPT !.next = @ + x, !.finished = b] = [[p EXCEPT !.next = @ + x] EXCEPT !.finished = b]
      BY <1>1 DEF Player
  <2> QED
      BY <1>1, <1>4, <2>1 DEF Closed
<1>6. \A x \in Int, b \in BOOLEAN : [p EXCEPT !.next = @ + x, !.ready = b] \in OnPlayer
  <2> SUFFICES ASSUME NEW x \in Int, NEW b \in BOOLEAN
               PROVE  [p EXCEPT !.next = @ + x, !.ready = b] \in OnPlayer
      OBVIOUS
  <2>1. [p EXCEPT !.next = @ + x, !.ready = b] = [[p EXCEPT !.next = @ + x] EXCEPT !.ready = b]
      BY <1>1 DEF Player
  <2> QED
      BY <1>1, <1>4, <2>1 DEF Closed
<1>7. CASE phase = "idle"
  <2> DEFINE b == IF p.mode = "multi" THEN loaded["multi"] = Attached ELSE p.ready
  <2>1. b \in BOOLEAN
      BY <1>1 DEF Player
  <2>2. MasterPhase(p) = [p EXCEPT !.next = @ + Increment, !.ready = b]
      BY <1>1, <1>7 DEF MasterPhase, Player
  <2> HIDE DEF b
  <2> QED
      BY <1>2, <1>3, <1>6, <2>1, <2>2
<1>8. CASE phase = "starting"
  <2>1. MasterPhase(p) = [p EXCEPT !.next = @ + Transfer, !.finished = FALSE]
      BY <1>8 DEF MasterPhase
  <2> QED
      BY <1>2, <1>3, <1>5, <2>1
<1>9. CASE phase = "started"
  <2>1. MasterPhase(p) = [p EXCEPT !.next = @ + Transfer]
      BY <1>9 DEF MasterPhase
  <2> QED
      BY <1>2, <1>3, <1>4, <2>1
<1>10. CASE phase = "finishing"
  <2>1. MasterPhase(p) = [p EXCEPT !.next = @ + Rest[p.mode]]
      BY <1>10 DEF MasterPhase
  <2> QED
      BY <1>2, <1>3, <1>4, <2>1
<1>11. CASE phase = "finished"
  <2>1. MasterPhase(p) = [p EXCEPT !.next = @ + Increment, !.finished = TRUE]
      BY <1>11 DEF MasterPhase
  <2> QED
      BY <1>2, <1>3, <1>5, <2>1
<1> QED
    BY <1>7, <1>8, <1>9, <1>10, <1>11 DEF Phases

\* The end of an event: the cycles to come are in eventDiff.
LEMMA Rescheduled ==
    ASSUME NEW p \in Player, p.mode \in LinkModes, p.driver = "on", p.wrapped \/ p.diff \in Nat,
           NEW cycles \in Int
    PROVE  Reschedule(p, cycles) \in OnPlayer
<1>1. ASSUME NEW t \in Nat, NEW u \in Player, u.driver = "on", u.mode \in LinkModes,
             u.wrapped \/ u.diff >= t
      PROVE  [u EXCEPT !.timer = t] \in OnPlayer
  <2> DEFINE q == [u EXCEPT !.timer = t]
  <2>1. t \in Nat \cup {Off} /\ t # Off
      BY DEF Off
  <2>2. /\ q \in Player /\ q.mode = u.mode /\ q.driver = u.driver /\ q.diff = u.diff
        /\ q.wrapped = u.wrapped /\ q.timer = t
      BY <2>1 DEF Player
  <2> HIDE DEF q
  <2> QED
      BY <1>1, <2>1, <2>2 DEF OnPlayer, SoundPlayer, q
<1>2. ASSUME NEW c \in Nat
      PROVE  LET u == Count(p, c)
             IN  /\ u \in Player /\ u.driver = "on" /\ u.mode \in LinkModes
                 /\ u.wrapped \/ u.diff >= c
  <2> DEFINE u == Count(p, c)
  <2>1. /\ u \in Player /\ (u.wrapped \/ (~p.wrapped /\ u.diff = p.diff + c))
        /\ u = [p EXCEPT !.diff = u.diff, !.wrapped = u.wrapped]
    <3>1. c \in Int
        OBVIOUS
    <3> QED
        BY <3>1, Counted
  <2> HIDE DEF u
  <2>2. u.driver = p.driver /\ u.mode = p.mode
      BY <2>1 DEF Player
  <2>3. u.wrapped \/ u.diff >= c
      BY <2>1 DEF Player
  <2> QED
      BY <2>1, <2>2, <2>3 DEF u
<1>3. CASE cycles > 0
  <2> DEFINE u == Count(p, cycles)
             v == [u EXCEPT !.next = 0]
  <2>1. u \in Player /\ u.driver = "on" /\ u.mode \in LinkModes /\ (u.wrapped \/ u.diff >= cycles)
      BY <1>2, <1>3
  <2>2. Reschedule(p, cycles) = [u EXCEPT !.next = 0, !.timer = cycles]
      BY <1>3 DEF Reschedule
  <2> HIDE DEF u
  <2>3. /\ v \in Player /\ v.driver = u.driver /\ v.mode = u.mode /\ v.wrapped = u.wrapped
        /\ v.diff = u.diff /\ Reschedule(p, cycles) = [v EXCEPT !.timer = cycles]
      BY <2>1, <2>2 DEF Player
  <2> HIDE DEF v
  <2>4. cycles \in Nat
      BY <1>3
  <2> QED
      BY <1>1, <2>1, <2>3, <2>4
<1>4. CASE ~(cycles > 0)
  <2> DEFINE u == Count(p, 1)
  <2>1. u \in Player /\ u.driver = "on" /\ u.mode \in LinkModes /\ (u.wrapped \/ u.diff >= 1)
      BY <1>2
  <2>2. Reschedule(p, cycles) = [u EXCEPT !.timer = 1]
      BY <1>4 DEF Reschedule
  <2> HIDE DEF u
  <2> QED
      BY <1>1, <2>1, <2>2
<1> QED
    BY <1>3, <1>4

\* After an update eventDiff begins at 0.
LEMMA RescheduledAfresh ==
    ASSUME NEW p \in OnPlayer, NEW cycles \in Int
    PROVE  Reschedule(Afresh(p), cycles) \in OnPlayer
<1> DEFINE q == Afresh(p)
<1>1. p \in Player /\ p.mode \in LinkModes /\ p.driver = "on"
    BY DEF OnPlayer, SoundPlayer
<1>2. q \in Player /\ q.diff = 0 /\ q = [p EXCEPT !.diff = 0, !.wrapped = FALSE]
    BY <1>1, AfreshPlayer
<1> HIDE DEF q
<1>3. q.mode = p.mode /\ q.driver = p.driver
    BY <1>1, <1>2 DEF Player
<1>4. q.wrapped \/ q.diff \in Nat
    BY <1>2
<1>5. Reschedule(q, cycles) \in OnPlayer
    BY <1>1, <1>2, <1>3, <1>4, Rescheduled
<1> QED
    BY <1>5 DEF q

\* Sound players, the one at seat i with its driver loaded.
OnAt(i, n) == [j \in 1 .. n |-> IF j = i THEN OnPlayer ELSE SoundPlayer]

LEMMA OnAtFits ==
    ASSUME NEW n \in Nat, NEW i \in 1 .. n
    PROVE  /\ Fits(OnAt(i, n), n)
           /\ \A ps \in Tables(Same(n)) : ps[i].driver = "on" => ps \in Tables(OnAt(i, n))
           /\ \A ps \in Tables(Same(n)), p \in OnPlayer : [ps EXCEPT ![i] = p] \in Tables(OnAt(i, n))
           /\ \A ps \in Tables(OnAt(i, n)), p \in SoundPlayer : [ps EXCEPT ![i] = p] \in Tables(Same(n))
           /\ \A ps \in Tables(OnAt(i, n)) : ps[i] \in OnPlayer
<1>1. Fits(OnAt(i, n), n)
    BY ClosedSets DEF OnAt, Fits
<1>2. OnPlayer \subseteq SoundPlayer /\ SoundPlayer \subseteq Player
    BY DEF OnPlayer, SoundPlayer
<1>3. \A p \in SoundPlayer : p.driver = "on" => p \in OnPlayer
    BY DEF OnPlayer
<1> QED
    BY <1>1, <1>2, <1>3 DEF Tables, OnAt, Same

OffAt(i, n) == [j \in 1 .. n |-> IF j = i THEN CalledOff ELSE SoundPlayer]

\* Sound players, but for the one at seat i, of which nothing is known.
AnyAt(i, n) == [j \in 1 .. n |-> IF j = i THEN Player ELSE SoundPlayer]

LEMMA SameAny ==
    ASSUME NEW n \in Nat, NEW i \in 1 .. n, NEW ps \in Tables(Same(n))
    PROVE  /\ ps \in Tables(AnyAt(i, n))
           /\ [ps EXCEPT ![i].timer = Off] \in Tables(AnyAt(i, n))
           /\ [ps EXCEPT ![i].timer = Off] = [ps EXCEPT ![i] = [ps[i] EXCEPT !.timer = Off]]
<1>1. SoundPlayer \subseteq Player /\ ps \in [1 .. n -> Player] /\ \A j \in 1 .. n : ps[j] \in SoundPlayer
    BY DEF SoundPlayer, Tables, Same
<1>2. [ps[i] EXCEPT !.timer = Off] \in Player
  <2>1. ps[i] \in Player
      BY <1>1
  <2> QED
      BY <2>1 DEF Player
<1>3. [ps EXCEPT ![i].timer = Off] = [ps EXCEPT ![i] = [ps[i] EXCEPT !.timer = Off]]
    BY <1>1
<1> DEFINE q == [ps[i] EXCEPT !.timer = Off]
<1> HIDE DEF q
<1>4. q \in Player /\ [ps EXCEPT ![i].timer = Off] = [ps EXCEPT ![i] = q]
    BY <1>2, <1>3 DEF q
<1> QED
    BY <1>1, <1>3, <1>4 DEF Tables, AnyAt

LEMMA CallingOff ==
    ASSUME NEW p \in Player, NEW left \in Nat
    PROVE  CallOff(p, left, Off) \in CalledOff
<1> DEFINE u == IF p.timer = Off THEN p ELSE Count(p, -left)
<1>1. u \in Player
  <2>1. -left \in Int
      OBVIOUS
  <2> QED
      BY <2>1, Counted
<1>2. CallOff(p, left, Off) = [u EXCEPT !.timer = Off]
    BY DEF CallOff
<1> HIDE DEF u
<1> QED
    BY <1>1, <1>2 DEF Player, CalledOff

\* An unloaded player is sound again, and its event is called off.
LEMMA UnloadedTable ==
    ASSUME NEW n \in Nat, NEW i \in 1 .. n, NEW ps \in Tables(AnyAt(i, n)), NEW left \in Nat
    PROVE  /\ Unloaded(ps, i, left) \in Tables(Same(n))
           /\ Unloaded(ps, i, left)[i].timer = Off
           /\ Unloaded(ps, i, left)[i].driver = "off"
<1> DEFINE called   == [ps EXCEPT ![i] = CallOff(ps[i], left, Off)]
           released == Released(called, i)
           gone(q)  == [q EXCEPT !.finished = TRUE, !.driver = "off", !.with = FALSE]
<1>1. ps[i] \in Player /\ \A j \in 1 .. n : j # i => ps[j] \in SoundPlayer
    BY DEF Tables, AnyAt
<1>2. CallOff(ps[i], left, Off) \in CalledOff
    BY <1>1, CallingOff
<1>3. Fits(OffAt(i, n), n)
    BY ClosedSets DEF OffAt, Fits
<1>4. called \in Tables(OffAt(i, n))
  <2>1. CalledOff \subseteq Player
      BY DEF CalledOff
  <2> QED
      BY <1>1, <1>2, <2>1 DEF Tables, AnyAt, OffAt
<1>5. released \in Tables(OffAt(i, n))
    BY <1>3, <1>4, ReleasedTable
<1>6. /\ released \in [1 .. n -> Player] /\ released[i] \in CalledOff
      /\ \A j \in 1 .. n : j # i => released[j] \in SoundPlayer
    BY <1>5 DEF Tables, OffAt
<1>7. Unloaded(ps, i, left) = [released EXCEPT ![i] = gone(released[i])]
  <2>1. Unloaded(ps, i, left)
          = [released EXCEPT ![i].finished = TRUE, ![i].driver = "off", ![i].with = FALSE]
      BY DEF Unloaded
  <2> HIDE DEF released
  <2> QED
      BY <1>6, <2>1
<1> HIDE DEF released, called
<1>8. /\ gone(released[i]) \in SoundPlayer /\ gone(released[i]).timer = Off
      /\ gone(released[i]).driver = "off"
  <2>1. released[i] \in Player /\ released[i].timer = Off
      BY <1>6 DEF CalledOff
  <2>2. gone(released[i]) \in Player
      BY <2>1 DEF Player
  <2>3. gone(released[i]).driver = "off" /\ gone(released[i]).timer = Off
      BY <2>1 DEF Player
  <2> HIDE DEF gone
  <2> QED
      BY <2>2, <2>3 DEF SoundPlayer
<1> HIDE DEF gone
<1>9. SoundPlayer \subseteq Player
    BY DEF SoundPlayer
<1> QED
    BY <1>6, <1>7, <1>8, <1>9 DEF Tables, Same

LEMMA CountType ==
    ASSUME loaded \in [Counters -> Int], NEW p \in Player, NEW n \in Int
    PROVE  CountOut(p, n) \in [Counters -> Int]
    BY DEF CountOut, Counters, Counter

LEMMA LeftIsNat ==
    ASSUME players \in Seq(SoundPlayer), NEW i \in Seats, NEW left \in Lefts(i)
    PROVE  /\ left \in Nat
           /\ i = 1 /\ players[i].timer # Off => left <= players[i].timer
<1>1. players[i] \in Player
    BY DEF SoundPlayer, Seats, Attached
<1>2. players[i].timer \in Nat \cup {Off}
    BY <1>1 DEF Player
<1> QED
    BY <1>2 DEF Lefts

\* What a sequence of sound players says of types.
LEMMA TypesOf ==
    ASSUME NEW ps \in Seq(SoundPlayer)
    PROVE  /\ ps \in Seq(Player)
           /\ \A i \in 1 .. Len(ps) : ps[i].driver # "off" => ps[i].mode \in LinkModes
           /\ \A i \in 1 .. Len(ps) : (ps[i].driver = "on") <=> (ps[i].timer # Off)
<1>1. SoundPlayer \subseteq Player
    BY DEF SoundPlayer
<1>2. \A i \in 1 .. Len(ps) : ps[i] \in SoundPlayer
    OBVIOUS
<1>3. ps \in Seq(Player)
    BY <1>1
<1> QED
    BY <1>2, <1>3 DEF SoundPlayer

----------------------------------------------------------------------------
\* Every step keeps the invariant.

LEMMA InitInv == Init => Inv
<1> SUFFICES ASSUME Init PROVE Inv
    OBVIOUS
<1>1. players \in Seq(SoundPlayer) /\ Len(players) = 0
    BY DEF Init
<1>2. party \in Parties /\ party.changes \in Nat /\ party.leaves \in Nat
    BY LockstepAssumption DEF Init
<1>3. /\ loaded \in [Counters -> Int] /\ phase \in Phases /\ aborted = FALSE
      /\ changes \in 0 .. party.changes /\ leaves \in 0 .. party.leaves
      /\ overrun \in BOOLEAN /\ moved \in BOOLEAN
  <2>1. loaded \in [Counters -> Int]
      BY DEF Init
  <2>2. phase \in Phases
      BY DEF Init, Phases
  <2>3. aborted = FALSE /\ overrun \in BOOLEAN /\ moved \in BOOLEAN
      BY DEF Init
  <2>4. changes \in 0 .. party.changes /\ leaves \in 0 .. party.leaves
    <3>1. changes = 0 /\ leaves = 0
        BY DEF Init
    <3>2. \A x \in Nat : 0 \in 0 .. x
        OBVIOUS
    <3> QED
        BY <1>2, <3>1, <3>2
  <2> QED
      BY <2>1, <2>2, <2>3, <2>4
<1>4. players \in Seq(Player)
    BY <1>1, TypesOf
<1>5. Attached = 0 /\ Seats = {}
    BY <1>1 DEF Attached, Seats
<1>6. Attached <= MaxPlayers
    BY <1>5, LockstepAssumption
<1> QED
    BY <1>1, <1>2, <1>3, <1>4, <1>5, <1>6 DEF Inv, TypeOK, NoAbort

\* What every step starts from.
LEMMA Given ==
    ASSUME Inv
    PROVE  /\ players \in Seq(SoundPlayer) /\ Attached \in Nat /\ Attached <= MaxPlayers
           /\ Seats = 1 .. Attached /\ DOMAIN players = 1 .. Attached /\ Attached = Len(players)
           /\ players \in Tables(Same(Attached))
           /\ \A i \in Seats : players[i] \in SoundPlayer /\ players[i] \in Player
<1>1. players \in Seq(SoundPlayer)
    BY DEF Inv
<1>2. \A i \in Seats : players[i] \in SoundPlayer
    BY <1>1 DEF Seats, Attached
<1> QED
    BY <1>1, <1>2, SeqIsTable DEF Inv, TypeOK, Seats, Attached, SoundPlayer

\* What a step has to show of the players.
LEMMA Kept ==
    ASSUME Inv, party' = party, NEW n \in Nat, players' \in Tables(Same(n)), n <= MaxPlayers,
           loaded' \in [Counters -> Int], phase' \in Phases,
           aborted' = FALSE \/ (aborted' = TRUE /\ players'[1].wrapped),
           changes' \in 0 .. party.changes, leaves' \in 0 .. party.leaves,
           overrun' \in BOOLEAN, moved' \in BOOLEAN
    PROVE  Inv'
<1>1. players' \in Seq(SoundPlayer) /\ Len(players') = n
    BY TableIsSeq
<1>2. /\ players' \in Seq(Player)
      /\ \A i \in 1 .. Len(players') : players'[i].driver # "off" => players'[i].mode \in LinkModes
      /\ \A i \in 1 .. Len(players') : (players'[i].driver = "on") <=> (players'[i].timer # Off)
    BY <1>1, TypesOf
<1> QED
    BY <1>1, <1>2 DEF Inv, TypeOK, NoAbort, Attached, Seats

\* The lateness counted in, the node is sound, and posts no negative number of cycles that
\* did not wrap.
LEMMA LateNode ==
    ASSUME NEW q \in OnPlayer, NEW late \in Nat
    PROVE  LET p == [Count(q, late) EXCEPT !.next = @ - late]
           IN  p \in OnPlayer /\ (p.wrapped \/ p.diff \in Nat) /\ p.awake = q.awake
<1> DEFINE u == Count(q, late)
           p == [u EXCEPT !.next = @ - late]
<1>1. /\ q \in Player /\ q.driver = "on" /\ q.mode \in LinkModes /\ q.timer # Off
      /\ q.wrapped \/ q.diff >= q.timer
      /\ q.timer \in Nat
    BY DEF OnPlayer, SoundPlayer, Player
<1>2. /\ u \in Player /\ (u.wrapped \/ (~q.wrapped /\ u.diff = q.diff + late))
      /\ u = [q EXCEPT !.diff = u.diff, !.wrapped = u.wrapped]
  <2>1. late \in Int
      OBVIOUS
  <2> QED
      BY <1>1, <2>1, Counted
<1>3. p = [u EXCEPT !.next = u.next - late]
    OBVIOUS
<1> HIDE DEF u
<1>4. /\ u.driver = q.driver /\ u.mode = q.mode /\ u.timer = q.timer /\ u.awake = q.awake
      /\ q.diff \in Int
    BY <1>1, <1>2 DEF Player
<1>5. u.wrapped \/ (u.diff \in Nat /\ u.diff >= u.timer)
    BY <1>1, <1>2, <1>4
<1>6. u.next - late \in Int
    BY <1>2 DEF Player
<1>7. /\ p \in Player /\ p.driver = u.driver /\ p.mode = u.mode /\ p.timer = u.timer
      /\ p.diff = u.diff /\ p.wrapped = u.wrapped /\ p.awake = u.awake
    BY <1>2, <1>3, <1>6 DEF Player
<1> HIDE DEF p
<1>8. p \in OnPlayer /\ (p.wrapped \/ p.diff \in Nat) /\ p.awake = q.awake
    BY <1>1, <1>4, <1>5, <1>7 DEF OnPlayer, SoundPlayer
<1> QED
    BY <1>8 DEF p, u

LEMMA MasterTable ==
    ASSUME Inv, 1 \in Seats, NEW p \in OnPlayer
    PROVE  MasterUpdate(p) \in Tables(OnAt(1, Attached))
<1> DEFINE n    == Attached
           T    == Tables(OnAt(1, n))
           own  == [players EXCEPT ![1] = MasterPhase(p)]
           told == IF SameMode = {} THEN own
                   ELSE IF NeedsToWait THEN Wait(own, SameMode) ELSE Signal(own, SameMode)
           asked == IF NeedsToWait THEN AskedFor(told, SameMode) ELSE told
<1>1. n \in Nat /\ 1 \in 1 .. n /\ n >= 1 /\ players \in Tables(Same(n)) /\ n <= MaxPlayers
    BY Given
<1>2. MasterPhase(p) \in OnPlayer
    BY PhaseOn DEF Inv, TypeOK
<1>3. Fits(OnAt(1, n), n)
    BY <1>1, OnAtFits
<1>4. own \in T
    BY <1>1, <1>2, OnAtFits
<1>5. SameMode \in SUBSET (2 .. MaxPlayers)
  <2>1. \A i \in 1 .. n : i # 1 => i \in 2 .. MaxPlayers
      BY <1>1, LockstepAssumption
  <2> QED
      BY <2>1, Given DEF SameMode, Others
<1>6. p.diff \in Int
    BY DEF OnPlayer, SoundPlayer, Player
<1>7. MasterUpdate(p) = PostToAll(asked, p.diff)
    BY DEF MasterUpdate
<1> HIDE DEF own, T
<1>8. told \in T
    BY <1>1, <1>3, <1>4, <1>5, WaitTable, SignalTable DEF T
<1> HIDE DEF told
<1>9. asked \in T
    BY <1>1, <1>3, <1>8, AskedTable DEF T
<1> HIDE DEF asked
<1> QED
    BY <1>1, <1>3, <1>6, <1>7, <1>9, PostTable DEF T

LEMMA SlaveTable ==
    ASSUME Inv, NEW i \in Seats, NEW p \in OnPlayer
    PROVE  SlaveUpdate(i, p) \in Tables(OnAt(i, Attached))
<1> DEFINE n     == Attached
           T     == Tables(OnAt(i, n))
           given == IF phase = "idle" /\ loaded[Counter(p.mode)] # Attached THEN p.posted + Increment ELSE p.posted
           acts  == phase \in {"started", "finished"} /\ CatchesUp(p)
           done  == IF acts THEN phase = "finished" ELSE p.finished
           runs  == given > p.diff
           ready == IF p.mode = "multi" THEN loaded["multi"] = Attached ELSE p.ready
           left  == given - p.diff
           node  == [p EXCEPT !.posted = left, !.finished = done, !.awake = runs, !.ready = ready]
           ps    == [players EXCEPT ![i] = node]
<1>1. n \in Nat /\ i \in 1 .. n /\ n >= 1 /\ players \in Tables(Same(n))
    BY Given
<1>2. p \in Player /\ Closed(OnPlayer)
    BY ClosedSets DEF OnPlayer, SoundPlayer
<1>3. left \in Int /\ done \in BOOLEAN /\ runs \in BOOLEAN /\ ready \in BOOLEAN
  <2>1. p.posted \in Int /\ p.diff \in Int /\ p.finished \in BOOLEAN /\ p.ready \in BOOLEAN
      BY <1>2 DEF Player
  <2>2. given \in Int
      BY <2>1, LockstepAssumption
  <2> HIDE DEF given, acts
  <2>3. left \in Int /\ runs \in BOOLEAN
      BY <2>1, <2>2
  <2>4. done \in BOOLEAN /\ ready \in BOOLEAN
      BY <2>1
  <2> QED
      BY <2>3, <2>4
<1>4. SlaveUpdate(i, p) = IF acts THEN Signal(ps, {i}) ELSE ps
  <2>1. node = [p EXCEPT !.posted = given - p.diff, !.finished = done,
                         !.awake = given > p.diff,
                         !.ready = IF p.mode = "multi" THEN loaded["multi"] = Attached ELSE @]
      BY <1>2 DEF Player
  <2> QED
      BY <2>1 DEF SlaveUpdate
<1> HIDE DEF left, done, runs, ready, acts, given
<1>5. node \in OnPlayer
  <2>1. [p EXCEPT !.posted = left] \in OnPlayer
      BY <1>2, <1>3 DEF Closed
  <2>2. [[p EXCEPT !.posted = left] EXCEPT !.finished = done] \in OnPlayer
      BY <1>2, <1>3, <2>1 DEF Closed
  <2>3. [[[p EXCEPT !.posted = left] EXCEPT !.finished = done] EXCEPT !.awake = runs] \in OnPlayer
      BY <1>2, <1>3, <2>2 DEF Closed
  <2>4. [[[[p EXCEPT !.posted = left] EXCEPT !.finished = done] EXCEPT !.awake = runs]
            EXCEPT !.ready = ready] \in OnPlayer
      BY <1>2, <1>3, <2>3 DEF Closed
  <2>5. node = [[[[p EXCEPT !.posted = left] EXCEPT !.finished = done] EXCEPT !.awake = runs]
                  EXCEPT !.ready = ready]
      OBVIOUS
  <2> QED
      BY <2>4, <2>5
<1> HIDE DEF node
<1>6. ps \in T /\ Fits(OnAt(i, n), n)
    BY <1>1, <1>5, OnAtFits
<1> HIDE DEF ps
<1> QED
    BY <1>1, <1>4, <1>6, SignalTable

----------------------------------------------------------------------------
\* One lemma for each action.

LEMMA EventKeeps ==
    ASSUME Inv, NEW i \in Seats, NEW late \in Lates, Event(i, late)
    PROVE  Inv'
<1> DEFINE n == Attached
           q == players[i]
           p == [Count(q, late) EXCEPT !.next = @ - late]
           updates == p.next <= 0 /\ (Attached > 1 \/ p.mode # "multi")
           cycles == IF Attached < 2 /\ p.mode = "multi" THEN Alone ELSE q.next
<1>1. n \in Nat /\ i \in 1 .. n /\ players \in Tables(Same(n)) /\ n <= MaxPlayers
    BY Given
<1>2. q \in OnPlayer /\ late \in Nat
    BY Given, LockstepAssumption DEF Event, OnPlayer
<1>3. p \in OnPlayer /\ (p.wrapped \/ p.diff \in Nat)
    BY <1>2, LateNode
<1>4. /\ party' = party /\ loaded' = loaded /\ leaves' = leaves /\ moved' = moved
      /\ overrun' = overrun /\ changes' \in 0 .. party.changes
  <2>1. changes \in 0 .. party.changes /\ party.changes \in Nat
      BY LockstepAssumption DEF Inv, TypeOK
  <2>2. changes' = changes + late /\ changes' <= party.changes
      BY DEF Event
  <2> QED
      BY <1>2, <2>1, <2>2 DEF Event, vars
<1>5. aborted = FALSE
    BY DEF Event, Running, Inv, TypeOK
<1>6. /\ players' \in Tables(Same(n)) /\ phase' \in Phases
      /\ aborted' = FALSE \/ (aborted' = TRUE /\ players'[1].wrapped)
  <2>1. CASE ~updates
    <3>1. /\ players' = [players EXCEPT ![i] = Reschedule(p, cycles)]
          /\ phase' = phase /\ aborted' = aborted
        BY <2>1 DEF Event
    <3>2. cycles \in Int
        BY <1>2, LockstepAssumption DEF OnPlayer, SoundPlayer, Player
    <3> HIDE DEF cycles, p
    <3>3. p \in Player /\ p.mode \in LinkModes /\ p.driver = "on"
        BY <1>3 DEF OnPlayer, SoundPlayer
    <3>4. Reschedule(p, cycles) \in OnPlayer
        BY <1>3, <3>2, <3>3, Rescheduled
    <3>5. players \in Tables(OnAt(i, n)) /\ Reschedule(p, cycles) \in SoundPlayer
        BY <1>1, <1>2, <3>4, OnAtFits DEF OnPlayer
    <3> QED
        BY <1>1, <1>5, <3>1, <3>5, OnAtFits DEF Inv, TypeOK
  <2>2. CASE updates /\ i = 1 /\ p.diff < 0
    <3>1. players' = [players EXCEPT ![1] = p] /\ phase' = phase /\ aborted' = TRUE
        BY <2>2 DEF Event
    <3> HIDE DEF p
    <3>2. p.wrapped /\ p \in SoundPlayer
        BY <1>3, <2>2 DEF OnPlayer
    <3>3. players \in Tables(OnAt(i, n))
        BY <1>1, <1>2, OnAtFits DEF OnPlayer
    <3>4. players' \in Tables(Same(n))
        BY <1>1, <2>2, <3>1, <3>2, <3>3, OnAtFits
    <3>5. players'[1] = p
        BY <1>1, <2>2, <3>1 DEF Tables, Same
    <3> QED
        BY <3>1, <3>2, <3>4, <3>5 DEF Inv, TypeOK
  <2>3. CASE updates /\ i = 1 /\ ~(p.diff < 0)
    <3> DEFINE ps == MasterUpdate(p)
               far == IF NeedsToWait THEN 0 ELSE ps[1].next
    <3>1. ps \in Tables(OnAt(1, n)) /\ ps[1] \in OnPlayer
        BY <1>1, <1>3, <2>3, MasterTable, OnAtFits
    <3>2. /\ players' = [ps EXCEPT ![1] =
                            Reschedule(Afresh(@), IF NeedsToWait THEN 0 ELSE @.next)]
          /\ phase' = NextPhase /\ aborted' = aborted
        BY <2>3 DEF Event
    <3>3. phase' \in Phases
        BY <1>3, <3>2, PhaseOn DEF Inv, TypeOK
    <3>4. far \in Int
        BY <3>1 DEF OnPlayer, SoundPlayer, Player
    <3> HIDE DEF p
    <3>5. 1 \in DOMAIN ps
        BY <1>1, <2>3, <3>1 DEF Tables, OnAt
    <3>6. players' = [ps EXCEPT ![1] = Reschedule(Afresh(ps[1]), far)]
        BY <3>2, <3>5
    <3> HIDE DEF ps, far
    <3>7. Reschedule(Afresh(ps[1]), far) \in SoundPlayer
        BY <3>1, <3>4, RescheduledAfresh DEF OnPlayer
    <3>8. 1 \in 1 .. n
        BY <1>1, <2>3
    <3>9. \A v \in SoundPlayer : [ps EXCEPT ![1] = v] \in Tables(Same(n))
        BY <1>1, <3>1, <3>8, OnAtFits
    <3> QED
        BY <1>5, <3>2, <3>3, <3>6, <3>7, <3>9
  <2>4. CASE updates /\ i # 1
    <3> DEFINE ps == SlaveUpdate(i, p)
    <3>1. ps \in Tables(OnAt(i, n)) /\ ps[i] \in OnPlayer
        BY <1>1, <1>3, SlaveTable, OnAtFits
    <3>2. /\ players' = [ps EXCEPT ![i] = Reschedule(Afresh(@), @.posted)]
          /\ phase' = phase /\ aborted' = aborted
        BY <2>4 DEF Event
    <3> HIDE DEF p
    <3>3. ps[i].posted \in Int
        BY <3>1 DEF OnPlayer, SoundPlayer, Player
    <3>4. i \in DOMAIN ps
        BY <1>1, <3>1 DEF Tables, OnAt
    <3>5. players' = [ps EXCEPT ![i] = Reschedule(Afresh(ps[i]), ps[i].posted)]
        BY <3>2, <3>4
    <3> HIDE DEF ps
    <3>6. Reschedule(Afresh(ps[i]), ps[i].posted) \in SoundPlayer
        BY <3>1, <3>3, RescheduledAfresh DEF OnPlayer
    <3>7. \A v \in SoundPlayer : [ps EXCEPT ![i] = v] \in Tables(Same(n))
        BY <1>1, <3>1, OnAtFits
    <3>8. players' \in Tables(Same(n))
        BY <3>5, <3>6, <3>7
    <3>9. phase' \in Phases /\ aborted' = FALSE
        BY <1>5, <3>2 DEF Inv, TypeOK
    <3> QED
        BY <3>8, <3>9
  <2> QED
      BY <2>1, <2>2, <2>3, <2>4
<1> HIDE DEF p
<1>7. overrun \in BOOLEAN /\ moved \in BOOLEAN /\ loaded \in [Counters -> Int] /\ leaves \in 0 .. party.leaves
    BY DEF Inv, TypeOK
<1> QED
    BY <1>1, <1>4, <1>6, <1>7, Kept

LEMMA StartTransferKeeps ==
    ASSUME Inv, 1 \in Seats, NEW left \in Lefts(1), StartTransfer(left)
    PROVE  Inv'
<1> DEFINE n == Attached
           q == players[1]
<1>1. n \in Nat /\ 1 \in 1 .. n /\ players \in Tables(Same(n)) /\ n <= MaxPlayers /\ 1 \in DOMAIN players
    BY Given
<1>2. q \in SoundPlayer /\ q \in Player /\ q.driver = "on" /\ q.timer # Off /\ q.mode \in LinkModes
    BY Given DEF StartTransfer, SoundPlayer
<1>3. left \in Nat /\ left <= q.timer
    BY <1>2, LeftIsNat DEF Inv
<1> DEFINE w == Count(q, -left)
           u == [w EXCEPT !.timer = 0]
<1>4. /\ w \in Player /\ w.driver = q.driver /\ w.mode = q.mode
      /\ w.wrapped \/ w.diff \in Nat
  <2>1. -left \in Int
      BY <1>3
  <2>2. /\ w \in Player /\ (w.wrapped \/ (~q.wrapped /\ w.diff = q.diff + (-left)))
        /\ w = [q EXCEPT !.diff = w.diff, !.wrapped = w.wrapped]
      BY <1>2, <2>1, Counted
  <2> HIDE DEF w
  <2>3. w.driver = q.driver /\ w.mode = q.mode
      BY <1>2, <2>2 DEF Player
  <2>4. q.wrapped \/ q.diff + (-left) \in Nat
      BY <1>2, <1>3 DEF SoundPlayer, Player
  <2> QED
      BY <2>2, <2>3, <2>4
<1>5. u \in SoundPlayer
  <2> HIDE DEF w
  <2>1. u \in Player
      BY <1>4 DEF Player
  <2>2. u.driver = "on" /\ u.mode = q.mode /\ u.timer = 0 /\ u.diff = w.diff /\ u.wrapped = w.wrapped
      BY <1>2, <1>4 DEF Player
  <2>3. 0 # Off
      BY DEF Off
  <2> HIDE DEF u
  <2> QED
      BY <1>2, <1>4, <2>1, <2>2, <2>3 DEF SoundPlayer
<1>6. CallOff(q, left, 0) = u
    BY <1>2 DEF CallOff
<1>7. players' = [players EXCEPT ![1] = u]
    BY <1>1, <1>6 DEF StartTransfer
<1> HIDE DEF u, w
<1>8. players' \in Tables(Same(n))
    BY <1>1, <1>5, <1>7 DEF Tables, Same, SoundPlayer
<1>9. /\ phase' \in Phases /\ loaded' = loaded /\ aborted' = FALSE /\ changes' = changes
      /\ leaves' = leaves /\ overrun' = overrun /\ moved' = moved /\ party' = party
    BY DEF StartTransfer, Phases, Running, Inv, TypeOK
<1> QED
    BY <1>1, <1>8, <1>9, Kept DEF Inv, TypeOK

\* Whether a master was unloaded with a wrapped eventDiff is kept as a Boolean.
LEMMA OverrunType == ASSUME Inv, NEW i \in Seats PROVE Overrun(i) \in BOOLEAN
    BY Given DEF Overrun, Inv, TypeOK, Player

LEMMA SwitchKeeps ==
    ASSUME Inv, NEW i \in Seats, NEW m \in Modes, NEW left \in Lefts(i), Switch(i, m, left)
    PROVE  Inv'
<1> DEFINE n  == Attached
           p  == players[i]
           ps == IF p.driver = "on" THEN Unloaded(players, i, left) ELSE players
           d  == IF m \in LinkModes THEN "load" ELSE "off"
<1>1. n \in Nat /\ i \in 1 .. n /\ players \in Tables(Same(n)) /\ n <= MaxPlayers
    BY Given
<1>2. left \in Nat
    BY LeftIsNat DEF Inv
<1>3. p \in SoundPlayer /\ p \in Player
    BY Given
<1>4. ps \in Tables(Same(n)) /\ ps[i].timer = Off
    BY <1>1, <1>2, <1>3, SameAny, UnloadedTable DEF SoundPlayer
<1>5. players' = [ps EXCEPT ![i].mode = m, ![i].driver = d]
    BY DEF Switch
<1> HIDE DEF ps
<1> DEFINE q == ps[i]
           u == [q EXCEPT !.mode = m, !.driver = d]
<1>6. ps \in [1 .. n -> SoundPlayer] /\ q \in SoundPlayer /\ q \in Player /\ q.timer = Off
    BY <1>1, <1>4 DEF Tables, Same
<1>7. players' = [ps EXCEPT ![i] = u]
    BY <1>1, <1>5, <1>6
<1>8. u \in SoundPlayer
  <2>1. d \in {"load", "on", "off"} /\ d # "on" /\ (d # "off" => m \in LinkModes)
      OBVIOUS
  <2> HIDE DEF d
  <2>2. u \in Player
    <3>1. [q EXCEPT !.mode = m] \in Player
        BY <1>6 DEF Player
    <3>2. \A v \in Player : [v EXCEPT !.driver = d] \in Player
        BY <2>1 DEF Player
    <3>3. u = [[q EXCEPT !.mode = m] EXCEPT !.driver = d]
        OBVIOUS
    <3> QED
        BY <3>1, <3>2, <3>3
  <2>3. u.mode = m /\ u.driver = d /\ u.timer = Off
      BY <1>6 DEF Player
  <2> HIDE DEF u
  <2> QED
      BY <2>1, <2>2, <2>3 DEF SoundPlayer
<1> HIDE DEF u, q
<1>9. players' \in Tables(Same(n))
  <2>1. SoundPlayer \subseteq Player
      BY DEF SoundPlayer
  <2> QED
      BY <1>1, <1>6, <1>7, <1>8, <2>1 DEF Tables, Same
<1>10. loaded' \in [Counters -> Int]
  <2>1. loaded \in [Counters -> Int]
      BY DEF Inv, TypeOK
  <2>2. CountOut(p, 1) \in [Counters -> Int]
      BY <1>3, <2>1, CountType
  <2>3. loaded' = IF p.driver = "on" THEN CountOut(p, 1) ELSE loaded
      BY DEF Switch
  <2> QED
      BY <2>1, <2>2, <2>3
<1>11. changes' \in 0 .. party.changes
  <2>1. changes \in 0 .. party.changes /\ party.changes \in Nat
      BY LockstepAssumption DEF Inv, TypeOK
  <2>2. changes' = changes + (IF p.driver = "on" THEN 1 ELSE 0) /\ changes' <= party.changes
      BY DEF Switch
  <2> QED
      BY <2>1, <2>2
<1>12. /\ phase' \in Phases /\ aborted' = FALSE /\ leaves' = leaves /\ overrun' \in BOOLEAN
       /\ moved' = moved /\ party' = party
    BY OverrunType DEF Switch, Running, Phases, Inv, TypeOK
<1> QED
    BY <1>1, <1>9, <1>10, <1>11, <1>12, Kept DEF Inv, TypeOK

LEMMA ResetCoreKeeps ==
    ASSUME Inv, NEW i \in Seats, ResetCore(i)
    PROVE  Inv'
<1> DEFINE n    == Attached
           ps   == [players EXCEPT ![i].timer = Off]
           gone == Unloaded(ps, i, 0)
           q    == gone[i]
           u    == [q EXCEPT !.mode = "gpio"]
<1>1. n \in Nat /\ i \in 1 .. n /\ players \in Tables(Same(n)) /\ n <= MaxPlayers
    BY Given
<1>2. ps \in Tables(AnyAt(i, n))
    BY <1>1, SameAny
<1>3. players' = [gone EXCEPT ![i].mode = "gpio"]
    BY DEF ResetCore
<1> HIDE DEF ps
<1>4. gone \in Tables(Same(n)) /\ q.timer = Off /\ q.driver = "off"
    BY <1>1, <1>2, UnloadedTable
<1> HIDE DEF gone
<1>6. gone \in [1 .. n -> SoundPlayer] /\ q \in SoundPlayer /\ q \in Player
    BY <1>1, <1>4 DEF Tables, Same
<1>7. players' = [gone EXCEPT ![i] = u]
    BY <1>1, <1>3, <1>6
<1>8. u \in SoundPlayer
  <2>1. u \in Player
      BY <1>6 DEF Player, Modes
  <2>2. u.driver = "off" /\ u.timer = Off
      BY <1>4, <1>6 DEF Player
  <2> HIDE DEF u
  <2> QED
      BY <2>1, <2>2 DEF SoundPlayer
<1> HIDE DEF u, q
<1>9. players' \in Tables(Same(n))
  <2>1. SoundPlayer \subseteq Player
      BY DEF SoundPlayer
  <2> QED
      BY <1>1, <1>6, <1>7, <1>8, <2>1 DEF Tables, Same
<1>10. loaded' \in [Counters -> Int]
  <2>1. players[i] \in Player /\ loaded \in [Counters -> Int] /\ loaded' = CountOut(players[i], 1)
      BY Given DEF ResetCore, Inv, TypeOK
  <2> QED
      BY <2>1, CountType
<1>11. changes' \in 0 .. party.changes
  <2>1. changes \in 0 .. party.changes /\ party.changes \in Nat
      BY LockstepAssumption DEF Inv, TypeOK
  <2>2. changes < party.changes /\ changes' = changes + 1
      BY DEF ResetCore
  <2> QED
      BY <2>1, <2>2
<1>12. /\ phase' \in Phases /\ aborted' = FALSE /\ leaves' = leaves /\ overrun' \in BOOLEAN
       /\ moved' = moved /\ party' = party
    BY OverrunType DEF ResetCore, Phases, Inv, TypeOK
<1> QED
    BY <1>1, <1>9, <1>10, <1>11, <1>12, Kept DEF Inv, TypeOK

LEMMA LoadKeeps ==
    ASSUME Inv, NEW i \in Seats, Load(i)
    PROVE  Inv'
<1> DEFINE n == Attached
           q == players[i]
           ready == IF q.mode = "multi" THEN loaded'["multi"] = Attached ELSE q.ready
           v == Afresh(q)
           u == [v EXCEPT !.driver = "on", !.timer = 0, !.next = 0, !.ready = ready]
<1>1. n \in Nat /\ i \in 1 .. n /\ players \in Tables(Same(n)) /\ n <= MaxPlayers
    BY Given
<1>2. q \in Player /\ q.mode \in LinkModes /\ players \in [1 .. n -> SoundPlayer]
    BY <1>1, Given DEF Load, SoundPlayer, Tables, Same
<1>3. v \in Player /\ v.diff = 0 /\ v.mode = q.mode /\ v.ready = q.ready
  <2>1. v \in Player /\ v.diff = 0 /\ v = [q EXCEPT !.diff = 0, !.wrapped = FALSE]
      BY <1>2, AfreshPlayer
  <2> QED
      BY <1>2, <2>1 DEF Player
<1>4. players' = [players EXCEPT ![i] = u]
  <2>1. players' = [players EXCEPT ![i] = Afresh(@), ![i].driver = "on", ![i].timer = 0, ![i].next = 0,
                      ![i].ready = IF q.mode = "multi" THEN loaded'["multi"] = Attached ELSE @]
      BY DEF Load
  <2> HIDE DEF v
  <2>2. players' = [players EXCEPT ![i] = v, ![i].driver = "on", ![i].timer = 0, ![i].next = 0,
                      ![i].ready = IF q.mode = "multi" THEN loaded'["multi"] = Attached ELSE @]
      BY <1>1, <1>2, <2>1 DEF v
  <2> QED
      BY <1>1, <1>2, <1>3, <2>2
<1>5. ready \in BOOLEAN
    BY <1>2 DEF Player
<1> HIDE DEF ready, v
<1>6. u \in SoundPlayer
  <2>1. [v EXCEPT !.driver = "on"] \in Player
      BY <1>3 DEF Player
  <2>2. \A x \in Player : [x EXCEPT !.timer = 0] \in Player
      BY DEF Player
  <2>3. \A x \in Player : [x EXCEPT !.next = 0] \in Player
      BY DEF Player
  <2>4. \A x \in Player : [x EXCEPT !.ready = ready] \in Player
      BY <1>5 DEF Player
  <2>5. u = [[[[v EXCEPT !.driver = "on"] EXCEPT !.timer = 0] EXCEPT !.next = 0] EXCEPT !.ready = ready]
      OBVIOUS
  <2>6. u \in Player
      BY <2>1, <2>2, <2>3, <2>4, <2>5
  <2>7. u.driver = "on" /\ u.mode = q.mode /\ u.timer = 0 /\ u.diff = 0
      BY <1>3 DEF Player
  <2> HIDE DEF u
  <2> QED
      BY <1>2, <2>6, <2>7 DEF SoundPlayer, Off
<1> HIDE DEF u
<1>7. players' \in Tables(Same(n))
  <2>1. SoundPlayer \subseteq Player
      BY DEF SoundPlayer
  <2> QED
      BY <1>1, <1>2, <1>4, <1>6, <2>1 DEF Tables, Same
<1>8. loaded' \in [Counters -> Int]
    BY <1>2 DEF Load, Inv, TypeOK, Counters, Counter
<1>9. /\ phase' = phase /\ aborted' = FALSE /\ changes' = changes /\ leaves' = leaves
      /\ overrun' = overrun /\ moved' = moved /\ party' = party
    BY DEF Load, Running, Inv, TypeOK
<1> QED
    BY <1>1, <1>7, <1>8, <1>9, Kept DEF Inv, TypeOK

LEMMA AttachKeeps == ASSUME Inv, Attach PROVE Inv'
<1> DEFINE n    == Attached
           more == Append(players, NewPlayer)
<1>1. n \in Nat /\ players \in Seq(SoundPlayer) /\ n = Len(players)
    BY Given
<1>2. n + 1 \in Nat /\ n + 1 <= MaxPlayers /\ n + 1 \in 1 .. n + 1
    BY <1>1, LockstepAssumption DEF Attach
<1>3. NewPlayer \in SoundPlayer
  <2>1. NewPlayer \in Player
      BY DEF NewPlayer, Player, Modes
  <2>2. NewPlayer.driver = "off" /\ NewPlayer.timer = Off
      BY DEF NewPlayer
  <2> QED
      BY <2>1, <2>2 DEF SoundPlayer
<1>4. more \in Seq(SoundPlayer) /\ Len(more) = n + 1
    BY <1>1, <1>3
<1>5. players' = Released(more, n + 1)
    BY DEF Attach
<1> HIDE DEF more
<1>6. more \in Tables(Same(n + 1)) /\ Fits(Same(n + 1), n + 1)
    BY <1>2, <1>4, SeqIsTable, SameFits
<1>7. players' \in Tables(Same(n + 1))
    BY <1>2, <1>5, <1>6, ReleasedTable
<1>8. /\ phase' = phase /\ aborted' = FALSE /\ changes' = changes /\ leaves' = leaves
      /\ overrun' = overrun /\ moved' = moved /\ party' = party
    BY DEF Attach, Inv, TypeOK
<1>9. loaded' \in [Counters -> Int]
  <2>1. [c \in Counters |-> 0] \in [Counters -> Int]
      OBVIOUS
  <2> QED
      BY <2>1 DEF Attach, Inv, TypeOK
<1> QED
    BY <1>2, <1>7, <1>8, <1>9, Kept DEF Inv, TypeOK

LEMMA DetachKeeps ==
    ASSUME Inv, NEW i \in Seats, NEW left \in Lefts(i), Detach(i, left)
    PROVE  Inv'
<1> DEFINE n     == Attached
           once  == Unloaded(players, i, left)
           twice == Unloaded(once, i, 0)
<1>1. n \in Nat /\ i \in 1 .. n /\ players \in Tables(Same(n)) /\ n <= MaxPlayers
    BY Given
<1>2. left \in Nat /\ 0 \in Nat
    BY LeftIsNat DEF Inv
<1>3. once \in Tables(Same(n))
    BY <1>1, <1>2, SameAny, UnloadedTable
<1> HIDE DEF once
<1>4. twice \in Tables(Same(n))
    BY <1>1, <1>2, <1>3, SameAny, UnloadedTable
<1>5. players' = RemoveAt(twice, i)
    BY DEF Detach, once
<1> HIDE DEF twice
<1>6. twice \in Seq(SoundPlayer) /\ Len(twice) = n
    BY <1>1, <1>4, TableIsSeq
<1>7. players' \in Seq(SoundPlayer) /\ Len(players') = n - 1
    BY <1>1, <1>5, <1>6, RemovedSeq
<1>8. players' \in Tables(Same(n - 1))
    BY <1>7, SeqIsTable
<1>9. n - 1 \in Nat /\ n - 1 <= MaxPlayers
    BY <1>1, LockstepAssumption
<1>10. loaded' \in [Counters -> Int]
    BY Given, CountType DEF Detach, Inv, TypeOK
<1>11. leaves' \in 0 .. party.leaves
  <2>1. leaves \in 0 .. party.leaves /\ party.leaves \in Nat
      BY LockstepAssumption DEF Inv, TypeOK
  <2>2. leaves < party.leaves /\ leaves' = leaves + 1
      BY DEF Detach
  <2> QED
      BY <2>1, <2>2
<1>12. moved' \in BOOLEAN
  <2>1. moved' = (moved \/ (i # 1 /\ \E j \in players[1].mask : j > i))
      BY DEF Detach
  <2> QED
      BY <2>1
<1>13. /\ phase' \in Phases /\ aborted' = FALSE /\ changes' = changes /\ overrun' \in BOOLEAN
       /\ party' = party
    BY OverrunType DEF Detach, Inv, TypeOK, Phases
<1> QED
    BY <1>8, <1>9, <1>10, <1>11, <1>12, <1>13, Kept DEF Inv, TypeOK

LEMMA NextKeeps == ASSUME Inv, Next PROVE Inv'
<1>1. CASE \E i \in Seats : SeatEvent(i)
    BY <1>1, EventKeeps DEF SeatEvent
<1>2. CASE \E i \in Seats : Load(i)
    BY <1>2, LoadKeeps
<1>3. CASE \E i \in Seats : \E left \in Lefts(i) : Detach(i, left)
    BY <1>3, DetachKeeps
<1>4. CASE \E i \in Seats : \E left \in Lefts(i) : \E m \in Modes : Switch(i, m, left)
    BY <1>4, SwitchKeeps
<1>5. CASE \E i \in Seats : \E left \in Lefts(i) : i = 1 /\ StartTransfer(left)
    BY <1>5, StartTransferKeeps
<1>6. CASE Attach
    BY <1>6, AttachKeeps
<1>7. CASE \E i \in Seats : ResetCore(i)
    BY <1>7, ResetCoreKeeps
<1> QED
    BY <1>1, <1>2, <1>3, <1>4, <1>5, <1>6, <1>7 DEF Next

LEMMA StutterKeeps == ASSUME Inv, UNCHANGED vars PROVE Inv'
<1>1. /\ players' = players /\ loaded' = loaded /\ phase' = phase /\ aborted' = aborted
      /\ changes' = changes /\ leaves' = leaves /\ overrun' = overrun /\ moved' = moved
      /\ party' = party
    BY DEF vars
<1> QED
    BY <1>1 DEF Inv, TypeOK, NoAbort, Attached, Seats

LEMMA InvHolds == Spec => []Inv
<1>1. Init => Inv
    BY InitInv
<1>2. Inv /\ [Next]_vars => Inv'
    BY NextKeeps, StutterKeeps
<1> QED
    BY <1>1, <1>2, PTL DEF Spec

\* For any number of players and any cycles: every variable keeps its type, no more
\* players attach than there are seats, and only a player the driver serves has an
\* event (GBASIOLockstepNodeLoad and Unload, MultiplayerController's attachGame).
THEOREM TypeCorrect == Spec => []TypeOK
<1>1. Inv => TypeOK
    BY DEF Inv
<1> QED
    BY <1>1, InvHolds, PTL

\* The abort() of MultiplayerController's addCycles is reached from _masterUpdate only when
\* the master's eventDiff went over its 32 bits since it was last 0, for any lateness of the
\* events and wherever games start, leave, are reset and change modes.
THEOREM NeverAborts == Spec => []NoAbort
<1>1. Inv => NoAbort
    BY DEF Inv
<1> QED
    BY <1>1, InvHolds, PTL

----------------------------------------------------------------------------
\* What the master waits for.  Only the master waits for players; awake, it waits for
\* none; and while a transfer is STARTED or FINISHED, a player of its last wait is still
\* waited for or sleeps with its part done.

Silent(ps) == \A i \in DOMAIN ps \ {1} : ps[i].mask = {}

Open(ps) == 1 \in DOMAIN ps /\ ps[1].awake => ps[1].mask = {}

Asleep(p, ph) == ~p.awake /\ p.finished = (ph = "finished")

Answered(ps, ph) ==
    ph \in {"started", "finished"} =>
        \A i \in DOMAIN ps \ {1} : ps[i].with => i \in ps[1].mask \/ Asleep(ps[i], ph)

Waits == Silent(players) /\ Open(players) /\ (moved \/ Answered(players, phase))

\* Tables of the same players, as far as waiting is concerned.
Alike(p, q) == p.mask = q.mask /\ p.awake = q.awake /\ p.finished = q.finished /\ p.with = q.with

LEMMA AlikeWaits ==
    ASSUME NEW ps, NEW qs, NEW ph, DOMAIN qs = DOMAIN ps, 1 \in DOMAIN ps,
           \A i \in DOMAIN ps : Alike(ps[i], qs[i])
    PROVE  /\ Silent(ps) => Silent(qs)
           /\ Open(ps) => Open(qs)
           /\ Answered(ps, ph) => Answered(qs, ph)
<1>1. Silent(ps) => Silent(qs)
    BY DEF Silent, Alike
<1>2. Open(ps) => Open(qs)
    BY DEF Open, Alike
<1>3. ASSUME Answered(ps, ph), ph \in {"started", "finished"}, NEW i \in DOMAIN qs \ {1}, qs[i].with
      PROVE  i \in qs[1].mask \/ Asleep(qs[i], ph)
    BY <1>3 DEF Answered, Alike, Asleep
<1> QED
    BY <1>1, <1>2, <1>3 DEF Answered

LEMMA CountAlike ==
    ASSUME NEW p \in Player, NEW cycles
    PROVE  Alike(p, Count(p, cycles)) /\ Count(p, cycles).driver = p.driver
<1>1. \A x, y : Alike(p, [p EXCEPT !.diff = x, !.wrapped = y])
    BY DEF Player, Alike
<1>2. \A x, y : [p EXCEPT !.diff = x, !.wrapped = y].driver = p.driver
    BY DEF Player
<1> QED
    BY <1>1, <1>2 DEF Count

LEMMA LateAlike ==
    ASSUME NEW p \in Player, NEW late \in Nat
    PROVE  LET q == [Count(p, late) EXCEPT !.next = @ - late] IN Alike(p, q) /\ q.driver = p.driver
<1> DEFINE u == Count(p, late)
<1>1. u \in Player
  <2>1. late \in Int
      OBVIOUS
  <2> QED
      BY <2>1, Counted
<1>2. Alike(p, u) /\ u.driver = p.driver
    BY CountAlike
<1> HIDE DEF u
<1>3. \A x : Alike(u, [u EXCEPT !.next = x]) /\ [u EXCEPT !.next = x].driver = u.driver
    BY <1>1 DEF Player, Alike
<1>4. Alike(p, [u EXCEPT !.next = @ - late]) /\ [u EXCEPT !.next = @ - late].driver = p.driver
    BY <1>2, <1>3 DEF Alike
<1> QED
    BY <1>4 DEF u

LEMMA CallOffAlike ==
    ASSUME NEW p \in Player, NEW left \in Nat, NEW timer
    PROVE  LET q == CallOff(p, left, timer) IN Alike(p, q) /\ q.driver = p.driver
<1> DEFINE u == IF p.timer = Off THEN p ELSE Count(p, -left)
<1>1. u \in Player
  <2>1. -left \in Int
      OBVIOUS
  <2> QED
      BY <2>1, Counted
<1>2. Alike(p, u) /\ u.driver = p.driver
    BY CountAlike DEF Alike
<1>3. CallOff(p, left, timer) = [u EXCEPT !.timer = timer]
    BY DEF CallOff
<1> HIDE DEF u
<1>4. Alike(u, [u EXCEPT !.timer = timer]) /\ [u EXCEPT !.timer = timer].driver = u.driver
    BY <1>1 DEF Player, Alike
<1> QED
    BY <1>2, <1>3, <1>4 DEF Alike

LEMMA RescheduledAlike ==
    ASSUME NEW p \in Player, NEW cycles \in Int
    PROVE  /\ Alike(p, Reschedule(p, cycles)) /\ Alike(p, Reschedule(Afresh(p), cycles))
           /\ Reschedule(p, cycles).driver = p.driver
           /\ Reschedule(Afresh(p), cycles).driver = p.driver
<1>1. ASSUME NEW q \in Player
      PROVE  Alike(q, Reschedule(q, cycles)) /\ Reschedule(q, cycles).driver = q.driver
  <2>2. \A c \in Int : Count(q, c) \in Player /\ Alike(q, Count(q, c)) /\ Count(q, c).driver = q.driver
      BY Counted, CountAlike
  <2>3. CASE cycles > 0
    <3> DEFINE u == Count(q, cycles)
    <3>1. Reschedule(q, cycles) = [u EXCEPT !.next = 0, !.timer = cycles]
        BY <2>3 DEF Reschedule
    <3>2. u \in Player /\ Alike(q, u) /\ u.driver = q.driver
        BY <2>2
    <3> HIDE DEF u
    <3> DEFINE v == [u EXCEPT !.next = 0, !.timer = cycles]
    <3>3. Alike(q, v) /\ v.driver = q.driver
        BY <3>2 DEF Player, Alike
    <3> QED
        BY <3>1, <3>3
  <2>4. CASE ~(cycles > 0)
    <3> DEFINE u == Count(q, 1)
    <3>1. Reschedule(q, cycles) = [u EXCEPT !.timer = 1] /\ 1 \in Int
        BY <2>4 DEF Reschedule
    <3>2. u \in Player /\ Alike(q, u) /\ u.driver = q.driver
        BY <2>2, <3>1
    <3> HIDE DEF u
    <3> DEFINE v == [u EXCEPT !.timer = 1]
    <3>3. Alike(q, v) /\ v.driver = q.driver
        BY <3>2 DEF Player, Alike
    <3> QED
        BY <3>1, <3>3
  <2> QED
      BY <2>3, <2>4
<1> DEFINE v == Afresh(p)
<1>2. v \in Player /\ v = [p EXCEPT !.diff = 0, !.wrapped = FALSE]
    BY AfreshPlayer
<1> HIDE DEF v
<1>3. Alike(p, v) /\ v.driver = p.driver
    BY <1>2 DEF Player, Alike
<1>4. Alike(v, Reschedule(v, cycles)) /\ Reschedule(v, cycles).driver = v.driver
    BY <1>1, <1>2
<1> QED
    BY <1>1, <1>3, <1>4 DEF v, Alike

LEMMA SignalSays ==
    ASSUME NEW n \in Nat, n >= 1, NEW ps \in [1 .. n -> Player], NEW mask
    PROVE  /\ DOMAIN Signal(ps, mask) = 1 .. n
           /\ Signal(ps, mask)[1].mask = ps[1].mask \ mask
           /\ Signal(ps, mask)[1].awake = (ps[1].awake \/ ps[1].mask \ mask = {})
           /\ Signal(ps, mask)[1].driver = ps[1].driver
           /\ \A j \in 1 .. n : j # 1 => Signal(ps, mask)[j] = ps[j]
<1> DEFINE left == ps[1].mask \ mask
           woken == ps[1].awake \/ left = {}
           p == [ps[1] EXCEPT !.mask = left, !.awake = woken]
<1>1. 1 \in 1 .. n /\ ps[1] \in Player
    OBVIOUS
<1>2. Signal(ps, mask) = [ps EXCEPT ![1] = p]
    BY <1>1 DEF Signal, Player
<1>3. p.mask = left /\ p.awake = woken /\ p.driver = ps[1].driver
  <2> HIDE DEF left, woken
  <2> QED
      BY <1>1 DEF Player
<1> HIDE DEF p, woken, left
<1>4. /\ DOMAIN [ps EXCEPT ![1] = p] = 1 .. n /\ [ps EXCEPT ![1] = p][1] = p
      /\ \A j \in 1 .. n : j # 1 => [ps EXCEPT ![1] = p][j] = ps[j]
    BY <1>1
<1> QED
    BY <1>2, <1>3, <1>4 DEF left, woken

LEMMA SignalPlayers ==
    ASSUME NEW n \in Nat, n >= 1, NEW ps \in [1 .. n -> Player], NEW mask
    PROVE  Signal(ps, mask) \in [1 .. n -> Player]
<1> DEFINE F == [j \in 1 .. n |-> Player]
<1>1. Closed(Player)
    BY PlayersClosed
<1>2. Fits(F, n) /\ ps \in Tables(F) /\ DOMAIN F = 1 .. n
    BY <1>1 DEF Fits, Tables
<1>3. Signal(ps, mask) \in Tables(F)
    BY <1>2, SignalTable
<1> QED
    BY <1>2, <1>3 DEF Tables

\* A signal for players that sleep with their part done, or that were not asked.
LEMMA SignalWaits ==
    ASSUME NEW n \in Nat, n >= 1, NEW ps \in [1 .. n -> Player], NEW mask, NEW ph
    PROVE  /\ Silent(ps) => Silent(Signal(ps, mask))
           /\ Open(ps) => Open(Signal(ps, mask))
           /\ Answered(ps, ph)
              /\ (\A j \in mask : j \in 1 .. n /\ j # 1 /\ ps[j].with => Asleep(ps[j], ph))
                => Answered(Signal(ps, mask), ph)
<1> DEFINE qs == Signal(ps, mask)
<1>1. /\ DOMAIN qs = 1 .. n /\ DOMAIN ps = 1 .. n /\ 1 \in 1 .. n
      /\ qs[1].mask = ps[1].mask \ mask
      /\ qs[1].awake = (ps[1].awake \/ ps[1].mask \ mask = {})
      /\ \A j \in 1 .. n : j # 1 => qs[j] = ps[j]
    BY SignalSays
<1> HIDE DEF qs
<1>2. Silent(ps) => Silent(qs)
    BY <1>1 DEF Silent
<1>3. Open(ps) => Open(qs)
    BY <1>1 DEF Open
<1>4. ASSUME Answered(ps, ph), \A j \in mask : j \in 1 .. n /\ j # 1 /\ ps[j].with => Asleep(ps[j], ph)
      PROVE  Answered(qs, ph)
    BY <1>1, <1>4 DEF Answered
<1> QED
    BY <1>2, <1>3, <1>4 DEF qs

LEMMA WokenSays ==
    ASSUME NEW p \in Player, NEW cycles \in Int
    PROVE  LET q == WakeAt([p EXCEPT !.posted = @ + cycles])
           IN  q.mask = p.mask /\ q.with = p.with
<1> DEFINE u == [p EXCEPT !.posted = p.posted + cycles]
<1>1. [p EXCEPT !.posted = @ + cycles] = u
    BY DEF Player
<1>2. u \in Player /\ u.mask = p.mask /\ u.with = p.with
    BY DEF Player
<1> HIDE DEF u
<1>3. WakeAt(u) = [u EXCEPT !.next = IF u.awake THEN u.next ELSE u.next + u.posted, !.awake = TRUE]
    BY <1>2 DEF WakeAt, Player
<1>4. WakeAt(u).mask = u.mask /\ WakeAt(u).with = u.with
    BY <1>2, <1>3 DEF Player
<1> QED
    BY <1>1, <1>2, <1>4

LEMMA PostSays ==
    ASSUME NEW n \in Nat, n >= 1, NEW ps \in [1 .. n -> Player], NEW cycles \in Int
    PROVE  LET qs == PostToAll(ps, cycles)
           IN  /\ DOMAIN qs = 1 .. n /\ qs[1] = ps[1]
               /\ \A j \in 1 .. n : qs[j].mask = ps[j].mask /\ qs[j].with = ps[j].with
<1> DEFINE woken(j) == WakeAt([ps[j] EXCEPT !.posted = @ + cycles])
           given(j) == IF j # 1 /\ ps[j].mode \in LinkModes THEN woken(j) ELSE ps[j]
<1>1. PostToAll(ps, cycles) = [j \in 1 .. n |-> given(j)]
    BY DEF PostToAll
<1>2. \A j \in 1 .. n : woken(j).mask = ps[j].mask /\ woken(j).with = ps[j].with
    BY WokenSays
<1> HIDE DEF woken
<1> QED
    BY <1>1, <1>2

\* unload, of a player but the master and of the master.
LetGo(n, i, ps, qs) ==
    /\ DOMAIN qs = 1 .. n
    /\ i = 1 => qs[1].awake = ps[1].awake /\ \A j \in 1 .. n : qs[j].mask = ps[j].mask
    /\ i # 1 => /\ qs[1].mask = ps[1].mask \ {i}
                /\ qs[1].awake = (ps[1].awake \/ ps[1].mask \ {i} = {})
                /\ qs[1].driver = ps[1].driver
                /\ qs[i].mask = ps[i].mask
                /\ \A j \in 1 .. n : j # 1 /\ j # i => qs[j] = ps[j]

LEMMA ReleasedSays ==
    ASSUME NEW n \in Nat, NEW i \in 1 .. n, NEW ps \in [1 .. n -> Player]
    PROVE  LetGo(n, i, ps, Released(ps, i))
<1>. USE DEF LetGo
<1>1. CASE i = 1
  <2> DEFINE woken(j) == WakeAt([ps[j] EXCEPT !.posted = @ + ps[1].diff])
             given(j) == IF j # 1 THEN woken(j) ELSE ps[j]
  <2>1. Released(ps, i) = [j \in 1 .. n |-> given(j)]
      BY <1>1 DEF Released
  <2>2. ps[1].diff \in Int
      BY <1>1 DEF Player
  <2>3. \A j \in 1 .. n : woken(j).mask = ps[j].mask
      BY <2>2, WokenSays
  <2> HIDE DEF woken
  <2> QED
      BY <1>1, <2>1, <2>3
<1>2. CASE i # 1
  <2> DEFINE none == [ps[i] EXCEPT !.posted = 0]
             rs == [ps EXCEPT ![i] = none]
  <2>1. n >= 1 /\ 1 \in 1 .. n
      OBVIOUS
  <2>2. none \in Player /\ none.mask = ps[i].mask
      BY DEF Player
  <2>3. Released(ps, i) = Signal(rs, {i})
      BY <1>2 DEF Released
  <2> HIDE DEF none
  <2>4. /\ rs \in [1 .. n -> Player] /\ rs[i] = none /\ rs[1] = ps[1]
        /\ \A j \in 1 .. n : j # 1 /\ j # i => rs[j] = ps[j]
      BY <1>2, <2>1, <2>2
  <2> HIDE DEF rs
  <2>5. /\ DOMAIN Signal(rs, {i}) = 1 .. n
        /\ Signal(rs, {i})[1].mask = rs[1].mask \ {i}
        /\ Signal(rs, {i})[1].awake = (rs[1].awake \/ rs[1].mask \ {i} = {})
        /\ Signal(rs, {i})[1].driver = rs[1].driver
        /\ \A j \in 1 .. n : j # 1 => Signal(rs, {i})[j] = rs[j]
      BY <2>1, <2>4, SignalSays
  <2> QED
      BY <1>2, <2>2, <2>3, <2>4, <2>5
<1> QED
    BY <1>1, <1>2

LEMMA ReleasedWith ==
    ASSUME NEW n \in Nat, NEW i \in 1 .. n, NEW ps \in [1 .. n -> Player], i # 1
    PROVE  Released(ps, i)[i].with = ps[i].with
<1> DEFINE none == [ps[i] EXCEPT !.posted = 0]
           rs == [ps EXCEPT ![i] = none]
<1>1. n >= 1 /\ none \in Player /\ none.with = ps[i].with
  <2>1. n >= 1 /\ ps[i] \in Player
      OBVIOUS
  <2>2. none \in Player
    <3>1. 0 \in Int
        OBVIOUS
    <3> QED
        BY <2>1, <3>1, PlayersClosed DEF Closed
  <2>3. none.with = ps[i].with
      BY <2>1 DEF Player
  <2> QED
      BY <2>1, <2>2, <2>3
<1>2. Released(ps, i) = Signal(rs, {i})
    BY DEF Released
<1> HIDE DEF none
<1>3. rs \in [1 .. n -> Player] /\ rs[i] = none
    BY <1>1
<1> HIDE DEF rs
<1>4. Signal(rs, {i})[i] = rs[i]
    BY <1>1, <1>3, SignalSays
<1> QED
    BY <1>1, <1>2, <1>3, <1>4

\* The players qs are ps but for the one at seat i, who was unloaded; a master that was
\* may have woken the others.
Freed(n, i, ps, qs) ==
    /\ DOMAIN qs = 1 .. n
    /\ i = 1 => qs[1].awake = ps[1].awake /\ \A j \in 1 .. n : qs[j].mask = ps[j].mask
    /\ i # 1 => /\ qs[1].mask = ps[1].mask \ {i}
                /\ qs[1].awake = (ps[1].awake \/ ps[1].mask \ {i} = {})
                /\ qs[1].driver = ps[1].driver
                /\ qs[i].mask = ps[i].mask /\ ~qs[i].with
                /\ \A j \in 1 .. n : j # 1 /\ j # i => qs[j] = ps[j]

LEMMA UnloadedSays ==
    ASSUME NEW n \in Nat, NEW i \in 1 .. n, NEW ps \in Tables(AnyAt(i, n)), NEW left \in Nat
    PROVE  Freed(n, i, ps, Unloaded(ps, i, left))
<1> DEFINE off      == CallOff(ps[i], left, Off)
           called   == [ps EXCEPT ![i] = off]
           released == Released(called, i)
           gone(q)  == [q EXCEPT !.finished = TRUE, !.driver = "off", !.with = FALSE]
           qs       == Unloaded(ps, i, left)
<1>1. ps[i] \in Player /\ ps \in [1 .. n -> Player] /\ 1 \in 1 .. n
    BY DEF Tables, AnyAt
<1>2. off \in Player /\ off.mask = ps[i].mask /\ off.awake = ps[i].awake
  <2>1. off \in CalledOff /\ Alike(ps[i], off)
      BY <1>1, CallingOff, CallOffAlike
  <2> HIDE DEF off
  <2> QED
      BY <2>1 DEF CalledOff, Alike
<1> HIDE DEF off
<1>3. /\ called \in [1 .. n -> Player] /\ called[i] = off
      /\ \A j \in 1 .. n : j # i => called[j] = ps[j]
    BY <1>1, <1>2
<1> HIDE DEF called
<1>4. LetGo(n, i, called, released)
    BY <1>3, ReleasedSays
<1>5. qs = [released EXCEPT ![i].finished = TRUE, ![i].driver = "off", ![i].with = FALSE]
    BY DEF Unloaded, called, off
<1>6. released[i] \in Player
  <2>1. Fits([j \in 1 .. n |-> Player], n)
    <3>1. Closed(Player)
        BY PlayersClosed
    <3> QED
        BY <3>1 DEF Fits
  <2>2. called \in Tables([j \in 1 .. n |-> Player])
      BY <1>3 DEF Tables
  <2>3. released \in Tables([j \in 1 .. n |-> Player])
      BY <2>1, <2>2, ReleasedTable
  <2> HIDE DEF released
  <2> QED
      BY <2>3 DEF Tables
<1> HIDE DEF released, qs
<1>. USE DEF LetGo
<1>7. qs = [released EXCEPT ![i] = gone(released[i])]
    BY <1>4, <1>5
<1>8. gone(released[i]).mask = released[i].mask /\ gone(released[i]).with = FALSE
      /\ gone(released[i]).awake = released[i].awake
    BY <1>6 DEF Player
<1> HIDE DEF gone
<1>9. /\ DOMAIN qs = 1 .. n /\ qs[i] = gone(released[i])
      /\ \A j \in 1 .. n : j # i => qs[j] = released[j]
    BY <1>4, <1>7
<1>10. ASSUME i = 1 PROVE qs[1].awake = ps[1].awake /\ \A j \in 1 .. n : qs[j].mask = ps[j].mask
    BY <1>1, <1>2, <1>3, <1>4, <1>8, <1>9, <1>10
<1>11. ASSUME i # 1
       PROVE  /\ qs[1].mask = ps[1].mask \ {i}
              /\ qs[1].awake = (ps[1].awake \/ ps[1].mask \ {i} = {})
              /\ qs[1].driver = ps[1].driver
              /\ qs[i].mask = ps[i].mask /\ ~qs[i].with
              /\ \A j \in 1 .. n : j # 1 /\ j # i => qs[j] = ps[j]
    BY <1>1, <1>2, <1>3, <1>4, <1>8, <1>9, <1>11
<1> QED
    BY <1>9, <1>10, <1>11 DEF Freed, qs

\* A player that leaves the cable, or its mode, is no longer waited for.
LEMMA FreedWaits ==
    ASSUME NEW n \in Nat, NEW i \in 1 .. n, NEW ps, DOMAIN ps = 1 .. n, NEW qs, NEW ph,
           Freed(n, i, ps, qs), Silent(ps), Open(ps)
    PROVE  /\ Silent(qs) /\ Open(qs)
           /\ i # 1 /\ Answered(ps, ph) => Answered(qs, ph)
<1>1. /\ DOMAIN qs = 1 .. n /\ DOMAIN ps = 1 .. n /\ 1 \in 1 .. n
      /\ i = 1 => qs[1].awake = ps[1].awake /\ \A j \in 1 .. n : qs[j].mask = ps[j].mask
      /\ i # 1 => /\ qs[1].mask = ps[1].mask \ {i}
                  /\ qs[1].awake = (ps[1].awake \/ ps[1].mask \ {i} = {})
                  /\ qs[i].mask = ps[i].mask /\ ~qs[i].with
                  /\ \A j \in 1 .. n : j # 1 /\ j # i => qs[j] = ps[j]
    BY DEF Freed
<1>2. Silent(qs)
    BY <1>1 DEF Silent
<1>3. Open(qs)
    BY <1>1 DEF Open
<1>4. ASSUME i # 1, Answered(ps, ph) PROVE Answered(qs, ph)
    BY <1>1, <1>4 DEF Answered
<1> QED
    BY <1>2, <1>3, <1>4

LEMMA UnloadedWaits ==
    ASSUME NEW n \in Nat, NEW i \in 1 .. n, NEW ps \in Tables(Same(n)), NEW left \in Nat, NEW ph,
           Silent(ps), Open(ps)
    PROVE  /\ Silent(Unloaded(ps, i, left)) /\ Open(Unloaded(ps, i, left))
           /\ i # 1 /\ Answered(ps, ph) => Answered(Unloaded(ps, i, left), ph)
<1>1. DOMAIN ps = 1 .. n
    BY DEF Tables, Same
<1>2. Freed(n, i, ps, Unloaded(ps, i, left))
    BY SameAny, UnloadedSays
<1> QED
    BY <1>1, <1>2, FreedWaits

\* A reset does to the waiting what an unload does.
LEMMA ResetSays ==
    ASSUME Inv, NEW i \in Seats, ResetCore(i)
    PROVE  Freed(Attached, i, players, players') /\ players'[i].driver = "off"
<1> DEFINE n    == Attached
           off  == [players[i] EXCEPT !.timer = Off]
           ps   == [players EXCEPT ![i].timer = Off]
           gone == Unloaded(ps, i, 0)
           u    == [gone[i] EXCEPT !.mode = "gpio"]
<1>1. /\ n \in Nat /\ i \in 1 .. n /\ 1 \in 1 .. n /\ players \in Tables(Same(n))
      /\ DOMAIN players = 1 .. n /\ players[i] \in Player
    BY Given
<1>2. /\ ps \in Tables(AnyAt(i, n)) /\ DOMAIN ps = 1 .. n
      /\ ps = [players EXCEPT ![i] = off]
  <2>1. /\ ps \in Tables(AnyAt(i, n))
        /\ ps = [players EXCEPT ![i] = off]
      BY <1>1, SameAny
  <2> QED
      BY <2>1 DEF Tables, AnyAt
<1>3. Alike(players[i], off)
    BY <1>1 DEF Player, Alike
<1>4. players' = [gone EXCEPT ![i].mode = "gpio"]
    BY DEF ResetCore
<1> HIDE DEF ps, off
<1>5. Freed(n, i, ps, gone) /\ gone \in Tables(Same(n)) /\ gone[i].driver = "off"
    BY <1>1, <1>2, UnloadedSays, UnloadedTable
<1> HIDE DEF gone
<1>6. DOMAIN gone = 1 .. n /\ gone[i] \in Player
    BY <1>1, <1>5 DEF Tables, Same
<1>7. players' = [gone EXCEPT ![i] = u] /\ Alike(gone[i], u) /\ u.driver = "off"
    BY <1>1, <1>4, <1>5, <1>6 DEF Player, Alike
<1> HIDE DEF u
<1>8. /\ ps[i] = off /\ \A j \in 1 .. n : j # i => ps[j] = players[j]
      /\ DOMAIN players' = 1 .. n /\ players'[i] = u
      /\ \A j \in 1 .. n : j # i => players'[j] = gone[j]
    BY <1>1, <1>2, <1>6, <1>7
<1> QED
    BY <1>1, <1>3, <1>5, <1>7, <1>8 DEF Freed, Alike

LEMMA PhaseSays ==
    ASSUME phase \in Phases, NEW p \in OnPlayer
    PROVE  MasterPhase(p).mask = p.mask /\ MasterPhase(p).awake = p.awake
<1>1. p \in Player
    BY DEF OnPlayer, SoundPlayer
<1>2. /\ \A x, b : LET q == [p EXCEPT !.next = x, !.ready = b] IN q.mask = p.mask /\ q.awake = p.awake
      /\ \A x, b : LET q == [p EXCEPT !.next = x, !.finished = b] IN q.mask = p.mask /\ q.awake = p.awake
      /\ \A x : LET q == [p EXCEPT !.next = x] IN q.mask = p.mask /\ q.awake = p.awake
    BY <1>1 DEF Player
<1>3. CASE phase = "idle"
  <2> DEFINE b == IF p.mode = "multi" THEN loaded["multi"] = Attached ELSE p.ready
  <2>1. MasterPhase(p) = [p EXCEPT !.next = p.next + Increment, !.ready = b]
      BY <1>1, <1>3 DEF MasterPhase, Player
  <2> HIDE DEF b
  <2> QED
      BY <1>2, <2>1
<1>4. CASE phase = "starting"
    BY <1>2, <1>4 DEF MasterPhase
<1>5. CASE phase = "started"
    BY <1>2, <1>5 DEF MasterPhase
<1>6. CASE phase = "finishing"
    BY <1>2, <1>6 DEF MasterPhase
<1>7. CASE phase = "finished"
    BY <1>2, <1>7 DEF MasterPhase
<1> QED
    BY <1>3, <1>4, <1>5, <1>6, <1>7 DEF Phases

\* After its update the master waits for the players it has just told, if for any.
LEMMA MasterWaits ==
    ASSUME Inv, 1 \in Seats, NEW p \in OnPlayer, Silent(players), p.mask = {}
    PROVE  LET qs == MasterUpdate(p)
           IN  /\ DOMAIN qs = Seats /\ Silent(qs) /\ Open(qs)
               /\ NeedsToWait => \A i \in Others : qs[i].with => i \in qs[1].mask
<1> DEFINE n    == Attached
           mine == MasterPhase(p)
           own  == [players EXCEPT ![1] = mine]
           told == IF SameMode = {} THEN own
                   ELSE IF NeedsToWait THEN Wait(own, SameMode) ELSE Signal(own, SameMode)
           asked == IF NeedsToWait THEN AskedFor(told, SameMode) ELSE told
           qs   == PostToAll(asked, p.diff)
<1>1. /\ n \in Nat /\ 1 \in 1 .. n /\ n >= 1 /\ players \in Tables(Same(n)) /\ n <= MaxPlayers
      /\ Seats = 1 .. n
    BY Given
<1>2. players \in [1 .. n -> Player]
    BY <1>1 DEF Tables, Same
<1>3. mine \in Player /\ mine.mask = {}
  <2>1. mine \in OnPlayer
      BY PhaseOn DEF Inv, TypeOK
  <2>2. mine.mask = p.mask
      BY PhaseSays DEF Inv, TypeOK
  <2> QED
      BY <2>1, <2>2 DEF OnPlayer, SoundPlayer
<1> HIDE DEF mine
<1>4. /\ own \in [1 .. n -> Player] /\ own[1] = mine
      /\ \A j \in 1 .. n : j # 1 => own[j] = players[j]
    BY <1>1, <1>2, <1>3
<1> HIDE DEF own
<1>5. Silent(own) /\ Open(own)
  <2>1. DOMAIN own = 1 .. n /\ DOMAIN players = 1 .. n
      BY <1>2, <1>4
  <2> QED
      BY <1>3, <1>4, <2>1 DEF Silent, Open
<1>6. /\ told \in [1 .. n -> Player] /\ Silent(told) /\ Open(told)
      /\ NeedsToWait => told[1].mask = SameMode
  <2>1. CASE SameMode = {}
      BY <1>3, <1>4, <1>5, <2>1
  <2>2. CASE SameMode # {} /\ NeedsToWait
    <3> DEFINE all == own[1].mask \cup SameMode
               q == [own[1] EXCEPT !.mask = all, !.awake = FALSE]
    <3>1. all = SameMode
        BY <1>3, <1>4
    <3>2. SameMode \in SUBSET (2 .. MaxPlayers)
      <4>1. \A i \in 1 .. n : i # 1 => i \in 2 .. MaxPlayers
          BY <1>1, LockstepAssumption
      <4> QED
          BY <1>1, <4>1 DEF SameMode, Others
    <3>3. told = [own EXCEPT ![1] = q]
        BY <1>1, <1>4, <2>2 DEF Wait, Player
    <3> HIDE DEF all
    <3>4. q.mask = all /\ ~q.awake /\ q \in Player
      <4> DEFINE asks == [own[1] EXCEPT !.mask = all]
      <4>1. own[1] \in Player /\ all \in SUBSET (2 .. MaxPlayers)
          BY <1>1, <1>4, <3>1, <3>2
      <4>2. asks \in Player /\ asks.mask = all
          BY <4>1 DEF Player
      <4>3. q = [asks EXCEPT !.awake = FALSE]
          OBVIOUS
      <4> HIDE DEF asks, q
      <4> QED
          BY <4>2, <4>3 DEF Player
    <3> HIDE DEF q, told
    <3>5. /\ told \in [1 .. n -> Player] /\ told[1] = q
          /\ \A j \in 1 .. n : j # 1 => told[j] = own[j]
        BY <1>1, <1>4, <3>3, <3>4
    <3>6. DOMAIN told = 1 .. n /\ DOMAIN own = 1 .. n
        BY <1>4, <3>5
    <3>7. Silent(told) /\ Open(told)
        BY <1>5, <3>4, <3>5, <3>6 DEF Silent, Open
    <3> QED
        BY <3>1, <3>4, <3>5, <3>7
  <2>3. CASE SameMode # {} /\ ~NeedsToWait
    <3>1. told = Signal(own, SameMode)
        BY <2>3
    <3>2. Silent(told) /\ Open(told)
        BY <1>1, <1>4, <1>5, <3>1, SignalWaits
    <3>3. Signal(own, SameMode) \in [1 .. n -> Player]
        BY <1>1, <1>4, SignalPlayers
    <3> QED
        BY <2>3, <3>1, <3>2, <3>3
  <2> QED
      BY <2>1, <2>2, <2>3
<1> HIDE DEF told
<1>7. /\ asked \in [1 .. n -> Player] /\ Silent(asked) /\ Open(asked)
      /\ NeedsToWait => \A i \in Others : asked[i].with => i \in asked[1].mask
  <2>1. CASE ~NeedsToWait
      BY <1>6, <2>1
  <2>2. CASE NeedsToWait
    <3> DEFINE with(j) == [told[j] EXCEPT !.with = j \in SameMode]
    <3>1. asked = [j \in 1 .. n |-> with(j)]
        BY <1>6, <2>2 DEF AskedFor
    <3>2. \A j \in 1 .. n : /\ with(j) \in Player /\ with(j).mask = told[j].mask
                            /\ with(j).awake = told[j].awake
                            /\ with(j).with = (j \in SameMode)
      <4> SUFFICES ASSUME NEW j \in 1 .. n
                   PROVE  /\ with(j) \in Player /\ with(j).mask = told[j].mask
                          /\ with(j).awake = told[j].awake
                          /\ with(j).with = (j \in SameMode)
          OBVIOUS
      <4> DEFINE b == j \in SameMode
      <4>1. told[j] \in Player /\ b \in BOOLEAN /\ with(j) = [told[j] EXCEPT !.with = b]
          BY <1>6
      <4> HIDE DEF b, with
      <4>2. /\ with(j) \in Player /\ with(j).mask = told[j].mask
            /\ with(j).awake = told[j].awake /\ with(j).with = b
          BY <4>1 DEF Player
      <4> QED
          BY <4>2 DEF b
    <3> HIDE DEF with, asked
    <3>3. /\ asked \in [1 .. n -> Player] /\ DOMAIN asked = 1 .. n /\ DOMAIN told = 1 .. n
          /\ \A j \in 1 .. n : /\ asked[j].mask = told[j].mask /\ asked[j].awake = told[j].awake
                                /\ asked[j].with = (j \in SameMode)
        BY <1>6, <3>1, <3>2
    <3>4. Silent(asked) /\ Open(asked)
        BY <1>1, <1>6, <3>3 DEF Silent, Open
    <3> QED
        BY <1>1, <1>6, <2>2, <3>3, <3>4 DEF Others
  <2> QED
      BY <2>1, <2>2
<1> HIDE DEF asked
<1>8. /\ DOMAIN qs = 1 .. n /\ qs[1] = asked[1]
      /\ \A j \in 1 .. n : qs[j].mask = asked[j].mask /\ qs[j].with = asked[j].with
  <2>1. p.diff \in Int
      BY DEF OnPlayer, SoundPlayer, Player
  <2> QED
      BY <1>1, <1>7, <2>1, PostSays, Zenon
<1>9. MasterUpdate(p) = qs
    BY DEF MasterUpdate, asked, told, own, mine
<1> HIDE DEF qs
<1>10. Silent(qs) /\ Open(qs)
  <2>1. DOMAIN asked = 1 .. n
      BY <1>7
  <2> QED
      BY <1>1, <1>7, <1>8, <2>1 DEF Silent, Open
<1> QED
    BY <1>1, <1>7, <1>8, <1>9, <1>10 DEF Others

\* A player that did its part sleeps before the master stops waiting for it.
LEMMA SlaveWaits ==
    ASSUME Inv, NEW i \in Seats, i # 1, NEW p \in OnPlayer, p.awake, Alike(players[i], p),
           Silent(players), Open(players)
    PROVE  LET qs == SlaveUpdate(i, p)
           IN  /\ DOMAIN qs = Seats /\ Silent(qs) /\ Open(qs)
               /\ Answered(players, phase) => Answered(qs, phase)
<1> DEFINE n     == Attached
           given == IF phase = "idle" /\ loaded[Counter(p.mode)] # Attached THEN p.posted + Increment ELSE p.posted
           acts  == phase \in {"started", "finished"} /\ CatchesUp(p)
           done  == IF acts THEN phase = "finished" ELSE p.finished
           runs  == given > p.diff
           ready == IF p.mode = "multi" THEN loaded["multi"] = Attached ELSE p.ready
           left  == given - p.diff
           node  == [p EXCEPT !.posted = left, !.finished = done, !.awake = runs, !.ready = ready]
           ps    == [players EXCEPT ![i] = node]
           qs    == SlaveUpdate(i, p)
<1>1. /\ n \in Nat /\ i \in 1 .. n /\ n >= 1 /\ Seats = 1 .. n /\ players \in Tables(Same(n))
      /\ 1 \in 1 .. n
    BY Given
<1>2. players \in [1 .. n -> Player] /\ p \in Player
    BY <1>1 DEF Tables, Same, OnPlayer, SoundPlayer
<1>3. p.posted \in Int /\ p.diff \in Int /\ p.finished \in BOOLEAN /\ p.ready \in BOOLEAN
    BY <1>2 DEF Player
<1>4. left \in Int /\ done \in BOOLEAN /\ runs \in BOOLEAN /\ ready \in BOOLEAN
  <2>1. given \in Int
      BY <1>3, LockstepAssumption
  <2> HIDE DEF given, acts
  <2>2. left \in Int /\ runs \in BOOLEAN
      BY <1>3, <2>1
  <2>3. done \in BOOLEAN /\ ready \in BOOLEAN
      BY <1>3
  <2> QED
      BY <2>2, <2>3
<1>5. acts => ~runs /\ done = (phase = "finished")
  <2>1. ASSUME acts PROVE given = p.posted /\ p.posted <= p.diff
      BY <2>1 DEF CatchesUp
  <2>2. ASSUME acts PROVE ~(p.posted > p.diff)
      BY <1>3, <2>1, <2>2
  <2> QED
      BY <2>1, <2>2
<1>6. qs = IF acts THEN Signal(ps, {i}) ELSE ps
  <2>1. node = [p EXCEPT !.posted = given - p.diff, !.finished = done,
                         !.awake = given > p.diff,
                         !.ready = IF p.mode = "multi" THEN loaded["multi"] = Attached ELSE @]
      BY <1>2 DEF Player
  <2> QED
      BY <2>1 DEF SlaveUpdate
<1> HIDE DEF left, done, runs, ready, acts, given, qs
<1>7. /\ node \in Player /\ node.mask = p.mask /\ node.with = p.with
      /\ node.awake = runs /\ node.finished = done
  <2> DEFINE a == [p EXCEPT !.posted = left]
             b == [a EXCEPT !.finished = done]
             c == [b EXCEPT !.awake = runs]
             d == [c EXCEPT !.ready = ready]
  <2>1. node = d
      OBVIOUS
  <2>2. a \in Player /\ a.mask = p.mask /\ a.with = p.with
      BY <1>2, <1>4 DEF Player
  <2> HIDE DEF a
  <2>3. b \in Player /\ b.mask = p.mask /\ b.with = p.with /\ b.finished = done
      BY <1>4, <2>2 DEF Player
  <2> HIDE DEF b
  <2>4. c \in Player /\ c.mask = p.mask /\ c.with = p.with /\ c.finished = done /\ c.awake = runs
      BY <1>4, <2>3 DEF Player
  <2> HIDE DEF c
  <2>5. d \in Player /\ d.mask = p.mask /\ d.with = p.with /\ d.finished = done /\ d.awake = runs
      BY <1>4, <2>4 DEF Player
  <2> QED
      BY <2>1, <2>5
<1> HIDE DEF node
<1>8. /\ ps \in [1 .. n -> Player] /\ ps[i] = node /\ ps[1] = players[1]
      /\ \A j \in 1 .. n : j # i => ps[j] = players[j]
      /\ DOMAIN ps = 1 .. n /\ DOMAIN players = 1 .. n
    BY <1>1, <1>2, <1>7
<1> HIDE DEF ps
<1>9. Silent(ps) /\ Open(ps)
    BY <1>1, <1>7, <1>8 DEF Silent, Open, Alike
<1>10. ASSUME Answered(players, phase)
       PROVE  Answered(ps, phase)
  <2> SUFFICES ASSUME phase \in {"started", "finished"}, NEW j \in 1 .. n, j # 1, ps[j].with
               PROVE  j \in ps[1].mask \/ Asleep(ps[j], phase)
      BY <1>8 DEF Answered
  <2>1. CASE j # i
      BY <1>8, <1>10, <2>1 DEF Answered
  <2>2. CASE j = i /\ acts
      BY <1>5, <1>7, <1>8, <2>2 DEF Asleep
  <2>3. CASE j = i /\ ~acts
    <3>1. players[i].with /\ players[i].awake
        BY <1>7, <1>8, <2>3 DEF Alike
    <3> QED
        BY <1>1, <1>8, <1>10, <2>3, <3>1 DEF Answered, Asleep
  <2> QED
      BY <2>1, <2>2, <2>3
<1>11. CASE acts
  <2>1. qs = Signal(ps, {i}) /\ DOMAIN qs = 1 .. n
      BY <1>1, <1>6, <1>8, <1>11, SignalSays
  <2>2. Asleep(ps[i], phase)
      BY <1>5, <1>7, <1>8, <1>11 DEF Asleep
  <2>3. Silent(qs) /\ Open(qs)
      BY <1>1, <1>8, <1>9, <2>1, SignalWaits
  <2>4. ASSUME Answered(players, phase) PROVE Answered(qs, phase)
    <3>1. Answered(ps, phase)
        BY <1>10, <2>4
    <3>2. \A j \in {i} : j \in 1 .. n /\ j # 1 /\ ps[j].with => Asleep(ps[j], phase)
        BY <2>2
    <3> QED
        BY <1>1, <1>8, <2>1, <3>1, <3>2, SignalWaits
  <2> QED
      BY <1>1, <2>1, <2>3, <2>4 DEF qs
<1>12. CASE ~acts
  <2>1. qs = ps
      BY <1>6, <1>12
  <2>2. ASSUME Answered(players, phase) PROVE Answered(ps, phase)
      BY <1>10, <2>2
  <2> QED
      BY <1>1, <1>8, <1>9, <2>1, <2>2 DEF qs
<1> QED
    BY <1>11, <1>12

\* The step that reschedules an event at the end of the update.
LEMMA RescheduledWaits ==
    ASSUME NEW n \in Nat, n >= 1, NEW i \in 1 .. n, NEW ps, NEW q, NEW qs, NEW ph,
           DOMAIN ps = 1 .. n, qs = [ps EXCEPT ![i] = q], Alike(ps[i], q)
    PROVE  /\ Silent(ps) => Silent(qs)
           /\ Open(ps) => Open(qs)
           /\ Answered(ps, ph) => Answered(qs, ph)
<1>1. DOMAIN qs = DOMAIN ps /\ 1 \in DOMAIN ps
    OBVIOUS
<1>2. \A j \in DOMAIN ps : Alike(ps[j], qs[j])
    BY DEF Alike
<1> QED
    BY <1>1, <1>2, AlikeWaits

----------------------------------------------------------------------------
\* One lemma for each action.

LEMMA EventWaits ==
    ASSUME Inv, Waits, NEW i \in Seats, NEW late \in Lates, Event(i, late)
    PROVE  Waits'
<1> DEFINE n == Attached
           q == players[i]
           p == [Count(q, late) EXCEPT !.next = @ - late]
           updates == p.next <= 0 /\ (Attached > 1 \/ p.mode # "multi")
           cycles == IF Attached < 2 /\ p.mode = "multi" THEN Alone ELSE q.next
<1>1. /\ n \in Nat /\ i \in 1 .. n /\ n >= 1 /\ Seats = 1 .. n /\ players \in Tables(Same(n))
      /\ DOMAIN players = 1 .. n /\ 1 \in 1 .. n
    BY Given
<1>2. q \in OnPlayer /\ q \in Player /\ late \in Nat /\ q.awake
    BY Given, LockstepAssumption DEF Event, OnPlayer, Running
<1>3. p \in OnPlayer /\ p \in Player /\ p.diff \in Int
  <2>1. p \in OnPlayer
      BY <1>2, LateNode
  <2> HIDE DEF p
  <2> QED
      BY <2>1 DEF OnPlayer, SoundPlayer, Player
<1>4. Alike(q, p)
    BY <1>2, LateAlike
<1>5. moved' = moved /\ Silent(players) /\ Open(players) /\ (moved \/ Answered(players, phase))
    BY DEF Event, Waits
<1>6. CASE ~updates
  <2> DEFINE v == Reschedule(p, cycles)
  <2>1. players' = [players EXCEPT ![i] = v] /\ phase' = phase
      BY <1>6 DEF Event
  <2>2. cycles \in Int
      BY <1>2, LockstepAssumption DEF Player
  <2> HIDE DEF cycles, p
  <2>3. Alike(p, v)
      BY <1>3, <2>2, RescheduledAlike
  <2> HIDE DEF v
  <2>4. Alike(players[i], v)
      BY <1>4, <2>3 DEF Alike
  <2>5. /\ Silent(players') /\ Open(players')
        /\ Answered(players, phase) => Answered(players', phase)
      BY <1>1, <1>5, <2>1, <2>4, RescheduledWaits
  <2> QED
      BY <1>5, <2>1, <2>5 DEF Waits
<1>7. CASE updates /\ i = 1 /\ ~(p.diff < 0)
  <2> DEFINE ps == MasterUpdate(p)
             far == IF NeedsToWait THEN 0 ELSE ps[1].next
             v == Reschedule(Afresh(ps[1]), far)
  <2>1. /\ players' = [ps EXCEPT ![1] = Reschedule(Afresh(@), IF NeedsToWait THEN 0 ELSE @.next)]
        /\ phase' = NextPhase
      BY <1>7 DEF Event
  <2>2. p.mask = {}
      BY <1>1, <1>2, <1>4, <1>5, <1>7 DEF Open, Alike
  <2> HIDE DEF p
  <2>3. /\ DOMAIN ps = 1 .. n /\ Silent(ps) /\ Open(ps)
        /\ NeedsToWait => \A j \in Others : ps[j].with => j \in ps[1].mask
      BY <1>1, <1>3, <1>5, <2>2, MasterWaits
  <2>4. ps[1] \in Player
    <3>1. ps \in Tables(OnAt(1, n))
        BY <1>1, <1>3, MasterTable
    <3> HIDE DEF ps
    <3> QED
        BY <1>1, <3>1 DEF Tables, OnAt
  <2> HIDE DEF ps
  <2>5. players' = [ps EXCEPT ![1] = v]
      BY <1>1, <2>1, <2>3
  <2>6. Alike(ps[1], v)
    <3>1. far \in Int
        BY <2>4 DEF Player
    <3> HIDE DEF far
    <3> QED
        BY <2>4, <3>1, RescheduledAlike
  <2> HIDE DEF v
  <2>7. Answered(ps, phase')
    <3>1. CASE NeedsToWait
        BY <1>1, <2>3, <3>1 DEF Answered, Others
    <3>2. CASE ~NeedsToWait
      <4>1. phase \in Phases
          BY DEF Inv, TypeOK
      <4>2. phase' \notin {"started", "finished"}
          BY <2>1, <3>2, <4>1 DEF NextPhase, NeedsToWait, Phases
      <4> QED
          BY <4>2 DEF Answered
    <3> QED
        BY <3>1, <3>2
  <2>8. players' = [ps EXCEPT ![i] = v] /\ Alike(ps[i], v)
      BY <1>7, <2>5, <2>6
  <2>9. Silent(players') /\ Open(players') /\ Answered(players', phase')
      BY <1>1, <2>3, <2>7, <2>8, RescheduledWaits
  <2> QED
      BY <2>9 DEF Waits
<1>8. CASE updates /\ i # 1
  <2> DEFINE ps == SlaveUpdate(i, p)
             v == Reschedule(Afresh(ps[i]), ps[i].posted)
  <2>1. players' = [ps EXCEPT ![i] = Reschedule(Afresh(@), @.posted)] /\ phase' = phase
      BY <1>8 DEF Event
  <2>2. p.awake
      BY <1>2, <1>4 DEF Alike
  <2> HIDE DEF p
  <2>3. /\ DOMAIN ps = 1 .. n /\ Silent(ps) /\ Open(ps)
        /\ Answered(players, phase) => Answered(ps, phase)
      BY <1>1, <1>3, <1>4, <1>5, <1>8, <2>2, SlaveWaits
  <2>4. ps[i] \in Player
    <3>1. ps \in Tables(OnAt(i, n))
        BY <1>3, SlaveTable
    <3> HIDE DEF ps
    <3> QED
        BY <1>1, <3>1 DEF Tables, OnAt
  <2> HIDE DEF ps
  <2>5. players' = [ps EXCEPT ![i] = v]
      BY <1>1, <2>1, <2>3
  <2>6. Alike(ps[i], v)
    <3>1. ps[i].posted \in Int
        BY <2>4 DEF Player
    <3> QED
        BY <2>4, <3>1, RescheduledAlike
  <2> HIDE DEF v
  <2>7. /\ Silent(players') /\ Open(players')
        /\ Answered(players, phase) => Answered(players', phase)
      BY <1>1, <2>3, <2>5, <2>6, RescheduledWaits
  <2> QED
      BY <1>5, <2>1, <2>7 DEF Waits
<1>9. CASE updates /\ i = 1 /\ p.diff < 0
  <2>1. players' = [players EXCEPT ![1] = p] /\ phase' = phase
      BY <1>9 DEF Event
  <2> HIDE DEF p
  <2>2. players' = [players EXCEPT ![i] = p]
      BY <1>9, <2>1
  <2>3. /\ Silent(players') /\ Open(players')
        /\ Answered(players, phase) => Answered(players', phase)
      BY <1>1, <1>4, <1>5, <2>2, RescheduledWaits
  <2> QED
      BY <1>5, <2>1, <2>3 DEF Waits
<1> QED
    BY <1>6, <1>7, <1>8, <1>9

LEMMA StartTransferWaits ==
    ASSUME Inv, Waits, 1 \in Seats, NEW left \in Lefts(1), StartTransfer(left)
    PROVE  Waits'
<1> DEFINE n == Attached
           v == CallOff(players[1], left, 0)
<1>1. /\ n \in Nat /\ 1 \in 1 .. n /\ n >= 1 /\ DOMAIN players = 1 .. n /\ players[1] \in Player
    BY Given
<1>2. /\ players' = [players EXCEPT ![1] = v] /\ phase' = "starting" /\ moved' = moved
      /\ Silent(players) /\ Open(players)
    BY <1>1 DEF StartTransfer, Waits
<1>3. Alike(players[1], v)
    BY <1>1, LeftIsNat, CallOffAlike DEF Inv
<1> HIDE DEF v
<1>4. Silent(players') /\ Open(players')
  <2>1. PICK i \in 1 .. n : i = 1
      BY <1>1
  <2>2. players' = [players EXCEPT ![i] = v] /\ Alike(players[i], v)
      BY <1>2, <1>3, <2>1
  <2> QED
      BY <1>1, <1>2, <2>2, RescheduledWaits
<1>5. Answered(players', phase')
    BY <1>2 DEF Answered
<1> QED
    BY <1>4, <1>5 DEF Waits

LEMMA SwitchWaits ==
    ASSUME Inv, Waits, NEW i \in Seats, NEW m \in Modes, NEW left \in Lefts(i), Switch(i, m, left)
    PROVE  Waits'
<1> DEFINE n  == Attached
           on == players[i].driver = "on"
           ps == IF on THEN Unloaded(players, i, left) ELSE players
           d  == IF m \in LinkModes THEN "load" ELSE "off"
           v  == [ps[i] EXCEPT !.mode = m, !.driver = d]
<1>1. /\ n \in Nat /\ i \in 1 .. n /\ n >= 1 /\ players \in Tables(Same(n))
      /\ DOMAIN players = 1 .. n /\ 1 \in 1 .. n /\ players[i].awake /\ left \in Nat
    BY Given, LeftIsNat DEF Switch, Running, Inv
<1>2. /\ players' = [ps EXCEPT ![i].mode = m, ![i].driver = d]
      /\ phase' = (IF on /\ i = 1 THEN "idle" ELSE phase) /\ moved' = moved
      /\ Silent(players) /\ Open(players) /\ (moved \/ Answered(players, phase))
    BY DEF Switch, Waits
<1>3. ps \in Tables(Same(n))
    BY <1>1, SameAny, UnloadedTable
<1>4. Silent(ps) /\ Open(ps)
  <2>1. CASE on
      BY <1>1, <1>2, <2>1, UnloadedWaits
  <2>2. CASE ~on
      BY <1>2, <2>2
  <2> QED
      BY <2>1, <2>2
<1>5. moved \/ Answered(ps, phase')
  <2>1. CASE on /\ i # 1
      BY <1>1, <1>2, <2>1, UnloadedWaits
  <2>2. CASE ~on
      BY <1>2, <2>2
  <2>3. CASE on /\ i = 1
    <3>1. phase' = "idle"
        BY <1>2, <2>3
    <3> QED
        BY <3>1 DEF Answered
  <2> QED
      BY <2>1, <2>2, <2>3
<1> HIDE DEF ps
<1>6. ps \in [1 .. n -> Player] /\ DOMAIN ps = 1 .. n /\ ps[i] \in Player
    BY <1>1, <1>3 DEF Tables, Same
<1>7. players' = [ps EXCEPT ![i] = v]
    BY <1>1, <1>2, <1>6
<1>8. Alike(ps[i], v)
    BY <1>6 DEF Player, Alike
<1> HIDE DEF v
<1>9. /\ Silent(players') /\ Open(players')
      /\ Answered(ps, phase') => Answered(players', phase')
    BY <1>1, <1>4, <1>6, <1>7, <1>8, RescheduledWaits
<1> QED
    BY <1>2, <1>5, <1>9 DEF Waits

LEMMA LoadWaits ==
    ASSUME Inv, Waits, NEW i \in Seats, Load(i)
    PROVE  Waits'
<1> DEFINE n == Attached
           q == players[i]
           ready == IF q.mode = "multi" THEN loaded'["multi"] = Attached ELSE q.ready
           w == Afresh(q)
           v == [w EXCEPT !.driver = "on", !.timer = 0, !.next = 0, !.ready = ready]
<1>1. n \in Nat /\ i \in 1 .. n /\ n >= 1 /\ DOMAIN players = 1 .. n /\ q \in Player
    BY Given
<1>2. players' = [players EXCEPT ![i] = v]
  <2>1. players' = [players EXCEPT ![i] = Afresh(@), ![i].driver = "on", ![i].timer = 0, ![i].next = 0,
                      ![i].ready = IF q.mode = "multi" THEN loaded'["multi"] = Attached ELSE @]
      BY DEF Load
  <2>2. w.ready = q.ready /\ w.mode = q.mode /\ w \in Player
    <3>1. w \in Player /\ w = [q EXCEPT !.diff = 0, !.wrapped = FALSE]
        BY <1>1, AfreshPlayer
    <3> HIDE DEF w
    <3> QED
        BY <1>1, <3>1 DEF Player
  <2> QED
      BY <1>1, <2>1, <2>2
<1>3. w \in Player /\ w = [q EXCEPT !.diff = 0, !.wrapped = FALSE]
    BY <1>1, AfreshPlayer
<1> HIDE DEF ready, w
<1>4. Alike(q, w)
    BY <1>1, <1>3 DEF Player, Alike
<1>5. Alike(players[i], v)
    BY <1>3, <1>4 DEF Player, Alike
<1> HIDE DEF v
<1>6. /\ phase' = phase /\ moved' = moved /\ Silent(players) /\ Open(players)
      /\ (moved \/ Answered(players, phase))
    BY DEF Load, Waits
<1>7. /\ Silent(players') /\ Open(players')
      /\ Answered(players, phase) => Answered(players', phase)
    BY <1>1, <1>2, <1>5, <1>6, RescheduledWaits
<1> QED
    BY <1>6, <1>7 DEF Waits

LEMMA AttachWaits ==
    ASSUME Inv, Waits, Attach
    PROVE  Waits'
<1> DEFINE n    == Attached
           more == Append(players, NewPlayer)
           qs   == Released(more, n + 1)
<1>1. /\ n \in Nat /\ players \in Seq(SoundPlayer) /\ n = Len(players)
      /\ DOMAIN players = 1 .. n
    BY Given
<1>2. /\ players' = qs /\ phase' = phase /\ moved' = moved
      /\ Silent(players) /\ Open(players) /\ (moved \/ Answered(players, phase))
    BY DEF Attach, Waits
<1>3. NewPlayer \in Player /\ NewPlayer.mask = {} /\ ~NewPlayer.with
    BY DEF NewPlayer, Player, Modes
<1>4. /\ more \in [1 .. n + 1 -> Player] /\ more[n + 1] = NewPlayer
      /\ \A j \in 1 .. n : more[j] = players[j]
      /\ n + 1 \in Nat /\ n + 1 \in 1 .. n + 1
  <2>1. players \in Seq(Player)
      BY <1>1 DEF SoundPlayer
  <2>2. /\ more \in Seq(Player) /\ Len(more) = n + 1
        /\ \A j \in 1 .. n : more[j] = players[j]
        /\ more[n + 1] = NewPlayer
      BY <1>1, <1>3, <2>1, AppendProperties
  <2> HIDE DEF more
  <2>3. more \in [1 .. n + 1 -> Player]
      BY <2>2
  <2> QED
      BY <1>1, <2>2, <2>3
<1> HIDE DEF more
<1>5. LetGo(n + 1, n + 1, more, qs)
    BY <1>4, ReleasedSays
<1> HIDE DEF qs
<1>. USE DEF LetGo
<1>6. CASE n = 0
  <2>1. DOMAIN qs = {1} /\ qs[1].mask = {}
    <3>1. 1 .. n + 1 = {1}
        BY <1>6
    <3> QED
        BY <1>3, <1>4, <1>5, <1>6, <3>1
  <2>2. Silent(qs) /\ Open(qs) /\ Answered(qs, phase)
      BY <2>1 DEF Silent, Open, Answered
  <2> QED
      BY <1>2, <2>2 DEF Waits
<1>7. CASE n # 0
  <2>1. n + 1 # 1 /\ 1 \in 1 .. n /\ 1 \in 1 .. n + 1
      BY <1>1, <1>7
  <2>2. Silent(qs)
    <3> SUFFICES ASSUME NEW j \in 1 .. n + 1, j # 1 PROVE qs[j].mask = {}
        BY <1>5 DEF Silent
    <3>1. CASE j = n + 1
        BY <1>3, <1>4, <1>5, <2>1, <3>1
    <3>2. CASE j # n + 1
      <4>1. j \in 1 .. n
          BY <1>1, <3>2
      <4> QED
          BY <1>1, <1>2, <1>4, <1>5, <2>1, <3>2, <4>1 DEF Silent
    <3> QED
        BY <3>1, <3>2
  <2>3. Open(qs)
      BY <1>1, <1>2, <1>4, <1>5, <2>1 DEF Open
  <2>4. ASSUME Answered(players, phase) PROVE Answered(qs, phase)
    <3> SUFFICES ASSUME phase \in {"started", "finished"}, NEW j \in 1 .. n + 1, j # 1, qs[j].with
                 PROVE  j \in qs[1].mask \/ Asleep(qs[j], phase)
        BY <1>5 DEF Answered
    <3>1. CASE j # n + 1
      <4>1. j \in 1 .. n /\ qs[j] = players[j]
          BY <1>1, <1>4, <1>5, <2>1, <3>1
      <4>2. j \in players[1].mask \/ Asleep(players[j], phase)
          BY <1>1, <2>4, <4>1 DEF Answered
      <4> QED
          BY <1>4, <1>5, <2>1, <3>1, <4>1, <4>2
    <3>2. CASE j = n + 1
      <4>1. ~qs[n + 1].with
          BY <1>1, <1>3, <1>4, <1>5, <2>1, ReleasedWith DEF qs
      <4> QED
          BY <3>2, <4>1
    <3> QED
        BY <3>1, <3>2
  <2> QED
      BY <1>2, <2>2, <2>3, <2>4 DEF Waits
<1> QED
    BY <1>6, <1>7

LEMMA RemovedSays ==
    ASSUME NEW S, NEW s \in Seq(S), NEW i \in 1 .. Len(s)
    PROVE  \A j \in 1 .. Len(s) - 1 :
             RemoveAt(s, i)[j] = IF j < i THEN s[j] ELSE s[j + 1]
<1> DEFINE front == SubSeq(s, 1, i - 1)
           back  == SubSeq(s, i + 1, Len(s))
<1>1. Len(s) \in Nat /\ \A j \in 1 .. Len(s) : s[j] \in S
    OBVIOUS
<1>2. /\ front \in Seq(S) /\ Len(front) = i - 1
      /\ \A j \in 1 .. i - 1 : front[j] = s[j]
  <2>1. \A j \in 1 .. i - 1 : s[j] \in S
      BY <1>1
  <2>2. i - 1 \in Int /\ (IF 1 <= i - 1 THEN i - 1 - 1 + 1 ELSE 0) = i - 1
      BY <1>1
  <2>3. /\ front \in Seq(S)
        /\ Len(front) = IF 1 <= i - 1 THEN i - 1 - 1 + 1 ELSE 0
        /\ \A j \in 1 .. i - 1 - 1 + 1 : front[j] = s[1 + j - 1]
      BY <2>1, <2>2, SubSeqProperties
  <2> HIDE DEF front
  <2> QED
      BY <1>1, <2>2, <2>3
<1>3. /\ back \in Seq(S) /\ Len(back) = Len(s) - i
      /\ \A j \in 1 .. Len(s) - i : back[j] = s[i + j]
  <2>1. \A j \in i + 1 .. Len(s) : s[j] \in S
      BY <1>1
  <2>2. i + 1 \in Int /\ (IF i + 1 <= Len(s) THEN Len(s) - (i + 1) + 1 ELSE 0) = Len(s) - i
      BY <1>1
  <2>3. /\ back \in Seq(S)
        /\ Len(back) = IF i + 1 <= Len(s) THEN Len(s) - (i + 1) + 1 ELSE 0
        /\ \A j \in 1 .. Len(s) - (i + 1) + 1 : back[j] = s[i + 1 + j - 1]
      BY <1>1, <2>1, <2>2, SubSeqProperties
  <2> HIDE DEF back
  <2> QED
      BY <1>1, <2>2, <2>3
<1>4. RemoveAt(s, i) = front \o back
    BY DEF RemoveAt
<1> HIDE DEF front, back
<1>5. \A j \in 1 .. Len(front) + Len(back) :
        (front \o back)[j] = IF j <= Len(front) THEN front[j] ELSE back[j - Len(front)]
    BY <1>2, <1>3, ConcatProperties
<1> SUFFICES ASSUME NEW j \in 1 .. Len(s) - 1
             PROVE  RemoveAt(s, i)[j] = IF j < i THEN s[j] ELSE s[j + 1]
    OBVIOUS
<1>6. j \in 1 .. Len(front) + Len(back)
    BY <1>1, <1>2, <1>3
<1>7. CASE j < i
    BY <1>1, <1>2, <1>4, <1>5, <1>6, <1>7
<1>8. CASE ~(j < i)
  <2>1. j - Len(front) \in 1 .. Len(s) - i /\ i + (j - Len(front)) = j + 1 /\ ~(j <= Len(front))
      BY <1>1, <1>2, <1>8
  <2> QED
      BY <1>3, <1>4, <1>5, <1>6, <1>8, <2>1
<1> QED
    BY <1>7, <1>8

\* The seats above the one that was left: nobody there may be waited for.
LEMMA DetachWaits ==
    ASSUME Inv, Waits, NEW i \in Seats, NEW left \in Lefts(i), Detach(i, left)
    PROVE  Waits'
<1> DEFINE n     == Attached
           once  == Unloaded(players, i, left)
           twice == Unloaded(once, i, 0)
<1>1. /\ n \in Nat /\ i \in 1 .. n /\ n >= 1 /\ players \in Tables(Same(n))
      /\ DOMAIN players = 1 .. n /\ 1 \in 1 .. n /\ left \in Nat /\ 0 \in Nat
    BY Given, LeftIsNat DEF Inv
<1>2. /\ phase' = (IF i = 1 THEN "idle" ELSE phase)
      /\ moved' = (moved \/ (i # 1 /\ \E j \in players[1].mask : j > i))
      /\ Silent(players) /\ Open(players) /\ (moved \/ Answered(players, phase))
    BY DEF Detach, Waits
<1>3. once \in Tables(Same(n)) /\ Freed(n, i, players, once)
    BY <1>1, SameAny, UnloadedTable, UnloadedSays
<1>4. /\ Silent(once) /\ Open(once)
      /\ i # 1 /\ Answered(players, phase) => Answered(once, phase)
    BY <1>1, <1>2, UnloadedWaits
<1>5. players' = RemoveAt(twice, i)
    BY DEF Detach
<1> HIDE DEF once
<1>6. twice \in Tables(Same(n)) /\ Freed(n, i, once, twice)
    BY <1>1, <1>3, SameAny, UnloadedTable, UnloadedSays
<1>7. ASSUME i # 1
      PROVE  /\ Silent(twice) /\ Open(twice)
             /\ Answered(players, phase) => Answered(twice, phase)
    BY <1>1, <1>3, <1>4, <1>7, UnloadedWaits
<1> HIDE DEF twice
<1>8. /\ DOMAIN players' = 1 .. n - 1
      /\ \A j \in 1 .. n - 1 : players'[j] = IF j < i THEN twice[j] ELSE twice[j + 1]
  <2>1. twice \in Seq(SoundPlayer) /\ Len(twice) = n
      BY <1>1, <1>6, TableIsSeq
  <2>2. players' \in Seq(SoundPlayer) /\ Len(players') = n - 1
      BY <1>1, <1>5, <2>1, RemovedSeq
  <2>3. \A j \in 1 .. n - 1 : RemoveAt(twice, i)[j] = IF j < i THEN twice[j] ELSE twice[j + 1]
      BY <1>1, <2>1, RemovedSays
  <2> QED
      BY <1>5, <2>2, <2>3
<1>9. CASE i = 1
  <2>1. \A j \in 1 .. n : j # 1 => twice[j].mask = {}
      BY <1>1, <1>2, <1>3, <1>6, <1>9 DEF Silent, Freed
  <2>2. \A j \in 1 .. n - 1 : players'[j].mask = {}
    <3> SUFFICES ASSUME NEW j \in 1 .. n - 1 PROVE players'[j].mask = {}
        OBVIOUS
    <3>1. ~(j < i) /\ j + 1 \in 1 .. n /\ j + 1 # 1
        BY <1>1, <1>9
    <3> QED
        BY <1>8, <2>1, <3>1
  <2>3. Silent(players') /\ Open(players') /\ Answered(players', phase')
      BY <1>2, <1>8, <1>9, <2>2 DEF Silent, Open, Answered
  <2> QED
      BY <2>3 DEF Waits
<1>10. CASE i # 1
  <2>1. /\ 1 \in 1 .. n - 1 /\ players'[1] = twice[1] /\ DOMAIN twice = 1 .. n
        /\ twice[1].mask \subseteq players[1].mask
    <3>1. 1 \in 1 .. n - 1 /\ 1 < i
        BY <1>1, <1>10
    <3> QED
        BY <1>3, <1>6, <1>8, <1>10, <3>1 DEF Freed
  <2>2. Silent(players')
    <3> SUFFICES ASSUME NEW j \in 1 .. n - 1, j # 1 PROVE players'[j].mask = {}
        BY <1>8 DEF Silent
    <3>1. j \in 1 .. n /\ j + 1 \in 1 .. n /\ j + 1 # 1
        BY <1>1
    <3> QED
        BY <1>7, <1>8, <1>10, <2>1, <3>1 DEF Silent
  <2>3. Open(players')
      BY <1>1, <1>7, <1>8, <1>10, <2>1 DEF Open
  <2>4. ASSUME ~moved' PROVE Answered(players', phase')
    <3>1. Answered(twice, phase) /\ phase' = phase /\ ~\E j \in players[1].mask : j > i
        BY <1>2, <1>7, <1>10, <2>4
    <3> SUFFICES ASSUME phase \in {"started", "finished"}, NEW j \in 1 .. n - 1, j # 1, players'[j].with
                 PROVE  j \in players'[1].mask \/ Asleep(players'[j], phase)
        BY <1>8, <3>1 DEF Answered
    <3>2. CASE j < i
      <4>1. j \in 1 .. n /\ players'[j] = twice[j]
          BY <1>1, <1>8, <3>2
      <4> QED
          BY <2>1, <3>1, <4>1 DEF Answered
    <3>3. CASE ~(j < i)
      <4>1. j + 1 \in 1 .. n /\ j + 1 # 1 /\ j + 1 > i /\ players'[j] = twice[j + 1]
          BY <1>1, <1>8, <3>3
      <4>2. j + 1 \notin twice[1].mask
          BY <2>1, <3>1, <4>1
      <4> QED
          BY <2>1, <3>1, <4>1, <4>2 DEF Answered
    <3> QED
        BY <3>2, <3>3
  <2> QED
      BY <2>2, <2>3, <2>4 DEF Waits
<1> QED
    BY <1>9, <1>10

LEMMA ResetCoreWaits ==
    ASSUME Inv, Waits, NEW i \in Seats, ResetCore(i)
    PROVE  Waits'
<1>1. /\ Attached \in Nat /\ i \in 1 .. Attached /\ DOMAIN players = 1 .. Attached
      /\ Freed(Attached, i, players, players')
    BY Given, ResetSays
<1>2. /\ phase' = (IF i = 1 THEN "idle" ELSE phase) /\ moved' = moved
      /\ Silent(players) /\ Open(players) /\ (moved \/ Answered(players, phase))
    BY DEF ResetCore, Waits
<1>3. /\ Silent(players') /\ Open(players')
      /\ i # 1 /\ Answered(players, phase) => Answered(players', phase)
    BY <1>1, <1>2, FreedWaits
<1>4. moved' \/ Answered(players', phase')
    BY <1>2, <1>3 DEF Answered
<1> QED
    BY <1>3, <1>4 DEF Waits

LEMMA NextWaits == ASSUME Inv, Waits, Next PROVE Waits'
<1>1. CASE \E i \in Seats : SeatEvent(i)
    BY <1>1, EventWaits DEF SeatEvent
<1>2. CASE \E i \in Seats : Load(i)
    BY <1>2, LoadWaits
<1>3. CASE \E i \in Seats : \E left \in Lefts(i) : Detach(i, left)
    BY <1>3, DetachWaits
<1>4. CASE \E i \in Seats : \E left \in Lefts(i) : \E m \in Modes : Switch(i, m, left)
    BY <1>4, SwitchWaits
<1>5. CASE \E i \in Seats : \E left \in Lefts(i) : i = 1 /\ StartTransfer(left)
    BY <1>5, StartTransferWaits
<1>6. CASE Attach
    BY <1>6, AttachWaits
<1>7. CASE \E i \in Seats : ResetCore(i)
    BY <1>7, ResetCoreWaits
<1> QED
    BY <1>1, <1>2, <1>3, <1>4, <1>5, <1>6, <1>7 DEF Next

LEMMA InitWaits == ASSUME Init PROVE Waits
<1>1. DOMAIN players = {} /\ phase = "idle"
    BY DEF Init
<1> QED
    BY <1>1 DEF Waits, Silent, Open, Answered

\* The comment at lockstep.c:339, for any number of players and any cycles: when the
\* master leaves STARTED or FINISHED, every player of its last wait that is still in
\* its mode sleeps and did its part; up to the first time somebody leaves a seat below
\* another's during a wait.
THEOREM MasterWaitsForAll == Spec => CaughtUp
<1> DEFINE GoesOn == SeatEvent(1) /\ phase \in {"started", "finished"} /\ phase' # phase /\ ~moved =>
                        \A i \in Others : players[i].with =>
                           ~players[i].awake /\ players[i].finished = (phase = "finished")
<1>1. Init => Inv /\ Waits
    BY InitInv, InitWaits
<1>2. Inv /\ Waits /\ [Next]_vars => (Inv /\ Waits)'
  <2>1. ASSUME Inv, Waits, UNCHANGED vars PROVE Waits'
      BY <2>1 DEF vars, Waits
  <2> QED
      BY <2>1, NextKeeps, StutterKeeps, NextWaits
<1>3. Inv /\ Waits => [GoesOn]_vars
  <2> SUFFICES ASSUME Inv, Waits, SeatEvent(1), phase \in {"started", "finished"}, ~moved,
                      NEW i \in Others, players[i].with
               PROVE  ~players[i].awake /\ players[i].finished = (phase = "finished")
      OBVIOUS
  <2>1. 1 \in Seats /\ players[1].awake /\ DOMAIN players = Seats
      BY Given DEF SeatEvent, Event, Running
  <2>2. players[1].mask = {} /\ Answered(players, phase)
      BY <2>1 DEF Waits, Open
  <2> QED
      BY <2>1, <2>2 DEF Answered, Asleep, Others
<1>4. CaughtUp <=> [][GoesOn]_vars
    BY DEF CaughtUp
<1> HIDE DEF GoesOn
<1> QED
    BY <1>1, <1>2, <1>3, <1>4, PTL DEF Spec

----------------------------------------------------------------------------
\* Who runs while the master sleeps: the players it waits for, their events scheduled.

Live(p) == p.awake /\ p.driver = "on"

Attended(ps, ph) ==
    1 \in DOMAIN ps =>
       /\ ps[1].awake \/ ps[1].mask # {}
       /\ ps[1].mask # {} => ph \in {"started", "finished"}
       /\ \A j \in ps[1].mask : j \in DOMAIN ps /\ Live(ps[j])

\* The master was reset while it slept.
Still(ps) == 1 \in DOMAIN ps /\ ~ps[1].awake /\ ps[1].driver = "off"

Runs == moved \/ Still(players) \/ Attended(players, phase)

\* The master waits for fewer players, of whom none stopped, or goes on.
LEMMA AttendedKept ==
    ASSUME NEW ps, NEW qs, NEW ph, DOMAIN qs = DOMAIN ps, 1 \in DOMAIN ps, Attended(ps, ph),
           qs[1].mask \subseteq ps[1].mask,
           qs[1].awake \/ qs[1].mask # {},
           \A j \in qs[1].mask : Live(ps[j]) => Live(qs[j])
    PROVE  Attended(qs, ph)
    BY DEF Attended

\* The master is awake and waits for nobody.
LEMMA AttendedAwake ==
    ASSUME NEW qs, NEW ph, qs[1].awake, qs[1].mask = {}
    PROVE  Attended(qs, ph)
    BY DEF Attended

\* addCycles wakes the player, and leaves its driver and its mode.
LEMMA WokenLive ==
    ASSUME NEW p \in Player, NEW cycles \in Int
    PROVE  /\ WakeAt([p EXCEPT !.posted = @ + cycles]).awake
           /\ WakeAt([p EXCEPT !.posted = @ + cycles]).driver = p.driver
<1> DEFINE u == [p EXCEPT !.posted = p.posted + cycles]
<1>1. [p EXCEPT !.posted = @ + cycles] = u
    BY DEF Player
<1>2. u \in Player /\ u.driver = p.driver
    BY DEF Player
<1> HIDE DEF u
<1>3. WakeAt(u) = [u EXCEPT !.next = IF u.awake THEN u.next ELSE u.next + u.posted, !.awake = TRUE]
    BY <1>2 DEF WakeAt, Player
<1>4. WakeAt(u).driver = u.driver
    BY <1>2, <1>3 DEF Player
<1>5. WakeAt(u).awake
    BY <1>2, <1>3 DEF Player
<1> QED
    BY <1>1, <1>2, <1>4, <1>5

LEMMA PostLive ==
    ASSUME NEW n \in Nat, n >= 1, NEW ps \in [1 .. n -> Player], NEW cycles \in Int
    PROVE  \A j \in 1 .. n : j # 1 /\ ps[j].mode \in LinkModes =>
             PostToAll(ps, cycles)[j].awake /\ PostToAll(ps, cycles)[j].driver = ps[j].driver
<1> DEFINE woken(j) == WakeAt([ps[j] EXCEPT !.posted = @ + cycles])
           given(j) == IF j # 1 /\ ps[j].mode \in LinkModes THEN woken(j) ELSE ps[j]
<1>1. PostToAll(ps, cycles) = [j \in 1 .. n |-> given(j)]
    BY DEF PostToAll
<1>2. \A j \in 1 .. n : woken(j).awake /\ woken(j).driver = ps[j].driver
    BY WokenLive
<1> HIDE DEF woken
<1> QED
    BY <1>1, <1>2

\* When the master is unloaded, everybody else runs on.
LEMMA UnloadedMaster ==
    ASSUME NEW n \in Nat, NEW i \in 1 .. n, i = 1, NEW ps \in Tables(Same(n)), NEW left \in Nat
    PROVE  /\ Unloaded(ps, i, left)[1].awake = ps[1].awake
           /\ \A j \in 1 .. n : j # 1 => Unloaded(ps, i, left)[j].awake
<1> DEFINE off      == CallOff(ps[i], left, Off)
           called   == [ps EXCEPT ![i] = off]
           woken(j) == WakeAt([called[j] EXCEPT !.posted = @ + called[1].diff])
           released == Released(called, i)
           gone(q)  == [q EXCEPT !.finished = TRUE, !.driver = "off", !.with = FALSE]
           qs       == Unloaded(ps, i, left)
<1>1. ps[i] \in Player /\ ps \in [1 .. n -> Player]
    BY DEF Tables, Same
<1>2. off \in Player /\ off.awake = ps[i].awake
  <2>1. off \in CalledOff /\ Alike(ps[i], off)
      BY <1>1, CallingOff, CallOffAlike
  <2> HIDE DEF off
  <2> QED
      BY <2>1 DEF CalledOff, Alike
<1> HIDE DEF off
<1>3. called \in [1 .. n -> Player] /\ called[1] = off
    BY <1>1, <1>2
<1> HIDE DEF called
<1>4. released = [j \in 1 .. n |-> IF j # 1 THEN woken(j) ELSE called[j]]
    BY <1>3 DEF Released
<1>5. \A j \in 1 .. n : woken(j).awake
  <2>1. called[1].diff \in Int
      BY <1>2, <1>3 DEF Player
  <2> QED
      BY <1>3, <2>1, WokenLive
<1>6. qs = [released EXCEPT ![i].finished = TRUE, ![i].driver = "off", ![i].with = FALSE]
    BY DEF Unloaded, called, off
<1> HIDE DEF woken, released, qs
<1>7. DOMAIN released = 1 .. n /\ released[1] = off /\ \A j \in 1 .. n : j # 1 => released[j].awake
    BY <1>3, <1>4, <1>5
<1>8. qs = [released EXCEPT ![i] = gone(released[i])]
    BY <1>6, <1>7
<1>9. gone(off).awake = off.awake
    BY <1>2 DEF Player
<1> HIDE DEF gone
<1>10. qs[1] = gone(off) /\ \A j \in 1 .. n : j # 1 => qs[j] = released[j]
    BY <1>7, <1>8
<1> QED
    BY <1>2, <1>7, <1>9, <1>10 DEF qs

\* An update of the master's that ends in a wait has posted cycles to, and woken, every
\* player it waits for.
LEMMA MasterLive ==
    ASSUME Inv, 1 \in Seats, NEW p \in OnPlayer, p.mask = {}, p.awake,
           players[1].driver = "on"
    PROVE  Attended(MasterUpdate(p), NextPhase)
<1> DEFINE n    == Attached
           mine == MasterPhase(p)
           own  == [players EXCEPT ![1] = mine]
           told == IF SameMode = {} THEN own
                   ELSE IF NeedsToWait THEN Wait(own, SameMode) ELSE Signal(own, SameMode)
           asked == IF NeedsToWait THEN AskedFor(told, SameMode) ELSE told
           qs   == PostToAll(asked, p.diff)
<1>1. /\ n \in Nat /\ 1 \in 1 .. n /\ n >= 1 /\ players \in Tables(Same(n)) /\ n <= MaxPlayers
      /\ Seats = 1 .. n
    BY Given
<1>2. players \in [1 .. n -> Player] /\ phase \in Phases
    BY <1>1 DEF Tables, Same, Inv, TypeOK
<1>3. mine \in Player /\ mine.mask = {} /\ mine.awake
  <2>1. mine \in OnPlayer
      BY <1>2, PhaseOn
  <2>2. mine.mask = p.mask /\ mine.awake = p.awake
      BY <1>2, PhaseSays
  <2> QED
      BY <2>1, <2>2 DEF OnPlayer, SoundPlayer
<1>4. \A j \in SameMode : j \in 1 .. n /\ j # 1 /\ players[j].driver = "on"
                          /\ players[j].mode \in LinkModes
  <2>1. players[1].mode \in LinkModes
      BY <1>1 DEF Inv, TypeOK
  <2>2. "gpio" \notin LinkModes
      BY LockstepAssumption
  <2> QED
      BY <1>1, <2>1, <2>2 DEF SameMode, Others, NodeMode
<1> HIDE DEF mine
<1>5. /\ own \in [1 .. n -> Player] /\ own[1] = mine
      /\ \A j \in 1 .. n : j # 1 => own[j] = players[j]
    BY <1>1, <1>2, <1>3
<1> HIDE DEF own
<1>6. /\ told \in [1 .. n -> Player]
      /\ told[1].mask = {} => told[1].awake
      /\ told[1].mask # {} => NeedsToWait
      /\ told[1].mask \subseteq SameMode
      /\ \A j \in 1 .. n : j # 1 => told[j] = players[j]
  <2>1. CASE SameMode = {}
      BY <1>3, <1>5, <2>1
  <2>2. CASE SameMode # {} /\ NeedsToWait
    <3> DEFINE all == own[1].mask \cup SameMode
               q == [own[1] EXCEPT !.mask = all, !.awake = FALSE]
    <3>1. all = SameMode
        BY <1>3, <1>5
    <3>2. SameMode \in SUBSET (2 .. MaxPlayers)
      <4>1. \A i \in 1 .. n : i # 1 => i \in 2 .. MaxPlayers
          BY <1>1, LockstepAssumption
      <4> QED
          BY <1>4, <4>1
    <3>3. told = [own EXCEPT ![1] = q]
        BY <1>1, <1>5, <2>2 DEF Wait, Player
    <3> HIDE DEF all
    <3>4. q.mask = all /\ q \in Player
      <4> DEFINE asks == [own[1] EXCEPT !.mask = all]
      <4>1. own[1] \in Player /\ all \in SUBSET (2 .. MaxPlayers)
          BY <1>1, <1>5, <3>1, <3>2
      <4>2. asks \in Player /\ asks.mask = all
          BY <4>1 DEF Player
      <4>3. q = [asks EXCEPT !.awake = FALSE]
          OBVIOUS
      <4> HIDE DEF asks, q
      <4> QED
          BY <4>2, <4>3 DEF Player
    <3> HIDE DEF q, told
    <3>5. /\ told \in [1 .. n -> Player] /\ told[1] = q
          /\ \A j \in 1 .. n : j # 1 => told[j] = own[j]
        BY <1>1, <1>5, <3>3, <3>4
    <3> QED
        BY <1>5, <2>2, <3>1, <3>4, <3>5
  <2>3. CASE SameMode # {} /\ ~NeedsToWait
    <3>1. told = Signal(own, SameMode)
        BY <2>3
    <3>2. /\ told[1].mask = own[1].mask \ SameMode
          /\ told[1].awake = (own[1].awake \/ own[1].mask \ SameMode = {})
          /\ \A j \in 1 .. n : j # 1 => told[j] = own[j]
        BY <1>1, <1>5, <3>1, SignalSays
    <3>3. told \in [1 .. n -> Player]
        BY <1>1, <1>5, <3>1, SignalPlayers
    <3> HIDE DEF told
    <3> QED
        BY <1>3, <1>5, <3>2, <3>3
  <2> QED
      BY <2>1, <2>2, <2>3
<1> HIDE DEF told
<1>7. /\ asked \in [1 .. n -> Player]
      /\ asked[1].mask = {} => asked[1].awake
      /\ asked[1].mask # {} => NeedsToWait
      /\ asked[1].mask \subseteq SameMode
      /\ \A j \in 1 .. n : j # 1 => asked[j].driver = players[j].driver /\ asked[j].mode = players[j].mode
  <2>1. CASE ~NeedsToWait
      BY <1>6, <2>1
  <2>2. CASE NeedsToWait
    <3> DEFINE with(j) == [told[j] EXCEPT !.with = j \in SameMode]
    <3>1. asked = [j \in 1 .. n |-> with(j)]
        BY <1>6, <2>2 DEF AskedFor
    <3>2. \A j \in 1 .. n : /\ with(j) \in Player /\ with(j).mask = told[j].mask
                            /\ with(j).awake = told[j].awake
                            /\ with(j).driver = told[j].driver
                            /\ with(j).mode = told[j].mode
      <4> SUFFICES ASSUME NEW j \in 1 .. n
                   PROVE  /\ with(j) \in Player /\ with(j).mask = told[j].mask
                          /\ with(j).awake = told[j].awake
                          /\ with(j).driver = told[j].driver
                          /\ with(j).mode = told[j].mode
          OBVIOUS
      <4> DEFINE b == j \in SameMode
      <4>1. told[j] \in Player /\ b \in BOOLEAN /\ with(j) = [told[j] EXCEPT !.with = b]
          BY <1>6
      <4> HIDE DEF b, with
      <4>2. with(j) \in Player /\ with(j).mask = told[j].mask
          BY <4>1 DEF Player
      <4>3. /\ with(j).awake = told[j].awake /\ with(j).driver = told[j].driver
            /\ with(j).mode = told[j].mode
          BY <4>1 DEF Player
      <4> QED
          BY <4>2, <4>3
    <3> HIDE DEF with, asked
    <3>3. /\ asked \in [1 .. n -> Player]
          /\ \A j \in 1 .. n : /\ asked[j].mask = told[j].mask /\ asked[j].awake = told[j].awake
                                /\ asked[j].driver = told[j].driver /\ asked[j].mode = told[j].mode
        BY <1>6, <3>1, <3>2
    <3> QED
        BY <1>1, <1>6, <2>2, <3>3
  <2> QED
      BY <2>1, <2>2
<1> HIDE DEF asked
<1>8. /\ DOMAIN qs = 1 .. n /\ qs[1] = asked[1]
      /\ \A j \in 1 .. n : j # 1 /\ asked[j].mode \in LinkModes =>
                             qs[j].awake /\ qs[j].driver = asked[j].driver
  <2>1. p.diff \in Int
      BY DEF OnPlayer, SoundPlayer, Player
  <2>2. DOMAIN qs = 1 .. n /\ qs[1] = asked[1]
      BY <1>1, <1>7, <2>1, PostSays, Zenon
  <2> QED
      BY <1>1, <1>7, <2>1, <2>2, PostLive
<1>9. MasterUpdate(p) = qs
    BY DEF MasterUpdate, asked, told, own, mine
<1> HIDE DEF qs
<1>10. NeedsToWait => NextPhase \in {"started", "finished"}
    BY DEF NeedsToWait, NextPhase
<1>11. \A j \in qs[1].mask : j \in DOMAIN qs /\ Live(qs[j])
    BY <1>4, <1>7, <1>8 DEF Live
<1> QED
    BY <1>7, <1>8, <1>9, <1>10, <1>11 DEF Attended


\* A player that is waited for sleeps only after it has signalled.
LEMMA SlaveLive ==
    ASSUME Inv, NEW i \in Seats, i # 1, NEW p \in OnPlayer, p.awake, Alike(players[i], p),
           Attended(players, phase)
    PROVE  Attended(SlaveUpdate(i, p), phase)
<1> DEFINE n     == Attached
           given == IF phase = "idle" /\ loaded[Counter(p.mode)] # Attached THEN p.posted + Increment ELSE p.posted
           acts  == phase \in {"started", "finished"} /\ CatchesUp(p)
           done  == IF acts THEN phase = "finished" ELSE p.finished
           runs  == given > p.diff
           ready == IF p.mode = "multi" THEN loaded["multi"] = Attached ELSE p.ready
           left  == given - p.diff
           node  == [p EXCEPT !.posted = left, !.finished = done, !.awake = runs, !.ready = ready]
           ps    == [players EXCEPT ![i] = node]
           qs    == SlaveUpdate(i, p)
<1>1. /\ n \in Nat /\ i \in 1 .. n /\ n >= 1 /\ players \in Tables(Same(n)) /\ 1 \in 1 .. n
    BY Given
<1>2. /\ players \in [1 .. n -> Player] /\ p \in Player /\ p.driver = "on"
      /\ DOMAIN players = 1 .. n
    BY <1>1 DEF Tables, Same, OnPlayer, SoundPlayer
<1>3. p.posted \in Int /\ p.diff \in Int /\ p.finished \in BOOLEAN /\ p.ready \in BOOLEAN
    BY <1>2 DEF Player
<1>4. left \in Int /\ done \in BOOLEAN /\ runs \in BOOLEAN /\ ready \in BOOLEAN
  <2>1. given \in Int
      BY <1>3, LockstepAssumption
  <2> HIDE DEF given, acts
  <2>2. left \in Int /\ runs \in BOOLEAN
      BY <1>3, <2>1
  <2>3. done \in BOOLEAN /\ ready \in BOOLEAN
      BY <1>3
  <2> QED
      BY <2>2, <2>3
<1>5. phase \in {"started", "finished"} /\ ~acts => runs
  <2>1. ASSUME phase \in {"started", "finished"}, ~acts PROVE given = p.posted /\ ~(p.posted <= p.diff)
      BY <2>1 DEF CatchesUp
  <2>2. ASSUME phase \in {"started", "finished"}, ~acts PROVE p.posted > p.diff
      BY <1>3, <2>1, <2>2
  <2> QED
      BY <2>1, <2>2
<1>6. qs = IF acts THEN Signal(ps, {i}) ELSE ps
  <2>1. node = [p EXCEPT !.posted = given - p.diff, !.finished = done,
                         !.awake = given > p.diff,
                         !.ready = IF p.mode = "multi" THEN loaded["multi"] = Attached ELSE @]
      BY <1>2 DEF Player
  <2> QED
      BY <2>1 DEF SlaveUpdate
<1> HIDE DEF left, done, runs, ready, acts, given, qs
<1>7. node \in Player /\ node.driver = "on" /\ node.awake = runs
  <2> DEFINE a == [p EXCEPT !.posted = left]
             b == [a EXCEPT !.finished = done]
             c == [b EXCEPT !.awake = runs]
             d == [c EXCEPT !.ready = ready]
  <2>1. node = d
      OBVIOUS
  <2>2. a \in Player /\ a.driver = "on"
      BY <1>2, <1>4 DEF Player
  <2> HIDE DEF a
  <2>3. b \in Player /\ b.driver = "on"
      BY <1>4, <2>2 DEF Player
  <2> HIDE DEF b
  <2>4. c \in Player /\ c.driver = "on" /\ c.awake = runs
      BY <1>4, <2>3 DEF Player
  <2> HIDE DEF c
  <2>5. d \in Player /\ d.driver = "on" /\ d.awake = runs
      BY <1>4, <2>4 DEF Player
  <2> QED
      BY <2>1, <2>5
<1> HIDE DEF node
<1>8. /\ ps \in [1 .. n -> Player] /\ ps[i] = node /\ ps[1] = players[1]
      /\ \A j \in 1 .. n : j # i => ps[j] = players[j]
      /\ DOMAIN ps = 1 .. n
    BY <1>1, <1>2, <1>7
<1> HIDE DEF ps
<1>9. CASE acts
  <2>1. /\ DOMAIN qs = 1 .. n
        /\ qs[1].mask = players[1].mask \ {i}
        /\ qs[1].awake = (players[1].awake \/ players[1].mask \ {i} = {})
        /\ \A j \in 1 .. n : j # 1 /\ j # i => qs[j] = players[j]
      BY <1>1, <1>6, <1>8, <1>9, SignalSays
  <2>2. \A j \in players[1].mask : j \in 2 .. MaxPlayers /\ j \in 1 .. n
      BY <1>1, <1>2 DEF Attended, Player
  <2>3. \A j \in qs[1].mask : Live(players[j]) => Live(qs[j])
    <3> SUFFICES ASSUME NEW j \in qs[1].mask PROVE qs[j] = players[j]
        OBVIOUS
    <3>1. j \in players[1].mask /\ j # i /\ j # 1 /\ j \in 1 .. n
        BY <2>1, <2>2
    <3> QED
        BY <2>1, <3>1
  <2>4. Attended(qs, phase)
      BY <1>1, <1>2, <2>1, <2>3, AttendedKept
  <2> QED
      BY <2>4 DEF qs
<1>10. CASE ~acts
  <2>1. qs = ps
      BY <1>6, <1>10
  <2>2. \A j \in ps[1].mask : Live(players[j]) => Live(ps[j])
    <3> SUFFICES ASSUME NEW j \in ps[1].mask, Live(players[j]) PROVE Live(ps[j])
        OBVIOUS
    <3>1. j \in 1 .. n /\ phase \in {"started", "finished"}
        BY <1>1, <1>2, <1>8 DEF Attended
    <3>2. CASE j = i
        BY <1>5, <1>7, <1>8, <1>10, <3>1, <3>2 DEF Live
    <3>3. CASE j # i
        BY <1>8, <3>1, <3>3
    <3> QED
        BY <3>2, <3>3
  <2>3. Attended(ps, phase)
    <3>1. ps[1].awake \/ ps[1].mask # {}
        BY <1>1, <1>2, <1>8 DEF Attended
    <3> QED
        BY <1>1, <1>2, <1>8, <2>2, <3>1, AttendedKept
  <2> QED
      BY <2>1, <2>3 DEF qs
<1> QED
    BY <1>9, <1>10

\* A player changes in nothing that matters to who waits, or nobody waits for it.
LEMMA AlikeAttended ==
    ASSUME NEW n \in Nat, n >= 1, NEW i \in 1 .. n, NEW ps, NEW q, NEW qs, NEW ph,
           DOMAIN ps = 1 .. n, qs = [ps EXCEPT ![i] = q], Alike(ps[i], q),
           q.driver = ps[i].driver \/ q.driver = "on" \/ i \notin ps[1].mask,
           Attended(ps, ph)
    PROVE  Attended(qs, ph)
<1>1. DOMAIN qs = 1 .. n /\ 1 \in 1 .. n /\ qs[i] = q /\ \A j \in 1 .. n : j # i => qs[j] = ps[j]
    OBVIOUS
<1>2. qs[1].mask = ps[1].mask /\ qs[1].awake = ps[1].awake
    BY <1>1 DEF Alike
<1>3. \A j \in qs[1].mask : Live(ps[j]) => Live(qs[j])
  <2> SUFFICES ASSUME NEW j \in qs[1].mask, Live(ps[j]) PROVE Live(qs[j])
      OBVIOUS
  <2>1. j \in 1 .. n
      BY <1>1, <1>2 DEF Attended
  <2>2. CASE j = i
      BY <1>1, <1>2, <2>2 DEF Live, Alike
  <2>3. CASE j # i
      BY <1>1, <2>1, <2>3
  <2> QED
      BY <2>2, <2>3
<1>4. qs[1].awake \/ qs[1].mask # {}
    BY <1>1, <1>2 DEF Attended
<1> QED
    BY <1>1, <1>2, <1>3, <1>4, AttendedKept

LEMMA SlaveDriver ==
    ASSUME Inv, NEW i \in Seats, i # 1, NEW p \in OnPlayer
    PROVE  /\ SlaveUpdate(i, p) \in [1 .. Attached -> Player]
           /\ SlaveUpdate(i, p)[1].driver = players[1].driver
<1> DEFINE n == Attached
<1>1. /\ n \in Nat /\ i \in 1 .. n /\ n >= 1 /\ 1 \in 1 .. n /\ players \in [1 .. n -> Player]
    BY Given DEF Tables, Same
<1>2. SlaveUpdate(i, p) \in [1 .. n -> Player]
  <2>1. SlaveUpdate(i, p) \in Tables(OnAt(i, n))
      BY SlaveTable
  <2> QED
      BY <2>1 DEF Tables, OnAt
<1>3. PICK q : \/ SlaveUpdate(i, p) = [players EXCEPT ![i] = q]
               \/ SlaveUpdate(i, p) = Signal([players EXCEPT ![i] = q], {i})
    BY DEF SlaveUpdate
<1> DEFINE ps == [players EXCEPT ![i] = q]
<1>4. DOMAIN ps = 1 .. n /\ ps[1] = players[1] /\ ps[1] \in Player /\ ps = [j \in 1 .. n |-> ps[j]]
    BY <1>1
<1> HIDE DEF ps
<1>5. Signal(ps, {i})[1].driver = ps[1].driver
  <2>1. Signal(ps, {i}) = [ps EXCEPT ![1].mask = ps[1].mask \ {i},
                                     ![1].awake = @ \/ ps[1].mask \ {i} = {}]
      BY DEF Signal
  <2>2. Signal(ps, {i})[1] = [ps[1] EXCEPT !.mask = ps[1].mask \ {i},
                                         !.awake = @ \/ ps[1].mask \ {i} = {}]
      BY <1>1, <1>4, <2>1
  <2> QED
      BY <1>4, <2>2 DEF Player
<1> QED
    BY <1>2, <1>3, <1>4, <1>5 DEF ps

----------------------------------------------------------------------------
\* One lemma for each action.

LEMMA EventRuns ==
    ASSUME Inv, Waits, Attended(players, phase), NEW i \in Seats, NEW late \in Lates, Event(i, late)
    PROVE  Attended(players', phase')
<1> DEFINE n == Attached
           q == players[i]
           p == [Count(q, late) EXCEPT !.next = @ - late]
           updates == p.next <= 0 /\ (Attached > 1 \/ p.mode # "multi")
           cycles == IF Attached < 2 /\ p.mode = "multi" THEN Alone ELSE q.next
<1>1. /\ n \in Nat /\ i \in 1 .. n /\ n >= 1 /\ Seats = 1 .. n /\ players \in Tables(Same(n))
      /\ DOMAIN players = 1 .. n /\ 1 \in 1 .. n
    BY Given
<1>2. q \in OnPlayer /\ q \in Player /\ late \in Nat /\ q.awake /\ q.driver = "on"
    BY Given, LockstepAssumption DEF Event, OnPlayer, Running
<1>3. p \in OnPlayer /\ p \in Player /\ p.diff \in Int
  <2>1. p \in OnPlayer
      BY <1>2, LateNode
  <2> HIDE DEF p
  <2> QED
      BY <2>1 DEF OnPlayer, SoundPlayer, Player
<1>4. Alike(q, p) /\ p.driver = q.driver
    BY <1>2, LateAlike
<1>5. Open(players)
    BY DEF Waits
<1>6. CASE ~updates
  <2> DEFINE v == Reschedule(p, cycles)
  <2>1. players' = [players EXCEPT ![i] = v] /\ phase' = phase
      BY <1>6 DEF Event
  <2>2. cycles \in Int
      BY <1>2, LockstepAssumption DEF Player
  <2> HIDE DEF cycles, p
  <2>3. Alike(p, v) /\ v.driver = p.driver
      BY <1>3, <2>2, RescheduledAlike
  <2> HIDE DEF v
  <2>4. Alike(players[i], v) /\ v.driver = players[i].driver
      BY <1>4, <2>3 DEF Alike
  <2> QED
      BY <1>1, <2>1, <2>4, AlikeAttended
<1>7. CASE updates /\ i = 1 /\ ~(p.diff < 0)
  <2> DEFINE ps == MasterUpdate(p)
             far == IF NeedsToWait THEN 0 ELSE ps[1].next
             v == Reschedule(Afresh(ps[1]), far)
  <2>1. /\ players' = [ps EXCEPT ![1] = Reschedule(Afresh(@), IF NeedsToWait THEN 0 ELSE @.next)]
        /\ phase' = NextPhase
      BY <1>7 DEF Event
  <2>2. p.mask = {} /\ p.awake /\ players[1].driver = "on"
      BY <1>1, <1>2, <1>4, <1>5, <1>7 DEF Open, Alike
  <2> HIDE DEF p
  <2>3. Attended(ps, phase')
      BY <1>1, <1>3, <2>1, <2>2, MasterLive
  <2>4. ps[1] \in Player /\ DOMAIN ps = 1 .. n
    <3>1. ps \in Tables(OnAt(1, n))
        BY <1>1, <1>3, MasterTable
    <3> HIDE DEF ps
    <3> QED
        BY <1>1, <3>1 DEF Tables, OnAt
  <2> HIDE DEF ps
  <2>5. players' = [ps EXCEPT ![1] = v]
      BY <1>1, <2>1, <2>4
  <2>6. Alike(ps[1], v) /\ v.driver = ps[1].driver
    <3>1. far \in Int
        BY <2>4 DEF Player
    <3> HIDE DEF far
    <3> QED
        BY <2>4, <3>1, RescheduledAlike
  <2> HIDE DEF v
  <2>7. players' = [ps EXCEPT ![i] = v] /\ Alike(ps[i], v) /\ v.driver = ps[i].driver
      BY <1>7, <2>5, <2>6
  <2> QED
      BY <1>1, <2>3, <2>4, <2>7, AlikeAttended
<1>8. CASE updates /\ i # 1
  <2> DEFINE ps == SlaveUpdate(i, p)
             v == Reschedule(Afresh(ps[i]), ps[i].posted)
  <2>1. players' = [ps EXCEPT ![i] = Reschedule(Afresh(@), @.posted)] /\ phase' = phase
      BY <1>8 DEF Event
  <2>2. p.awake
      BY <1>2, <1>4 DEF Alike
  <2> HIDE DEF p
  <2>3. Attended(ps, phase)
      BY <1>1, <1>3, <1>4, <1>8, <2>2, SlaveLive
  <2>4. ps[i] \in Player /\ DOMAIN ps = 1 .. n
    <3>1. ps \in Tables(OnAt(i, n))
        BY <1>3, SlaveTable
    <3> HIDE DEF ps
    <3> QED
        BY <1>1, <3>1 DEF Tables, OnAt
  <2> HIDE DEF ps
  <2>5. players' = [ps EXCEPT ![i] = v]
      BY <1>1, <2>1, <2>4
  <2>6. Alike(ps[i], v) /\ v.driver = ps[i].driver
    <3>1. ps[i].posted \in Int
        BY <2>4 DEF Player
    <3> QED
        BY <2>4, <3>1, RescheduledAlike
  <2> HIDE DEF v
  <2> QED
      BY <1>1, <2>1, <2>3, <2>4, <2>5, <2>6, AlikeAttended
<1>9. CASE updates /\ i = 1 /\ p.diff < 0
  <2>1. players' = [players EXCEPT ![1] = p] /\ phase' = phase
      BY <1>9 DEF Event
  <2> HIDE DEF p
  <2>2. players' = [players EXCEPT ![i] = p]
      BY <1>9, <2>1
  <2> QED
      BY <1>1, <1>4, <2>1, <2>2, AlikeAttended
<1> QED
    BY <1>6, <1>7, <1>8, <1>9

LEMMA StartTransferRuns ==
    ASSUME Inv, Waits, 1 \in Seats, NEW left \in Lefts(1), StartTransfer(left)
    PROVE  Attended(players', phase')
<1> DEFINE n == Attached
           v == CallOff(players[1], left, 0)
<1>1. /\ n \in Nat /\ 1 \in 1 .. n /\ DOMAIN players = 1 .. n /\ players[1] \in Player
      /\ players[1].awake
    BY Given DEF StartTransfer, Running
<1>2. players' = [players EXCEPT ![1] = v] /\ players[1].mask = {}
    BY <1>1 DEF StartTransfer, Waits, Open
<1>3. v.mask = players[1].mask /\ v.awake = players[1].awake
  <2>1. Alike(players[1], v)
      BY <1>1, LeftIsNat, CallOffAlike DEF Inv
  <2> QED
      BY <2>1 DEF Alike
<1> HIDE DEF v
<1>4. players'[1] = v
    BY <1>1, <1>2
<1> QED
    BY <1>1, <1>2, <1>3, <1>4, AttendedAwake

\* Unloading a player but the master.
LEMMA FreedAttended ==
    ASSUME NEW n \in Nat, NEW i \in 1 .. n, i # 1, NEW ps \in Tables(Same(n)), NEW qs, NEW ph,
           Freed(n, i, ps, qs), Attended(ps, ph)
    PROVE  Attended(qs, ph) /\ i \notin qs[1].mask
<1>1. DOMAIN ps = 1 .. n /\ 1 \in 1 .. n /\ ps[1] \in Player
    BY DEF Tables, Same
<1>2. /\ DOMAIN qs = 1 .. n /\ qs[1].mask = ps[1].mask \ {i}
      /\ qs[1].awake = (ps[1].awake \/ ps[1].mask \ {i} = {})
      /\ \A j \in 1 .. n : j # 1 /\ j # i => qs[j] = ps[j]
    BY DEF Freed
<1>3. \A j \in qs[1].mask : Live(ps[j]) => Live(qs[j])
  <2> SUFFICES ASSUME NEW j \in qs[1].mask PROVE qs[j] = ps[j]
      OBVIOUS
  <2>1. j \in ps[1].mask /\ j # i
      BY <1>2
  <2>2. j \in 1 .. n
      BY <1>1, <2>1 DEF Attended
  <2>3. j # 1
    <3>1. j \in 2 .. MaxPlayers
        BY <1>1, <2>1 DEF Player
    <3> QED
        BY <3>1
  <2> QED
      BY <1>2, <2>1, <2>2, <2>3
<1> QED
    BY <1>1, <1>2, <1>3, AttendedKept

LEMMA SwitchRuns ==
    ASSUME Inv, Waits, Attended(players, phase),
           NEW i \in Seats, NEW m \in Modes, NEW left \in Lefts(i), Switch(i, m, left)
    PROVE  Attended(players', phase')
<1> DEFINE n  == Attached
           on == players[i].driver = "on"
           ps == IF on THEN Unloaded(players, i, left) ELSE players
           d  == IF m \in LinkModes THEN "load" ELSE "off"
           v  == [ps[i] EXCEPT !.mode = m, !.driver = d]
<1>1. /\ n \in Nat /\ i \in 1 .. n /\ n >= 1 /\ players \in Tables(Same(n))
      /\ DOMAIN players = 1 .. n /\ 1 \in 1 .. n /\ players[i].awake /\ left \in Nat
    BY Given, LeftIsNat DEF Switch, Running, Inv
<1>2. /\ players' = [ps EXCEPT ![i].mode = m, ![i].driver = d]
      /\ phase' = (IF on /\ i = 1 THEN "idle" ELSE phase) /\ Open(players)
    BY DEF Switch, Waits
<1>3. ps \in Tables(Same(n))
    BY <1>1, SameAny, UnloadedTable
<1>4. CASE i = 1
  <2>1. players[1].mask = {} /\ players[1].awake
      BY <1>1, <1>2, <1>4 DEF Open
  <2>2. ps[1].mask = {} /\ ps[1].awake
    <3>1. CASE ~on
        BY <2>1, <3>1
    <3>2. CASE on
      <4>1. Freed(n, i, players, ps)
          BY <1>1, <3>2, SameAny, UnloadedSays
      <4>2. ps[1].awake = players[1].awake
          BY <1>1, <1>4, <3>2, UnloadedMaster
      <4> HIDE DEF ps
      <4> QED
          BY <1>1, <1>4, <2>1, <4>1, <4>2 DEF Freed
    <3> QED
        BY <3>1, <3>2
  <2> HIDE DEF ps
  <2>3. ps \in [1 .. n -> Player] /\ ps[i] \in Player
      BY <1>1, <1>3 DEF Tables, Same
  <2>4. players' = [ps EXCEPT ![i] = v]
      BY <1>1, <1>2, <2>3
  <2>5. v.mask = ps[i].mask /\ v.awake = ps[i].awake
      BY <2>3 DEF Player
  <2> HIDE DEF v
  <2>6. players'[1] = v
      BY <1>1, <1>4, <2>3, <2>4
  <2> QED
      BY <1>4, <2>2, <2>5, <2>6, AttendedAwake
<1>5. CASE i # 1
  <2>1. Attended(ps, phase) /\ i \notin ps[1].mask
    <3>1. CASE on
        BY <1>1, <1>5, <3>1, SameAny, UnloadedSays, FreedAttended
    <3>2. CASE ~on
        BY <1>1, <3>2 DEF Attended, Live
    <3> QED
        BY <3>1, <3>2
  <2> HIDE DEF ps
  <2>2. ps \in [1 .. n -> Player] /\ ps[i] \in Player
      BY <1>1, <1>3 DEF Tables, Same
  <2>3. players' = [ps EXCEPT ![i] = v]
      BY <1>1, <1>2, <2>2
  <2>4. Alike(ps[i], v)
      BY <2>2 DEF Player, Alike
  <2> HIDE DEF v
  <2>5. Attended(players', phase)
      BY <1>1, <2>1, <2>2, <2>3, <2>4, AlikeAttended
  <2> QED
      BY <1>2, <1>5, <2>5
<1> QED
    BY <1>4, <1>5

LEMMA LoadRuns ==
    ASSUME Inv, Attended(players, phase), NEW i \in Seats, Load(i)
    PROVE  Attended(players', phase')
<1> DEFINE n == Attached
           q == players[i]
           ready == IF q.mode = "multi" THEN loaded'["multi"] = Attached ELSE q.ready
           w == Afresh(q)
           v == [w EXCEPT !.driver = "on", !.timer = 0, !.next = 0, !.ready = ready]
<1>1. n \in Nat /\ i \in 1 .. n /\ n >= 1 /\ DOMAIN players = 1 .. n /\ q \in Player
    BY Given
<1>2. players' = [players EXCEPT ![i] = v] /\ phase' = phase
  <2>1. players' = [players EXCEPT ![i] = Afresh(@), ![i].driver = "on", ![i].timer = 0, ![i].next = 0,
                      ![i].ready = IF q.mode = "multi" THEN loaded'["multi"] = Attached ELSE @]
      BY DEF Load
  <2>2. w.ready = q.ready /\ w.mode = q.mode /\ w \in Player
    <3>1. w \in Player /\ w = [q EXCEPT !.diff = 0, !.wrapped = FALSE]
        BY <1>1, AfreshPlayer
    <3> HIDE DEF w
    <3> QED
        BY <1>1, <3>1 DEF Player
  <2> QED
      BY <1>1, <2>1, <2>2 DEF Load
<1>3. w \in Player /\ w = [q EXCEPT !.diff = 0, !.wrapped = FALSE]
    BY <1>1, AfreshPlayer
<1> HIDE DEF ready, w
<1>4. Alike(q, w)
    BY <1>1, <1>3 DEF Player, Alike
<1>5. Alike(players[i], v)
    BY <1>3, <1>4 DEF Player, Alike
<1>6. v.driver = "on"
    BY <1>3 DEF Player
<1> HIDE DEF v
<1> QED
    BY <1>1, <1>2, <1>5, <1>6, AlikeAttended


LEMMA AttachRuns ==
    ASSUME Inv, Attended(players, phase), Attach
    PROVE  Attended(players', phase')
<1> DEFINE n    == Attached
           more == Append(players, NewPlayer)
           qs   == Released(more, n + 1)
<1>1. /\ n \in Nat /\ players \in Seq(SoundPlayer) /\ n = Len(players)
      /\ DOMAIN players = 1 .. n
    BY Given
<1>2. players' = qs /\ phase' = phase
    BY DEF Attach
<1>3. NewPlayer \in Player /\ NewPlayer.mask = {} /\ NewPlayer.awake
    BY DEF NewPlayer, Player, Modes
<1>4. /\ more \in [1 .. n + 1 -> Player] /\ more[n + 1] = NewPlayer
      /\ \A j \in 1 .. n : more[j] = players[j]
      /\ n + 1 \in Nat /\ n + 1 \in 1 .. n + 1
  <2>1. players \in Seq(Player)
      BY <1>1 DEF SoundPlayer
  <2>2. /\ more \in Seq(Player) /\ Len(more) = n + 1
        /\ \A j \in 1 .. n : more[j] = players[j]
        /\ more[n + 1] = NewPlayer
      BY <1>1, <1>3, <2>1, AppendProperties
  <2> HIDE DEF more
  <2>3. more \in [1 .. n + 1 -> Player]
      BY <2>2
  <2> QED
      BY <1>1, <2>2, <2>3
<1> HIDE DEF more
<1>5. CASE n = 0
  <2>1. n + 1 = 1 /\ 1 \in DOMAIN more
      BY <1>4, <1>5
  <2>2. qs[1] = more[1]
      BY <2>1 DEF Released
  <2>3. qs[1] = NewPlayer
      BY <1>4, <2>1, <2>2
  <2> QED
      BY <1>2, <1>3, <2>3, AttendedAwake
<1>6. CASE n # 0
  <2>1. n + 1 # 1 /\ 1 \in 1 .. n /\ 1 \in 1 .. n + 1 /\ DOMAIN more = 1 .. n + 1
      BY <1>1, <1>4, <1>6
  <2>2. LetGo(n + 1, n + 1, more, qs)
      BY <1>4, <2>1, ReleasedSays
  <2> HIDE DEF qs
  <2>. USE DEF LetGo
  <2>3. Attended(more, phase)
    <3>1. more[1] = players[1] /\ players[1].mask \subseteq 1 .. n
        BY <1>1, <1>4, <2>1 DEF Attended
    <3> QED
        BY <1>1, <1>4, <2>1, <3>1 DEF Attended
  <2>4. \A j \in qs[1].mask : Live(more[j]) => Live(qs[j])
    <3> SUFFICES ASSUME NEW j \in qs[1].mask PROVE qs[j] = more[j]
        OBVIOUS
    <3>1. j \in more[1].mask /\ j # n + 1 /\ more[1] \in Player
        BY <1>4, <2>1, <2>2
    <3>2. j \in 1 .. n + 1
        BY <2>1, <2>3, <3>1 DEF Attended
    <3>3. j # 1
      <4>1. j \in 2 .. MaxPlayers
          BY <3>1 DEF Player
      <4> QED
          BY <4>1
    <3> QED
        BY <2>2, <3>1, <3>2, <3>3
  <2>5. Attended(qs, phase)
      BY <2>1, <2>2, <2>3, <2>4, AttendedKept
  <2> QED
      BY <1>2, <2>5
<1> QED
    BY <1>5, <1>6

\* The table that a player left.
LEMMA DetachSays ==
    ASSUME Inv, NEW i \in Seats, NEW left \in Lefts(i), Detach(i, left)
    PROVE  LET n     == Attached
               once  == Unloaded(players, i, left)
               twice == Unloaded(once, i, 0)
           IN  /\ n \in Nat /\ i \in 1 .. n /\ 1 \in 1 .. n
               /\ once \in Tables(Same(n)) /\ Freed(n, i, players, once)
               /\ twice \in Tables(Same(n)) /\ Freed(n, i, once, twice)
               /\ i = 1 => \A j \in 1 .. n : j # 1 => twice[j].awake
               /\ DOMAIN players' = 1 .. n - 1
               /\ \A j \in 1 .. n - 1 : players'[j] = IF j < i THEN twice[j] ELSE twice[j + 1]
<1> DEFINE n     == Attached
           once  == Unloaded(players, i, left)
           twice == Unloaded(once, i, 0)
<1>1. /\ n \in Nat /\ i \in 1 .. n /\ n >= 1 /\ players \in Tables(Same(n))
      /\ DOMAIN players = 1 .. n /\ 1 \in 1 .. n /\ left \in Nat /\ 0 \in Nat
    BY Given, LeftIsNat DEF Inv
<1>3. once \in Tables(Same(n)) /\ Freed(n, i, players, once)
    BY <1>1, SameAny, UnloadedTable, UnloadedSays
<1>4. players' = RemoveAt(twice, i)
    BY DEF Detach
<1> HIDE DEF once
<1>5. twice \in Tables(Same(n)) /\ Freed(n, i, once, twice)
    BY <1>1, <1>3, SameAny, UnloadedTable, UnloadedSays
<1>6. i = 1 => \A j \in 1 .. n : j # 1 => twice[j].awake
    BY <1>1, <1>3, UnloadedMaster
<1> HIDE DEF twice
<1>7. /\ DOMAIN players' = 1 .. n - 1
      /\ \A j \in 1 .. n - 1 : players'[j] = IF j < i THEN twice[j] ELSE twice[j + 1]
  <2>1. twice \in Seq(SoundPlayer) /\ Len(twice) = n
      BY <1>1, <1>5, TableIsSeq
  <2>2. players' \in Seq(SoundPlayer) /\ Len(players') = n - 1
      BY <1>1, <1>4, <2>1, RemovedSeq
  <2>3. \A j \in 1 .. n - 1 : RemoveAt(twice, i)[j] = IF j < i THEN twice[j] ELSE twice[j + 1]
      BY <1>1, <2>1, RemovedSays
  <2> QED
      BY <1>4, <2>2, <2>3
<1> QED
    BY <1>1, <1>3, <1>5, <1>6, <1>7 DEF once, twice

\* The master that leaves has woken the one that takes its seat.
LEMMA DetachMaster ==
    ASSUME Inv, Waits, NEW left \in Lefts(1), 1 \in Seats, Detach(1, left)
    PROVE  Attended(players', phase')
<1> DEFINE n     == Attached
           once  == Unloaded(players, 1, left)
           twice == Unloaded(once, 1, 0)
<1>1. /\ n \in Nat /\ 1 \in 1 .. n
      /\ Freed(n, 1, players, once) /\ Freed(n, 1, once, twice)
      /\ \A j \in 1 .. n : j # 1 => twice[j].awake
      /\ DOMAIN players' = 1 .. n - 1
      /\ \A j \in 1 .. n - 1 : players'[j] = IF j < 1 THEN twice[j] ELSE twice[j + 1]
    BY DetachSays
<1>2. Silent(players) /\ DOMAIN players = 1 .. n
    BY Given DEF Waits
<1> HIDE DEF once, twice
<1>3. CASE n = 1
  <2>1. 1 \notin DOMAIN players'
      BY <1>1, <1>3
  <2> QED
      BY <2>1 DEF Attended
<1>4. CASE n # 1
  <2>1. 1 \in 1 .. n - 1 /\ ~(1 < 1) /\ 1 + 1 \in 1 .. n /\ 1 + 1 # 1
      BY <1>1, <1>4
  <2>2. players'[1] = twice[1 + 1]
      BY <1>1, <2>1
  <2>3. twice[1 + 1].awake
      BY <1>1, <2>1
  <2>4. twice[1 + 1].mask = {}
      BY <1>1, <1>2, <2>1 DEF Silent, Freed
  <2> QED
      BY <2>2, <2>3, <2>4, AttendedAwake
<1> QED
    BY <1>3, <1>4

\* When another leaves, the master keeps its seat and its driver.
LEMMA DetachDriver ==
    ASSUME Inv, NEW i \in Seats, i # 1, NEW left \in Lefts(i), Detach(i, left)
    PROVE  1 \in DOMAIN players' /\ players'[1].driver = players[1].driver
<1> DEFINE n     == Attached
           once  == Unloaded(players, i, left)
           twice == Unloaded(once, i, 0)
<1>1. /\ n \in Nat /\ i \in 1 .. n
      /\ Freed(n, i, players, once) /\ Freed(n, i, once, twice)
      /\ DOMAIN players' = 1 .. n - 1
      /\ \A j \in 1 .. n - 1 : players'[j] = IF j < i THEN twice[j] ELSE twice[j + 1]
    BY DetachSays
<1> HIDE DEF once, twice
<1>2. 1 \in 1 .. n - 1 /\ 1 < i
    BY <1>1
<1> QED
    BY <1>1, <1>2 DEF Freed

LEMMA DetachRuns ==
    ASSUME Inv, Waits, Attended(players, phase),
           NEW i \in Seats, NEW left \in Lefts(i), Detach(i, left), ~moved'
    PROVE  Attended(players', phase')
<1> DEFINE n     == Attached
           once  == Unloaded(players, i, left)
           twice == Unloaded(once, i, 0)
<1>1. /\ n \in Nat /\ i \in 1 .. n /\ 1 \in 1 .. n
      /\ players \in Tables(Same(n)) /\ DOMAIN players = 1 .. n
    BY Given
<1>2. /\ phase' = (IF i = 1 THEN "idle" ELSE phase)
      /\ i # 1 => \A j \in players[1].mask : ~(j > i)
    BY DEF Detach
<1>3. once \in Tables(Same(n)) /\ Freed(n, i, players, once)
    BY DetachSays
<1>5. twice \in Tables(Same(n)) /\ Freed(n, i, once, twice)
    BY DetachSays
<1>7. /\ DOMAIN players' = 1 .. n - 1
      /\ \A j \in 1 .. n - 1 : players'[j] = IF j < i THEN twice[j] ELSE twice[j + 1]
    BY DetachSays
<1> HIDE DEF once, twice
<1>8. CASE i = 1
    BY <1>8, DetachMaster
<1>9. CASE i # 1
  <2>1. Attended(twice, phase) /\ i \notin twice[1].mask
    <3>1. Attended(once, phase)
        BY <1>1, <1>3, <1>9, FreedAttended
    <3> QED
        BY <1>1, <1>3, <1>5, <1>9, <3>1, FreedAttended
  <2>2. 1 \in 1 .. n - 1 /\ players'[1] = twice[1] /\ DOMAIN twice = 1 .. n
    <3>1. 1 \in 1 .. n - 1 /\ 1 < i
        BY <1>1, <1>9
    <3> QED
        BY <1>5, <1>7, <3>1 DEF Freed
  <2>3. \A j \in twice[1].mask : j \in 1 .. n - 1 /\ players'[j] = twice[j]
    <3> SUFFICES ASSUME NEW j \in twice[1].mask
                 PROVE  j \in 1 .. n - 1 /\ players'[j] = twice[j]
        OBVIOUS
    <3>1. j \in players[1].mask /\ j # i
        BY <1>3, <1>5, <1>9, <2>1 DEF Freed
    <3>2. j \in 1 .. n /\ ~(j > i)
        BY <1>1, <1>2, <1>9, <2>1, <2>2, <3>1 DEF Attended
    <3>3. j \in 1 .. n - 1 /\ j < i
        BY <1>1, <3>1, <3>2
    <3> QED
        BY <1>7, <3>3
  <2>4. phase' = phase
      BY <1>2, <1>9
  <2> QED
      BY <1>1, <1>7, <2>1, <2>2, <2>3, <2>4 DEF Attended
<1> QED
    BY <1>8, <1>9

\* A master that is awake waits for nobody.
LEMMA AwakeRuns ==
    ASSUME Waits', 1 \in DOMAIN players', players'[1].awake
    PROVE  Attended(players', phase')
    BY AttendedAwake DEF Waits, Open

LEMMA ResetCoreRuns ==
    ASSUME Inv, Waits', Attended(players, phase) \/ Still(players), NEW i \in Seats, ResetCore(i)
    PROVE  Still(players') \/ Attended(players', phase')
<1> DEFINE n == Attached
<1>1. /\ n \in Nat /\ i \in 1 .. n /\ 1 \in 1 .. n /\ DOMAIN players = 1 .. n
      /\ players \in Tables(Same(n)) /\ Freed(n, i, players, players')
    BY Given, ResetSays
<1>2. DOMAIN players' = 1 .. n
    BY <1>1 DEF Freed
<1>3. CASE i = 1
  <2>1. players[1].driver = "on" /\ players'[1].awake = players[1].awake
      BY <1>1, <1>3 DEF Freed, ResetCore
  <2>2. CASE players'[1].awake
      BY <1>1, <1>2, <2>2, AwakeRuns
  <2>3. CASE ~players'[1].awake
    <3>1. players'[1].driver = "off"
        BY <1>3, ResetSays
    <3> QED
        BY <1>1, <1>2, <2>3, <3>1 DEF Still
  <2> QED
      BY <2>2, <2>3
<1>4. CASE i # 1
  <2>1. phase' = phase
      BY <1>4 DEF ResetCore
  <2>2. CASE Attended(players, phase)
      BY <1>1, <1>4, <2>1, <2>2, FreedAttended
  <2>3. CASE Still(players)
    <3>1. players'[1].driver = "off"
        BY <1>1, <1>4, <2>3 DEF Freed, Still
    <3>2. CASE players'[1].awake
        BY <1>1, <1>2, <3>2, AwakeRuns
    <3>3. CASE ~players'[1].awake
        BY <1>1, <1>2, <3>1, <3>3 DEF Still
    <3> QED
        BY <3>2, <3>3
  <2> QED
      BY <2>2, <2>3
<1> QED
    BY <1>3, <1>4

\* A master reset in its sleep sleeps on with its driver unloaded, or is woken, or leaves
\* its seat to one that is awake.
LEMMA StillRuns ==
    ASSUME Inv, Waits, Waits', Still(players), Next
    PROVE  Still(players') \/ Attended(players', phase')
<1> DEFINE n == Attached
<1>1. /\ n \in Nat /\ 1 \in 1 .. n /\ n >= 1 /\ Seats = 1 .. n /\ DOMAIN players = 1 .. n
      /\ players \in Tables(Same(n)) /\ players \in [1 .. n -> Player]
      /\ players \in Seq(SoundPlayer) /\ n = Len(players)
  <2>1. 1 \in DOMAIN players
      BY DEF Still
  <2> QED
      BY <2>1, Given DEF Tables, Same
<1>2. ~players[1].awake /\ players[1].driver = "off"
    BY DEF Still
<1>3. ASSUME 1 \in DOMAIN players', players'[1].driver = "off"
      PROVE  Still(players') \/ Attended(players', phase')
  <2>1. CASE players'[1].awake
      BY <1>3, <2>1, AwakeRuns
  <2>2. CASE ~players'[1].awake
      BY <1>3, <2>2 DEF Still
  <2> QED
      BY <2>1, <2>2
<1>4. ASSUME NEW i \in Seats, NEW ps, ps \in [1 .. n -> Player], ps[1].driver = "off",
             i # 1, NEW q, players' = [ps EXCEPT ![i] = q]
      PROVE  1 \in DOMAIN players' /\ players'[1].driver = "off"
    BY <1>1, <1>4
<1>5. ASSUME NEW i \in Seats, NEW late \in Lates, Event(i, late)
      PROVE  1 \in DOMAIN players' /\ players'[1].driver = "off"
  <2> DEFINE p == [Count(players[i], late) EXCEPT !.next = @ - late]
  <2>1. i # 1 /\ players[i] \in OnPlayer /\ late \in Nat
      BY <1>2, <1>5, Given, LockstepAssumption DEF Event, Running, OnPlayer
  <2>2. p \in OnPlayer
      BY <2>1, LateNode
  <2>3. \/ \E q : players' = [players EXCEPT ![i] = q]
        \/ \E q : players' = [SlaveUpdate(i, p) EXCEPT ![i] = q]
      BY <1>5, <2>1 DEF Event
  <2> HIDE DEF p
  <2>4. SlaveUpdate(i, p) \in [1 .. n -> Player] /\ SlaveUpdate(i, p)[1].driver = "off"
      BY <1>1, <1>2, <2>1, <2>2, SlaveDriver
  <2> QED
      BY <1>1, <1>2, <1>4, <2>1, <2>3, <2>4
<1>6. ASSUME NEW i \in Seats, Load(i)
      PROVE  1 \in DOMAIN players' /\ players'[1].driver = "off"
  <2>1. i # 1
      BY <1>2, <1>6 DEF Load, Running
  <2>2. players'[1] = players[1] /\ DOMAIN players' = DOMAIN players
      BY <1>1, <1>6, <2>1 DEF Load
  <2> QED
      BY <1>1, <1>2, <2>2
<1>7. ASSUME NEW i \in Seats, NEW left \in Lefts(i), NEW m \in Modes, Switch(i, m, left)
      PROVE  1 \in DOMAIN players' /\ players'[1].driver = "off"
  <2> DEFINE ps == IF players[i].driver = "on" THEN Unloaded(players, i, left) ELSE players
  <2>1. i # 1 /\ left \in Nat /\ i \in 1 .. n
      BY <1>1, <1>2, <1>7, LeftIsNat DEF Switch, Running
  <2>2. ps \in [1 .. n -> Player] /\ ps[1].driver = "off"
    <3>1. CASE players[i].driver = "on"
      <4>1. ps \in Tables(Same(n)) /\ Freed(n, i, players, ps)
          BY <1>1, <2>1, <3>1, SameAny, UnloadedTable, UnloadedSays
      <4> QED
          BY <1>1, <1>2, <2>1, <4>1 DEF Tables, Same, Freed
    <3>2. CASE players[i].driver # "on"
        BY <1>1, <1>2, <3>2
    <3> QED
        BY <3>1, <3>2
  <2>3. players' = [ps EXCEPT ![i].mode = m, ![i].driver = IF m \in LinkModes THEN "load" ELSE "off"]
      BY <1>7 DEF Switch
  <2> HIDE DEF ps
  <2> QED
      BY <1>1, <2>1, <2>2, <2>3
<1>8. ASSUME Attach
      PROVE  1 \in DOMAIN players' /\ players'[1].driver = "off"
  <2> DEFINE more == Append(players, NewPlayer)
  <2>1. NewPlayer \in Player
      BY DEF NewPlayer, Player, Modes
  <2>2. /\ more \in [1 .. n + 1 -> Player] /\ more[1] = players[1]
        /\ n + 1 \in Nat /\ n + 1 \in 1 .. n + 1 /\ n + 1 # 1 /\ 1 \in 1 .. n + 1
    <3>1. players \in Seq(Player)
        BY <1>1 DEF SoundPlayer
    <3>2. /\ more \in Seq(Player) /\ Len(more) = n + 1
          /\ \A j \in 1 .. n : more[j] = players[j]
        BY <1>1, <2>1, <3>1, AppendProperties
    <3> HIDE DEF more
    <3>3. more \in [1 .. n + 1 -> Player] /\ more[1] = players[1]
        BY <1>1, <3>2
    <3> QED
        BY <1>1, <3>3
  <2>3. players' = Released(more, n + 1)
      BY <1>8 DEF Attach
  <2> HIDE DEF more
  <2>4. LetGo(n + 1, n + 1, more, players')
      BY <2>2, <2>3, ReleasedSays
  <2> QED
      BY <1>2, <2>2, <2>4 DEF LetGo
<1>9. ASSUME NEW i \in Seats, NEW left \in Lefts(i), Detach(i, left)
      PROVE  Still(players') \/ Attended(players', phase')
  <2>1. CASE i = 1
      BY <1>9, <2>1, DetachMaster
  <2>2. CASE i # 1
    <3>1. 1 \in DOMAIN players' /\ players'[1].driver = players[1].driver
        BY <1>9, <2>2, DetachDriver
    <3> QED
        BY <1>2, <1>3, <3>1
  <2> QED
      BY <2>1, <2>2
<1>10. CASE \E i \in Seats : SeatEvent(i)
    BY <1>3, <1>5, <1>10 DEF SeatEvent
<1>11. CASE \E i \in Seats : Load(i)
    BY <1>3, <1>6, <1>11
<1>12. CASE \E i \in Seats : \E left \in Lefts(i) : Detach(i, left)
    BY <1>9, <1>12
<1>13. CASE \E i \in Seats : \E left \in Lefts(i) : \E m \in Modes : Switch(i, m, left)
    BY <1>3, <1>7, <1>13
<1>14. CASE \E i \in Seats : \E left \in Lefts(i) : i = 1 /\ StartTransfer(left)
    BY <1>2, <1>14 DEF StartTransfer, Running
<1>15. CASE Attach
    BY <1>3, <1>8, <1>15
<1>16. CASE \E i \in Seats : ResetCore(i)
    BY <1>16, ResetCoreRuns
<1> QED
    BY <1>10, <1>11, <1>12, <1>13, <1>14, <1>15, <1>16 DEF Next

LEMMA NextRuns == ASSUME Inv, Waits, Waits', Runs, Next PROVE Runs'
<1>1. CASE moved
  <2>1. CASE \E i \in Seats : \E late \in Lates : Event(i, late)
      BY <1>1, <2>1 DEF Event, Runs
  <2>2. CASE \E i \in Seats : Load(i)
      BY <1>1, <2>2 DEF Load, Runs
  <2>3. CASE \E i \in Seats : \E left \in Lefts(i) : Detach(i, left)
      BY <1>1, <2>3 DEF Detach, Runs
  <2>4. CASE \E i \in Seats : \E left \in Lefts(i) : \E m \in Modes : Switch(i, m, left)
      BY <1>1, <2>4 DEF Switch, Runs
  <2>5. CASE \E left \in Lefts(1) : StartTransfer(left)
      BY <1>1, <2>5 DEF StartTransfer, Runs
  <2>6. CASE Attach
      BY <1>1, <2>6 DEF Attach, Runs
  <2>7. CASE \E i \in Seats : ResetCore(i)
      BY <1>1, <2>7 DEF ResetCore, Runs
  <2> QED
      BY <2>1, <2>2, <2>3, <2>4, <2>5, <2>6, <2>7 DEF Next, SeatEvent
<1>2. CASE ~moved /\ Still(players)
    BY <1>2, StillRuns DEF Runs
<1>3. CASE ~moved /\ ~Still(players)
  <2>1. Attended(players, phase)
      BY <1>3 DEF Runs
  <2>2. CASE \E i \in Seats : SeatEvent(i)
      BY <2>1, <2>2, EventRuns DEF SeatEvent, Runs
  <2>3. CASE \E i \in Seats : Load(i)
      BY <2>1, <2>3, LoadRuns DEF Runs
  <2>4. CASE \E i \in Seats : \E left \in Lefts(i) : Detach(i, left)
      BY <2>1, <2>4, DetachRuns DEF Runs
  <2>5. CASE \E i \in Seats : \E left \in Lefts(i) : \E m \in Modes : Switch(i, m, left)
      BY <2>1, <2>5, SwitchRuns DEF Runs
  <2>6. CASE \E i \in Seats : \E left \in Lefts(i) : i = 1 /\ StartTransfer(left)
      BY <2>6, StartTransferRuns DEF Runs
  <2>7. CASE Attach
      BY <2>1, <2>7, AttachRuns DEF Runs
  <2>8. CASE \E i \in Seats : ResetCore(i)
      BY <2>1, <2>8, ResetCoreRuns DEF Runs
  <2> QED
      BY <2>2, <2>3, <2>4, <2>5, <2>6, <2>7, <2>8 DEF Next
<1> QED
    BY <1>1, <1>2, <1>3

\* A master that sleeps in its wait, and was not reset there, waits for somebody, and each
\* of those is attached, runs, and has the event at which it will answer; the same
\* exception as in CaughtUp.
WaitIsAnswerable ==
    1 \in Seats /\ ~players[1].awake /\ ~ResetAsleep(1) /\ ~moved =>
        /\ players[1].mask # {}
        /\ \A i \in players[1].mask : i \in Others /\ players[i].awake /\ players[i].timer # Off

\* The link never has all its cores asleep, each waiting for the other (_masterUpdate's
\* wait against useCycles, lockstep.c), for any number of players, any cycles and any
\* lateness, whichever core is reset and when: what SleepersWake needs beyond fairness.
\* The exception is a master that is itself reset in its wait (thread.c:380-421): nobody
\* has to answer it, for the reset made the transfer IDLE (sio.c:102, unload), but it
\* still sleeps until those it waited for signal, leave or change modes.
THEOREM SomebodyRuns == Spec => []WaitIsAnswerable
<1>1. Init => Inv /\ Waits /\ Runs
  <2>1. Init => DOMAIN players = {}
      BY DEF Init
  <2> QED
      BY <2>1, InitInv, InitWaits DEF Runs, Attended
<1>2. Inv /\ Waits /\ Runs /\ [Next]_vars => (Inv /\ Waits /\ Runs)'
  <2>1. ASSUME Inv, Waits, Runs, UNCHANGED vars PROVE (Waits /\ Runs)'
      BY <2>1 DEF vars, Waits, Runs
  <2> QED
      BY <2>1, NextKeeps, StutterKeeps, NextWaits, NextRuns
<1>3. Inv /\ Runs => WaitIsAnswerable
  <2> SUFFICES ASSUME Inv, Runs, 1 \in Seats, ~players[1].awake, ~ResetAsleep(1), ~moved
               PROVE  /\ players[1].mask # {}
                      /\ \A i \in players[1].mask :
                           i \in Others /\ players[i].awake /\ players[i].timer # Off
      BY DEF WaitIsAnswerable
  <2>1. DOMAIN players = Seats /\ players[1] \in Player
      BY Given
  <2>2. players[1].mask # {} /\ \A i \in players[1].mask : i \in Seats /\ Live(players[i])
      BY <2>1 DEF Runs, Still, ResetAsleep, Attended
  <2> SUFFICES ASSUME NEW i \in players[1].mask
               PROVE  i \in Others /\ players[i].awake /\ players[i].timer # Off
      BY <2>2
  <2>3. i # 1
    <3>1. i \in 2 .. MaxPlayers
        BY <2>1 DEF Player
    <3> QED
        BY <3>1
  <2> QED
      BY <2>2, <2>3 DEF Others, Live, Inv, TypeOK
<1> QED
    BY <1>1, <1>2, <1>3, PTL DEF Spec
=============================================================================
