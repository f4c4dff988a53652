---------------------------- MODULE RewindProofs ----------------------------
(***************************************************************************)
(* Proofs about Rewind for states of any bits and rings of any capacity:   *)
(* what a restore gives back, and that no wake of its condition is lost.   *)
(***************************************************************************)
EXTENDS Rewind, SequenceTheorems, TLAPS

\* What the control of the two threads gives.
Shape ==
    /\ open <=> thread # "none"
    /\ caller # "idle" => open
    /\ open => Len(past) >= 1 /\ Len(past) <= capacity + 1

\* The slot of the j-th patch back from the newest, 0 for the newest.
Back(j) == IF j <= current THEN current - j ELSE current - j + capacity

\* The appended state whose patch is not yet made.
Undiffed == IF ready THEN 1 ELSE 0

\* The patches lead back from the newest diffed state over the states of `past`,
\* and the files hold the newest two.
Chain ==
    open /\ ~overtaken =>
      /\ Len(past) = IF ~ready THEN size + 1 ELSE IF size < capacity THEN size + 2 ELSE capacity + 1
      /\ currentState = past[Len(past)]
      /\ Len(past) > 1 => previousState = past[Len(past) - 1]
      /\ \A j \in 0 .. Len(past) - 2 - Undiffed :
            patches[Back(j)] = Xor(past[Len(past) - 1 - Undiffed - j], past[Len(past) - Undiffed - j])

Inv == TypeOK /\ Shape /\ Chain

----------------------------------------------------------------------------
(* Patches, slots and the newest states.                                   *)

LEMMA XorType == ASSUME NEW a \in SUBSET Bits, NEW b \in SUBSET Bits PROVE Xor(a, b) \in SUBSET Bits
  BY DEF Xor

\* Applying the patch between two states to the newer gives the older.
LEMMA XorUndoes == ASSUME NEW a, NEW b PROVE Xor(b, Xor(a, b)) = a
  BY DEF Xor

LEMMA CapacityType == TypeOK => capacity \in Nat /\ (open => capacity > 0)
  BY ImagesAssumption DEF TypeOK

LEMMA SlotAfterType == ASSUME TypeOK, open PROVE SlotAfter(current) \in Slots
  BY CapacityType DEF TypeOK, Slots, SlotAfter

\* The patches back from the newest are in the ring.
LEMMA BackType ==
    ASSUME TypeOK, open, NEW j \in 0 .. size - 1
    PROVE  Back(j) \in Slots
  BY CapacityType DEF TypeOK, Slots, Back

LEMMA NewestFacts ==
    ASSUME TypeOK, Shape, open, NEW image \in SUBSET Bits, past' = Newest(Append(past, image))
    PROVE  /\ past' \in Seq(SUBSET Bits)
           /\ Len(past') = IF Len(past) = capacity + 1 THEN Len(past) ELSE Len(past) + 1
           /\ past'[Len(past')] = image
           /\ \A k \in 1 .. Len(past') - 1 : past'[k] = past[k + Len(past) + 1 - Len(past')]
<1>. DEFINE s == Append(past, image)
            m == IF Len(s) > capacity + 1 THEN Len(s) - capacity ELSE 1
<1>1. s \in Seq(SUBSET Bits) /\ Len(s) = Len(past) + 1 /\ s[Len(past) + 1] = image
      /\ \A i \in 1 .. Len(past) : s[i] = past[i]
  BY AppendProperties DEF TypeOK
<1>2. capacity \in Nat /\ Len(past) \in Nat /\ Len(past) >= 1 /\ Len(past) <= capacity + 1
  BY CapacityType DEF TypeOK, Shape
<1>3. m \in Int /\ m >= 1 /\ m <= Len(s) /\ Len(s) \in Int
  BY <1>1, <1>2
<1>4. \A i \in m .. Len(s) : s[i] \in SUBSET Bits
  BY <1>1, <1>3, ElementOfSeq
<1>5. past' = SubSeq(s, m, Len(s))
  BY DEF Newest
<1>. HIDE DEF s, m
<1>6. /\ past' \in Seq(SUBSET Bits) /\ Len(past') = Len(s) - m + 1
      /\ \A i \in 1 .. Len(s) - m + 1 : past'[i] = s[m + i - 1]
  BY <1>3, <1>4, <1>5, SubSeqProperties
<1>7. /\ Len(past) = capacity + 1 => m = 2 /\ Len(past') = Len(past)
      /\ Len(past) # capacity + 1 => m = 1 /\ Len(past') = Len(past) + 1
  <2>1. m = IF Len(past) = capacity + 1 THEN 2 ELSE 1
    BY <1>1, <1>2 DEF m
  <2>. QED
    BY <1>1, <1>2, <1>6, <2>1
<1>8. past'[Len(past')] = image
  <2>1. CASE Len(past) = capacity + 1
    BY <1>1, <1>2, <1>6, <1>7, <2>1
  <2>2. CASE Len(past) # capacity + 1
    BY <1>1, <1>2, <1>6, <1>7, <2>2
  <2>. QED
    BY <2>1, <2>2
<1>9. ASSUME NEW k \in 1 .. Len(past') - 1
      PROVE  past'[k] = past[k + Len(past) + 1 - Len(past')]
  <2>1. CASE Len(past) = capacity + 1
    BY <1>1, <1>2, <1>6, <1>7, <2>1
  <2>2. CASE Len(past) # capacity + 1
    BY <1>1, <1>2, <1>6, <1>7, <2>2
  <2>. QED
    BY <2>1, <2>2
<1>. QED
  BY <1>6, <1>7, <1>8, <1>9

----------------------------------------------------------------------------
LEMMA InitInv == Init => Inv
<1>. SUFFICES ASSUME Init PROVE Inv
  OBVIOUS
<1>1. TypeOK
  <2>1. patches \in [Slots -> SUBSET Bits]
    BY DEF Init, Slots
  <2>2. past \in Seq(SUBSET Bits)
    BY DEF Init, Blank
  <2>3. capacity \in Capacities \cup {0} /\ (open <=> capacity > 0)
    BY DEF Init
  <2>4. loaded \in {<<>>} \cup {<<s>> : s \in SUBSET Bits}
    BY DEF Init
  <2>5. /\ current \in Nat /\ size \in Nat
        /\ open => size <= capacity /\ (size > 0 => current \in Slots)
    BY DEF Init
  <2>6. /\ open \in BOOLEAN /\ previousState \in SUBSET Bits /\ currentState \in SUBSET Bits
        /\ onThread \in BOOLEAN /\ ready \in BOOLEAN /\ overtaken \in BOOLEAN
        /\ thread \in {"none", "start", "waiting", "woken", "done"}
        /\ caller \in {"idle", "waking", "joining"}
    BY DEF Init, Blank
  <2>. QED
    BY <2>1, <2>2, <2>3, <2>4, <2>5, <2>6 DEF TypeOK
<1>2. Shape /\ Chain
  BY DEF Init, Shape, Chain
<1>. QED
  BY <1>1, <1>2 DEF Inv

----------------------------------------------------------------------------
(* Types.                                                                  *)

LEMMA CallTypes ==
    ASSUME Inv, \/ \E entries \in Capacities : ContextInit(entries)
                \/ \E image \in Images : RewindAppend(image)
                \/ RestoreRefused \/ RewindRestore \/ Deinit
    PROVE  TypeOK' /\ Shape'
<1>1. ASSUME NEW entries \in Capacities, ContextInit(entries) PROVE TypeOK' /\ Shape'
  <2>1. entries \in Nat /\ entries > 0
    BY ImagesAssumption
  <2>2. patches' \in [Slots' -> SUBSET Bits]
    BY <1>1 DEF ContextInit, Slots, Blank
  <2>3. past' \in Seq(SUBSET Bits) /\ Len(past') = 1 /\ loaded' = <<>>
    BY <1>1 DEF ContextInit, Blank
  <2>4. capacity' \in Capacities \cup {0} /\ (open' <=> capacity' > 0)
    BY <1>1, <2>1 DEF ContextInit
  <2>5. loaded' \in {<<>>} \cup {<<s>> : s \in SUBSET Bits}
    BY <2>3
  <2>6. /\ current' \in Nat /\ size' \in Nat
        /\ open' => size' <= capacity' /\ (size' > 0 => current' \in Slots')
    BY <1>1, <2>1 DEF Inv, TypeOK, ContextInit
  <2>7. /\ open' \in BOOLEAN /\ previousState' \in SUBSET Bits /\ currentState' \in SUBSET Bits
        /\ onThread' \in BOOLEAN /\ ready' \in BOOLEAN /\ overtaken' \in BOOLEAN
        /\ thread' \in {"none", "start", "waiting", "woken", "done"}
        /\ caller' \in {"idle", "waking", "joining"}
    BY <1>1 DEF ContextInit, Blank
  <2>8. TypeOK'
    BY <2>2, <2>3, <2>4, <2>5, <2>6, <2>7 DEF TypeOK
  <2>9. Shape'
    BY <1>1, <2>1, <2>3 DEF Inv, Shape, ContextInit
  <2>. QED
    BY <2>8, <2>9
<1>2. ASSUME NEW image \in Images, RewindAppend(image) PROVE TypeOK' /\ Shape'
  <2>1. image \in SUBSET Bits /\ open
    BY <1>2, ImagesAssumption DEF RewindAppend, Ready
  <2>2. /\ past' \in Seq(SUBSET Bits)
        /\ Len(past') = IF Len(past) = capacity + 1 THEN Len(past) ELSE Len(past) + 1
    BY <1>2, <2>1, NewestFacts DEF Inv, RewindAppend
  <2>3. TypeOK'
    BY <1>2, <2>1, <2>2 DEF Inv, TypeOK, RewindAppend, ring, WokenThread, Slots
  <2>4. Shape'
    BY <1>2, <2>2, CapacityType DEF Inv, TypeOK, Shape, RewindAppend, ring, WokenThread
  <2>. QED
    BY <2>3, <2>4
<1>3. CASE RestoreRefused
  BY <1>3 DEF Inv, TypeOK, Shape, RestoreRefused, ring, files, Slots
<1>4. CASE RewindRestore
  <2>1. open /\ size > 0 /\ size \in Nat /\ current \in Slots /\ capacity \in Nat /\ capacity > 0
    BY <1>4, CapacityType DEF Inv, TypeOK, RewindRestore, Ready
  <2>2. current' \in Slots
    BY <1>4, <2>1 DEF RewindRestore, SlotBefore, Slots
  <2>3. Xor(previousState, patches[current']) \in SUBSET Bits
    BY <2>2, XorType DEF Inv, TypeOK
  <2>4. past' \in Seq(SUBSET Bits) /\ Len(past') >= 1 /\ Len(past') <= Len(past)
    <3>1. past \in Seq(SUBSET Bits) /\ Len(past) >= 1 /\ Len(past) \in Nat
      BY <2>1 DEF Inv, TypeOK, Shape
    <3>2. \A i \in 1 .. Len(past) - 1 : past[i] \in SUBSET Bits
      BY <3>1, ElementOfSeq
    <3>3. SubSeq(past, 1, Len(past) - 1) \in Seq(SUBSET Bits)
          /\ (Len(past) > 1 => Len(SubSeq(past, 1, Len(past) - 1)) = Len(past) - 1)
      BY <3>1, <3>2, SubSeqProperties
    <3>. QED
      BY <1>4, <3>1, <3>3 DEF RewindRestore
  <2>5. TypeOK'
    BY <1>4, <2>1, <2>2, <2>3, <2>4 DEF Inv, TypeOK, RewindRestore, Slots
  <2>6. Shape'
    BY <1>4, <2>1, <2>4 DEF Inv, TypeOK, Shape, RewindRestore
  <2>. QED
    BY <2>5, <2>6
<1>5. CASE DeinitFlag \/ DeinitWake
  BY <1>5 DEF Inv, TypeOK, Shape, DeinitFlag, DeinitWake, Ready, ring, files, history, WokenThread, Slots
<1>6. CASE DeinitJoin
  <2>1. patches' \in [Slots' -> SUBSET Bits]
    BY <1>6 DEF DeinitJoin, Slots
  <2>2. capacity' \in Capacities \cup {0} /\ (open' <=> capacity' > 0) /\ ~open'
    BY <1>6 DEF DeinitJoin
  <2>3. TypeOK'
    BY <1>6, <2>1, <2>2 DEF Inv, TypeOK, DeinitJoin, files, history
  <2>4. Shape'
    BY <1>6 DEF DeinitJoin, Shape
  <2>. QED
    BY <2>3, <2>4
<1>. QED
  BY <1>1, <1>2, <1>3, <1>4, <1>5, <1>6 DEF Deinit

LEMMA ThreadTypes == ASSUME Inv, Turn \/ SpuriousWake PROVE TypeOK' /\ Shape'
<1>1. CASE SpuriousWake
  BY <1>1 DEF Inv, TypeOK, Shape, SpuriousWake, ring, files, history, Slots
<1>2. CASE Turn
  <2>1. open /\ Slots' = Slots
    BY <1>2 DEF Inv, Shape, Turn, Slots
  <2>2. CASE UNCHANGED <<patches, current, size, ready>>
    BY <1>2, <2>1, <2>2 DEF Inv, TypeOK, Shape, Turn, files, history
  <2>3. CASE Diff /\ ready' = FALSE
    <3>1. current' \in Slots /\ current' \in Nat
      BY <2>1, <2>3, SlotAfterType, CapacityType DEF Inv, Diff, Slots
    <3>2. patches' \in [Slots -> SUBSET Bits]
      BY <2>3, XorType DEF Inv, TypeOK, Diff
    <3>3. size' \in Nat /\ size' <= capacity
      BY <2>1, <2>3, CapacityType DEF Inv, TypeOK, Diff
    <3>. QED
      BY <1>2, <2>1, <2>3, <3>1, <3>2, <3>3 DEF Inv, TypeOK, Shape, Turn, files, history
  <2>. QED
    BY <1>2, <2>2, <2>3 DEF Turn
<1>. QED
  BY <1>1, <1>2

----------------------------------------------------------------------------
(* The chain of patches.                                                   *)

\* What the chain has where its states are real: open, nothing overtook the thread.
LEMMA ChainFacts ==
    ASSUME Inv, open, ~overtaken
    PROVE  /\ capacity \in Nat /\ capacity > 0 /\ size \in Nat /\ size <= capacity
           /\ Len(past) \in Nat /\ Len(past) >= 1 /\ Len(past) <= capacity + 1
           /\ Len(past) = IF ~ready THEN size + 1
                          ELSE IF size < capacity THEN size + 2 ELSE capacity + 1
           /\ currentState = past[Len(past)]
           /\ Len(past) > 1 => previousState = past[Len(past) - 1]
           /\ Undiffed \in {0, 1}
           /\ \A j \in 0 .. Len(past) - 2 - Undiffed :
                 patches[Back(j)] = Xor(past[Len(past) - 1 - Undiffed - j], past[Len(past) - Undiffed - j])
  BY CapacityType DEF Inv, TypeOK, Shape, Chain, Undiffed

LEMMA AppendChain == ASSUME Inv, NEW image \in Images, RewindAppend(image) PROVE Chain'
<1>. SUFFICES ASSUME open', ~overtaken' PROVE Chain'
  BY DEF Chain
<1>1. open /\ ~overtaken /\ ~ready /\ image \in SUBSET Bits /\ ready'
  BY ImagesAssumption DEF RewindAppend, Ready
<1>2. /\ capacity' = capacity /\ patches' = patches /\ current' = current /\ size' = size
      /\ previousState' = currentState /\ currentState' = image
      /\ past' = Newest(Append(past, image))
  BY DEF RewindAppend, ring
<1>3. /\ Len(past') = IF Len(past) = capacity + 1 THEN Len(past) ELSE Len(past) + 1
      /\ past'[Len(past')] = image
      /\ \A k \in 1 .. Len(past') - 1 : past'[k] = past[k + Len(past) + 1 - Len(past')]
  BY <1>1, <1>2, NewestFacts DEF Inv
<1>4. /\ capacity \in Nat /\ capacity > 0 /\ size \in Nat /\ size <= capacity
      /\ Len(past) = size + 1 /\ currentState = past[Len(past)]
      /\ \A j \in 0 .. Len(past) - 2 :
            patches[Back(j)] = Xor(past[Len(past) - 1 - j], past[Len(past) - j])
  BY <1>1, ChainFacts DEF Undiffed
<1>5. Undiffed' = 1
  BY <1>1 DEF Undiffed
<1>6. Len(past') = IF size < capacity THEN size + 2 ELSE capacity + 1
  BY <1>3, <1>4
<1>7. past'[Len(past') - 1] = past[Len(past)]
  BY <1>3, <1>4, <1>6
<1>8. ASSUME NEW j \in 0 .. Len(past') - 3
      PROVE  patches'[Back(j)'] = Xor(past'[Len(past') - 2 - j], past'[Len(past') - 1 - j])
  <2>1. /\ Back(j)' = Back(j)
        /\ j \in 0 .. Len(past) - 2
    BY <1>2, <1>4, <1>6 DEF Back
  <2>2. past'[Len(past') - 2 - j] = past[Len(past) - 1 - j]
    BY <1>3, <1>4, <1>6
  <2>3. past'[Len(past') - 1 - j] = past[Len(past) - j]
    BY <1>3, <1>4, <1>6
  <2>. QED
    BY <1>2, <1>4, <2>1, <2>2, <2>3
<1>9. \A j \in 0 .. Len(past') - 2 - 1 :
         patches'[Back(j)'] = Xor(past'[Len(past') - 1 - 1 - j], past'[Len(past') - 1 - j])
  BY <1>4, <1>6, <1>8
<1>. QED
  BY <1>1, <1>2, <1>3, <1>4, <1>5, <1>6, <1>7, <1>9 DEF Chain

\* A restore, when nothing overtook the thread: the ring has as many patches as
\* there are states to go back to, and the patch applied leads to the next of them.
LEMMA RestoreFacts ==
    ASSUME Inv, RewindRestore, ~overtaken'
    PROVE  /\ open /\ ~overtaken /\ ~ready /\ Len(past) = size + 1 /\ size \in Nat /\ size > 0
           /\ Len(past') = Len(past) - 1 /\ \A k \in 1 .. Len(past) - 1 : past'[k] = past[k]
           /\ loaded' = <<past[Len(past) - 1]>>
  <1>1. open /\ ~overtaken /\ ~ready /\ size > 0
    BY DEF RewindRestore, Ready
  <1>2. Len(past) = size + 1 /\ size \in Nat /\ Len(past) > 1 /\ previousState = past[Len(past) - 1]
    BY <1>1, ChainFacts
  <1>3. past \in Seq(SUBSET Bits)
    BY DEF Inv, TypeOK
  <1>4. \A i \in 1 .. Len(past) - 1 : past[i] \in SUBSET Bits
    BY <1>2, <1>3, ElementOfSeq
  <1>5. past' = SubSeq(past, 1, Len(past) - 1)
    BY <1>2 DEF RewindRestore
  <1>6. Len(past') = Len(past) - 1 /\ \A k \in 1 .. Len(past) - 1 : past'[k] = past[k]
    BY <1>2, <1>4, <1>5, SubSeqProperties
  <1>. QED
    BY <1>1, <1>2, <1>6 DEF RewindRestore

LEMMA RestoreChain == ASSUME Inv, RewindRestore PROVE Chain'
<1>. SUFFICES ASSUME open', ~overtaken' PROVE Chain'
  BY DEF Chain
<1>1. /\ open /\ ~overtaken /\ ~ready /\ Len(past) = size + 1 /\ size \in Nat /\ size > 0
      /\ Len(past') = Len(past) - 1 /\ \A k \in 1 .. Len(past) - 1 : past'[k] = past[k]
  BY RestoreFacts
<1>2. /\ capacity' = capacity /\ patches' = patches /\ current' = SlotBefore(current)
      /\ size' = size - 1 /\ ~ready' /\ currentState' = previousState
      /\ previousState' = IF size' > 0 THEN Xor(previousState, patches[current']) ELSE currentState
  BY <1>1 DEF RewindRestore
<1>3. /\ capacity \in Nat /\ capacity > 0 /\ size <= capacity
      /\ previousState = past[Len(past) - 1]
      /\ \A j \in 0 .. Len(past) - 2 :
            patches[Back(j)] = Xor(past[Len(past) - 1 - j], past[Len(past) - j])
  BY <1>1, ChainFacts DEF Undiffed
<1>4. current \in 0 .. capacity - 1
  BY <1>1 DEF Inv, TypeOK, Slots
<1>5. Undiffed' = 0
  BY <1>2 DEF Undiffed
<1>6. ASSUME NEW j \in 0 .. Len(past') - 2
      PROVE  Back(j)' = Back(j + 1) /\ j + 1 \in 0 .. Len(past) - 2
  BY <1>1, <1>2, <1>3, <1>4 DEF Back, SlotBefore
<1>7. \A j \in 0 .. Len(past') - 2 :
         patches'[Back(j)'] = Xor(past'[Len(past') - 1 - j], past'[Len(past') - j])
  <2>. TAKE j \in 0 .. Len(past') - 2
  <2>1. patches[Back(j + 1)] = Xor(past[Len(past) - 1 - (j + 1)], past[Len(past) - (j + 1)])
    BY <1>3, <1>6
  <2>2. past'[Len(past') - 1 - j] = past[Len(past) - 1 - (j + 1)]
    BY <1>1
  <2>3. past'[Len(past') - j] = past[Len(past) - (j + 1)]
    BY <1>1
  <2>. QED
    BY <1>2, <1>6, <2>1, <2>2, <2>3
<1>8. Len(past') > 1 => previousState' = past'[Len(past') - 1]
  <2>. SUFFICES ASSUME Len(past') > 1 PROVE previousState' = past'[Len(past') - 1]
    OBVIOUS
  <2>1. previousState' = Xor(previousState, patches[current'])
    BY <1>1, <1>2
  <2>2. Back(0)' = current'
    BY <1>2, <1>3, <1>4 DEF Back, SlotBefore
  <2>3. patches[current'] = Xor(past'[Len(past') - 1], past'[Len(past')])
    BY <1>1, <1>2, <1>7, <2>2
  <2>4. past'[Len(past')] = previousState
    BY <1>1, <1>3
  <2>. QED
    BY <2>1, <2>3, <2>4, XorUndoes
<1>9. currentState' = past'[Len(past')]
  BY <1>1, <1>2, <1>3
<1>. QED
  BY <1>1, <1>2, <1>5, <1>7, <1>8, <1>9 DEF Chain

LEMMA DiffChain == ASSUME Inv, Turn, Diff, ready, ready' = FALSE PROVE Chain'
<1>. SUFFICES ASSUME open', ~overtaken' PROVE Chain'
  BY DEF Chain
<1>1. /\ open /\ ~overtaken /\ capacity' = capacity /\ past' = past
      /\ previousState' = previousState /\ currentState' = currentState
  BY DEF Turn, files, history
<1>2. /\ capacity \in Nat /\ capacity > 0 /\ size \in Nat /\ size <= capacity
      /\ Len(past) = IF size < capacity THEN size + 2 ELSE capacity + 1
      /\ currentState = past[Len(past)] /\ previousState = past[Len(past) - 1]
      /\ \A j \in 0 .. Len(past) - 3 :
            patches[Back(j)] = Xor(past[Len(past) - 2 - j], past[Len(past) - 1 - j])
  BY <1>1, ChainFacts DEF Undiffed
<1>3. /\ current' = SlotAfter(current) /\ size' = IF size < capacity THEN size + 1 ELSE size
      /\ patches' = [patches EXCEPT ![current'] = Xor(previousState, currentState)]
      /\ current' \in Slots /\ patches \in [Slots -> SUBSET Bits]
      /\ current \in Nat /\ (size > 0 => current \in Slots)
  BY <1>1, SlotAfterType DEF Diff, Inv, TypeOK
<1>4. Undiffed' = 0
  BY DEF Undiffed
<1>5. Len(past) = size' + 1
  BY <1>2, <1>3
<1>6. ASSUME NEW j \in 0 .. Len(past) - 2
      PROVE  patches'[Back(j)'] = Xor(past[Len(past) - 1 - j], past[Len(past) - j])
  <2>1. CASE j = 0
    <3>1. Back(j)' = current'
      BY <1>3, <2>1 DEF Back, Slots
    <3>. QED
      BY <1>2, <1>3, <2>1, <3>1
  <2>2. CASE j > 0
    <3>1. j - 1 \in 0 .. Len(past) - 3 /\ size > 0 /\ j < capacity + 1 /\ j <= size
      BY <1>2, <2>2
    <3>2. j < capacity
      BY <1>2, <2>2
    <3>3. Back(j)' = Back(j - 1)
      BY <1>1, <1>2, <1>3, <2>2, <3>1, <3>2 DEF Back, SlotAfter, Slots
    <3>4. Back(j - 1) # current' /\ Back(j - 1) \in Slots
      BY <1>2, <1>3, <2>2, <3>1, <3>2 DEF Back, SlotAfter, Slots
    <3>5. patches[Back(j - 1)] = Xor(past[Len(past) - 2 - (j - 1)], past[Len(past) - 1 - (j - 1)])
      BY <1>2, <3>1
    <3>6. Len(past) - 2 - (j - 1) = Len(past) - 1 - j /\ Len(past) - 1 - (j - 1) = Len(past) - j
      BY <1>2
    <3>. QED
      BY <1>3, <3>3, <3>4, <3>5, <3>6
  <2>. QED
    BY <2>1, <2>2
<1>. QED
  BY <1>1, <1>2, <1>4, <1>5, <1>6 DEF Chain

\* The steps that move neither the ring nor the files.
LEMMA OtherChain ==
    ASSUME Inv, \/ \E entries \in Capacities : ContextInit(entries)
                \/ RestoreRefused \/ Deinit \/ SpuriousWake
                \/ Turn /\ UNCHANGED <<patches, current, size, ready>>
                \/ UNCHANGED vars
    PROVE  Chain'
<1>1. ASSUME NEW entries \in Capacities, ContextInit(entries) PROVE Chain'
  BY <1>1, ImagesAssumption DEF ContextInit, Chain, Undiffed
<1>2. CASE DeinitJoin
  BY <1>2 DEF DeinitJoin, Chain
<1>3. CASE \/ RestoreRefused \/ DeinitFlag \/ DeinitWake \/ SpuriousWake
           \/ Turn /\ UNCHANGED <<patches, current, size, ready>>
           \/ UNCHANGED vars
  <2>1. /\ open' = open /\ capacity' = capacity /\ patches' = patches /\ current' = current
        /\ size' = size /\ previousState' = previousState /\ currentState' = currentState
        /\ ready' = ready /\ past' = past
    BY <1>3 DEF RestoreRefused, DeinitFlag, DeinitWake, SpuriousWake, Turn, vars, ring, files, history
  <2>2. overtaken => overtaken'
    <3>1. CASE RestoreRefused
      BY <3>1 DEF RestoreRefused
    <3>2. CASE \/ DeinitFlag \/ DeinitWake \/ SpuriousWake \/ Turn \/ UNCHANGED vars
      BY <3>2 DEF DeinitFlag, DeinitWake, SpuriousWake, Turn, vars, history
    <3>. QED
      BY <1>3, <3>1, <3>2
  <2>. QED
    BY <2>1, <2>2 DEF Inv, Chain, Undiffed, Back
<1>. QED
  BY <1>1, <1>2, <1>3 DEF Deinit

----------------------------------------------------------------------------
LEMMA Inductive == Inv /\ [Next]_vars => Inv'
<1>. SUFFICES ASSUME Inv, [Next]_vars PROVE Inv'
  OBVIOUS
<1>1. TypeOK' /\ Shape'
  <2>1. CASE Turn \/ SpuriousWake
    BY <2>1, ThreadTypes
  <2>2. CASE UNCHANGED vars
    BY <2>2 DEF Inv, TypeOK, Shape, vars, ring, files, history, Slots
  <2>. QED
    BY <2>1, <2>2, CallTypes DEF Next
<1>2. Chain'
  <2>1. ASSUME NEW image \in Images, RewindAppend(image) PROVE Chain'
    BY <2>1, AppendChain
  <2>2. CASE RewindRestore
    BY <2>2, RestoreChain
  <2>3. CASE Turn
    BY <2>3, DiffChain, OtherChain DEF Turn
  <2>. QED
    BY <2>1, <2>2, <2>3, OtherChain DEF Next
<1>. QED
  BY <1>1, <1>2 DEF Inv

LEMMA InvHolds == Spec => []Inv
  BY InitInv, Inductive, PTL DEF Spec

\* Type correctness: the ring is never left, whatever capacities it had before.
THEOREM TypeCorrect == Spec => []TypeOK
<1>1. Inv => TypeOK
  BY DEF Inv
<1>. QED
  BY <1>1, InvHolds, PTL

\* As long as no call overtakes the diffing thread (rewind.c:72-115), a restore
\* (rewind.c:117-161) gives the core the state saved before the newest, and it
\* refuses just when there is none.
THEOREM RestoresGoBack == Spec => RestoreGoesBack
<1>1. ASSUME Inv, RewindRestore, ~overtaken'
      PROVE  loaded' = IF Len(past) > 1 THEN <<past[Len(past) - 1]>> ELSE <<>>
  BY <1>1, RestoreFacts
<1>2. ASSUME Inv, RestoreRefused, ~overtaken'
      PROVE  loaded' = IF Len(past) > 1 THEN <<past[Len(past) - 1]>> ELSE <<>>
  <2>1. open /\ ~overtaken /\ ~ready /\ size = 0 /\ loaded' = <<>>
    BY <1>2 DEF RestoreRefused, Ready
  <2>2. Len(past) = 1
    BY <1>2, <2>1, ChainFacts
  <2>. QED
    BY <2>1, <2>2
<1>3. Inv /\ [Next]_vars
      => [(RewindRestore \/ RestoreRefused) /\ ~overtaken'
          => loaded' = IF Len(past) > 1 THEN <<past[Len(past) - 1]>> ELSE <<>>]_vars
  BY <1>1, <1>2
<1>. QED
  BY <1>3, InvHolds, PTL DEF Spec, RestoreGoesBack

----------------------------------------------------------------------------
\* The diffing thread does not wait while it has something to do: a state that was
\* appended, or to end when the core thread joins it; and once it was told to end, it
\* is not told otherwise before it has.
NoMissedWake ==
    /\ ready \/ caller = "joining" => thread # "waiting"
    /\ caller # "idle" => ~onThread
    /\ caller = "joining" => thread \in {"start", "woken", "done"}

LEMMA NoMissedWakeNext == Inv /\ NoMissedWake /\ [Next]_vars => NoMissedWake'
<1>. SUFFICES ASSUME Inv, NoMissedWake, [Next]_vars PROVE NoMissedWake'
  OBVIOUS
<1>. USE DEF NoMissedWake
<1>1. ASSUME NEW entries \in Capacities, ContextInit(entries) PROVE NoMissedWake'
  BY <1>1 DEF ContextInit
<1>2. ASSUME NEW image \in Images, RewindAppend(image) PROVE NoMissedWake'
  BY <1>2 DEF RewindAppend, Ready, WokenThread
<1>3. CASE RestoreRefused \/ RewindRestore
  BY <1>3 DEF RestoreRefused, RewindRestore
<1>4. CASE DeinitFlag
  BY <1>4 DEF DeinitFlag
<1>5. CASE DeinitWake
  BY <1>5 DEF DeinitWake, WokenThread, Inv, TypeOK, Shape
<1>6. CASE DeinitJoin
  BY <1>6 DEF DeinitJoin
<1>7. CASE Turn
  BY <1>7 DEF Turn
<1>8. CASE SpuriousWake
  BY <1>8 DEF SpuriousWake
<1>9. CASE UNCHANGED vars
  BY <1>9 DEF vars
<1>. QED
  BY <1>1, <1>2, <1>3, <1>4, <1>5, <1>6, <1>7, <1>8, <1>9 DEF Next, Deinit

\* No wake of rewind.c's condition is lost, neither of an append nor of the deinit that
\* sets the flag, wakes and joins in separate steps (rewind.c:51-56, 72-90): what
\* AppendDiffed and DeinitReturns need beyond fairness.
THEOREM WakesArrive == Spec => []NoMissedWake
<1>1. Init => NoMissedWake
  BY DEF Init, NoMissedWake
<1>. QED
  BY <1>1, InvHolds, NoMissedWakeNext, PTL DEF Spec
=============================================================================
