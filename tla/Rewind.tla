------------------------------- MODULE Rewind -------------------------------
(***************************************************************************)
(* Rewinding (src/core/rewind.c): the core thread appends a state at every *)
(* frame, and a thread of its own stores the difference to the one before  *)
(* in a ring of patches.  Going back applies the patches in reverse.       *)
(*                                                                         *)
(* A state is the set of its bits that are 1, so the patch between two     *)
(* states is their symmetric difference, and applying it once more undoes  *)
(* it (diffPatchFast, applyPatch).  The appends and restores all come from *)
(* one thread at a time, the core thread or one that interrupted it        *)
(* (thread.c:155, CoreController::rewind); a section under context->mutex  *)
(* is one step.                                                            *)
(***************************************************************************)
EXTENDS Integers, Sequences

CONSTANTS
    Bits,         \* the bits of a state
    Images,       \* the states the emulated machine may be in when it is saved
    Capacities    \* the values core->opts.rewindBufferCapacity may have

ASSUME ImagesAssumption ==
    /\ Images \subseteq SUBSET Bits
    /\ Capacities \subseteq Nat \ {0}

VARIABLES
    open,                          \* context->currentState is not NULL
    capacity, patches,             \* context->patchMemory, its size and its entries
    current, size,                 \* the newest patch, and how many there are to go back over
    previousState, currentState,   \* the two files
    onThread, ready,
    thread,                        \* where the diffing thread is
    caller,                        \* where the core thread is in mCoreRewindContextDeinit
    loaded,                        \* what the last restore gave to the core: <<>> if it refused
    past,                          \* history: the states that may be gone back over, newest last
    overtaken                      \* history: a call came before the diff of the last append

ring    == <<capacity, patches, current, size>>
files   == <<previousState, currentState>>
history == <<loaded, past, overtaken>>
vars == <<open, ring, files, onThread, ready, thread, caller, history>>

Blank == {}     \* a new file, and what a file is extended with

Xor(a, b) == (a \ b) \cup (b \ a)

Slots == 0 .. capacity - 1

\* mCoreThreadStart has cleared the context.
Init ==
    /\ open = FALSE /\ capacity = 0 /\ patches = <<>> /\ current = 0 /\ size = 0
    /\ previousState = Blank /\ currentState = Blank
    /\ onThread = FALSE /\ ready = FALSE /\ thread = "none" /\ caller = "idle"
    /\ loaded = <<>> /\ past = <<Blank>> /\ overtaken = FALSE

----------------------------------------------------------------------------
\* Mutant of WokenThread: nobody signals the condition.
NoWake == thread

\* ConditionWake(&context->cond)
WokenThread == IF thread = "waiting" THEN "woken" ELSE thread

Ready == open /\ caller = "idle"

\* mCoreRewindContextInit: `current` stays what it was.
ContextInit(entries) ==
    /\ ~open /\ caller = "idle"
    /\ open' = TRUE /\ capacity' = entries /\ patches' = [i \in 0 .. entries - 1 |-> Blank]
    /\ size' = 0 /\ previousState' = Blank /\ currentState' = Blank
    /\ onThread' = TRUE /\ ready' = FALSE /\ thread' = "start"
    /\ loaded' = <<>> /\ past' = <<Blank>> /\ overtaken' = FALSE
    /\ UNCHANGED <<current, caller>>

\* The newest states of s, of which the ring can go back over `capacity`.
Newest(s) == SubSeq(s, IF Len(s) > capacity + 1 THEN Len(s) - capacity ELSE 1, Len(s))

\* mCoreRewindAppend
RewindAppend(image) ==
    /\ Ready
    /\ previousState' = currentState /\ currentState' = image
    /\ ready' = TRUE /\ thread' = WokenThread
    /\ past' = Newest(Append(past, image))
    /\ overtaken' = (overtaken \/ ready)
    /\ UNCHANGED <<open, ring, onThread, caller, loaded>>

\* mCoreRewindRestore: "if (!context->size)"
RestoreRefused ==
    /\ Ready /\ size = 0
    /\ loaded' = <<>>
    /\ overtaken' = (overtaken \/ ready)
    /\ UNCHANGED <<open, ring, files, onThread, ready, thread, caller, past>>

\* Mutant of SlotBefore: the slot before the first one is itself.
SlotBeforeStuck(slot) == IF slot = 0 THEN 0 ELSE slot - 1

SlotBefore(slot) == (IF slot = 0 THEN capacity ELSE slot) - 1

\* mCoreRewindRestore: what is loaded is the older file; the newer one becomes
\* the state before it, unless there is none, and the two change places.
RewindRestore ==
    /\ Ready /\ size > 0
    /\ size' = size - 1 /\ current' = SlotBefore(current)
    /\ loaded' = <<previousState>>
    /\ previousState' = IF size' > 0 THEN Xor(previousState, patches[current']) ELSE currentState
    /\ currentState' = previousState
    /\ past' = IF Len(past) > 1 THEN SubSeq(past, 1, Len(past) - 1) ELSE past
    /\ overtaken' = (overtaken \/ ready)
    /\ UNCHANGED <<open, capacity, patches, onThread, ready, thread, caller>>

\* mCoreRewindContextDeinit, in four parts: the flag, the wake, the join, the release.
DeinitFlag ==
    /\ Ready
    /\ onThread' = FALSE /\ caller' = "waking"
    /\ UNCHANGED <<open, ring, files, ready, thread, history>>

\* Mutant of DeinitWake: it joins a thread it did not wake.
DeinitSilently ==
    /\ caller = "waking" /\ caller' = "joining"
    /\ UNCHANGED <<open, ring, files, onThread, ready, thread, history>>

DeinitWake ==
    /\ caller = "waking" /\ caller' = "joining"
    /\ thread' = WokenThread
    /\ UNCHANGED <<open, ring, files, onThread, ready, history>>

DeinitJoin ==
    /\ caller = "joining" /\ thread = "done"
    /\ open' = FALSE /\ thread' = "none" /\ caller' = "idle"
    /\ capacity' = 0 /\ patches' = <<>>
    /\ UNCHANGED <<current, size, files, onThread, ready, history>>

----------------------------------------------------------------------------
\* The diffing thread.

\* Mutant of SlotAfter: one slot of the ring is never used.
SlotAfterSkipping(slot) == IF slot + 1 > capacity THEN 0 ELSE slot + 1

SlotAfter(slot) == IF slot + 1 >= capacity THEN 0 ELSE slot + 1

\* _rewindDiff
Diff ==
    /\ current' = SlotAfter(current)
    /\ size' = IF size < capacity THEN size + 1 ELSE size
    /\ patches' = [patches EXCEPT ![current'] = Xor(previousState, currentState)]

\* _rewindThread from one wait to the next, or to its end.  A thread that is told
\* to stop before it first gets the mutex does not diff; one that waits does.
Turn ==
    /\ thread \in {"start", "woken"}
    /\ IF ready /\ (onThread \/ thread = "woken")
       THEN Diff /\ ready' = FALSE
       ELSE UNCHANGED <<patches, current, size, ready>>
    /\ thread' = IF onThread THEN "waiting" ELSE "done"
    /\ UNCHANGED <<open, capacity, files, onThread, caller, history>>

\* ConditionWait may return without a wake.
SpuriousWake ==
    /\ thread = "waiting" /\ thread' = "woken"
    /\ UNCHANGED <<open, ring, files, onThread, ready, caller, history>>

----------------------------------------------------------------------------
Deinit == DeinitFlag \/ DeinitWake \/ DeinitJoin

Next ==
    \/ \E entries \in Capacities : ContextInit(entries)
    \/ \E image \in Images : RewindAppend(image)
    \/ RestoreRefused \/ RewindRestore \/ Deinit
    \/ Turn \/ SpuriousWake

Spec == Init /\ [][Next]_vars

\* The diffing thread is scheduled, and a deinit once begun is carried on.
FairSpec == Spec /\ WF_vars(Turn) /\ WF_vars(DeinitWake) /\ WF_vars(DeinitJoin)

----------------------------------------------------------------------------
\* Every variable has its type: there are never more patches to go back over than
\* the ring has, and the newest one is in the ring, whatever the capacity was
\* before (rewind.c:24-49 does not reset `current`).
TypeOK ==
    /\ open \in BOOLEAN /\ capacity \in Capacities \cup {0} /\ (open <=> capacity > 0)
    /\ patches \in [Slots -> SUBSET Bits]
    /\ current \in Nat /\ size \in Nat
    /\ open => size <= capacity /\ (size > 0 => current \in Slots)
    /\ previousState \in SUBSET Bits /\ currentState \in SUBSET Bits
    /\ onThread \in BOOLEAN /\ ready \in BOOLEAN
    /\ thread \in {"none", "start", "waiting", "woken", "done"}
    /\ caller \in {"idle", "waking", "joining"}
    /\ loaded \in {<<>>} \cup {<<s>> : s \in SUBSET Bits}
    /\ past \in Seq(SUBSET Bits) /\ overtaken \in BOOLEAN

\* A restore loads the state before the newest, as often as there is one, and
\* refuses when there is none, as long as no call overtook the diffing thread.
RestoreGoesBack ==
    [][(RewindRestore \/ RestoreRefused) /\ ~overtaken'
       => loaded' = IF Len(past) > 1 THEN <<past[Len(past) - 1]>> ELSE <<>>]_vars

\* After every append comes a diff, before the ring is closed: of that append, or of a
\* later one that overtook it (OnlySavedStates shows what becomes of the first).  The
\* thread misses no wake, and told to stop it does not forget what is ready, unless it
\* is told so before it first got the mutex.
AppendDiffed ==
    (open /\ ready /\ thread # "done")
        ~> (open /\ (~ready \/ (thread = "start" /\ ~onThread)))

\* A deinit returns: the thread it joins does not sleep through its wake.
DeinitReturns == caller # "idle" ~> caller = "idle"

\* What is loaded is a state that was saved, or the blank one below the first.
OnlySavedStates == loaded # <<>> => loaded[1] \in Images \cup {Blank}
=============================================================================
