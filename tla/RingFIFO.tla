------------------------------ MODULE RingFIFO ------------------------------
(***************************************************************************)
(* The lock-free ring buffer of src/util/ring-fifo.c, between one writing  *)
(* and one reading thread.                                                 *)
(*                                                                         *)
(* Messages have different lengths and are never split: one that does not  *)
(* fit before the end of the buffer goes to its start, and the reader has  *)
(* to take the same decision, from the length it asks for, to find it.     *)
(* Each side loads the other's pointer once, copies, and then stores its   *)
(* own pointer; these are three steps, and the other side may take any     *)
(* number of steps between them.                                           *)
(***************************************************************************)
EXTENDS Integers, Sequences

CONSTANTS
    Capacity,     \* buffer->capacity
    Bytes,        \* what one byte may hold
    Messages      \* what the writer may write, each with one call of RingFIFOWrite

\* A message is shorter than half of the buffer: thread-proxy.c writes at most
\* 0x1000 bytes at once to a buffer of 0x40000.
ASSUME MessagesAssumption ==
    /\ Capacity \in Nat \ {0}
    /\ Messages \subseteq Seq(Bytes)
    /\ \A m \in Messages : Len(m) >= 1 /\ 2 * Len(m) < Capacity

VARIABLES
    readPtr, writePtr,    \* both as offsets from buffer->data
    data,                 \* the bytes of the buffer
    write,                \* the call of RingFIFOWrite in progress
    read,                 \* the call of RingFIFORead in progress
    queue,                \* history: what was written and not yet read, and where it lies
    received              \* history: what the last successful read returned

vars == <<readPtr, writePtr, data, write, read, queue, received>>

Offsets == 0 .. Capacity - 1
Lengths == {Len(m) : m \in Messages}

Idle == [step |-> "idle", at |-> 0, bytes |-> <<>>, length |-> 0]

Init ==
    /\ readPtr = 0 /\ writePtr = 0
    /\ data \in {[p \in Offsets |-> b] : b \in Bytes}
    /\ write = Idle /\ read = Idle
    /\ queue = <<>> /\ received = <<>>

----------------------------------------------------------------------------
\* "Wrap around if we can't fit enough in here"
Wraps(ptr, length) == ptr + length >= Capacity

Place(ptr, length) == IF Wraps(ptr, length) THEN 0 ELSE ptr

\* Mutant of WriteFits: the write pointer may catch up with the read pointer.
WriteFitsExactly(length) ==
    LET at == Place(writePtr, length)
    IN  /\ Wraps(writePtr, length) => readPtr # 0 /\ readPtr <= writePtr
        /\ length <= (IF at >= readPtr THEN Capacity - at ELSE readPtr - at)

\* Mutant of WriteFits: the wrap does not look at where the reader is.
WriteFitsUnguarded(length) ==
    LET at == Place(writePtr, length)
    IN  length < (IF at >= readPtr THEN Capacity - at ELSE readPtr - at)

\* Mutant of WriteFits: no wrap is ever allowed.
WriteFitsStraight(length) ==
    /\ ~Wraps(writePtr, length)
    /\ length < (IF writePtr >= readPtr THEN Capacity - writePtr ELSE readPtr - writePtr)

\* RingFIFOWrite does not return 0: the wrap does not make the buffer look empty,
\* and the write pointer does not reach the read pointer.
WriteFits(length) ==
    LET at == Place(writePtr, length)
    IN  /\ Wraps(writePtr, length) => readPtr # 0 /\ readPtr <= writePtr
        /\ length < (IF at >= readPtr THEN Capacity - at ELSE readPtr - at)

\* Mutant of ReadFits: pointers that touch are taken for a full buffer.
ReadFitsTouching(length) ==
    LET at == Place(readPtr, length)
    IN  /\ Wraps(readPtr, length) => writePtr < readPtr
        /\ length <= (IF at >= writePtr THEN Capacity - at ELSE writePtr - at)

\* RingFIFORead does not return 0.
ReadFits(length) ==
    LET at == Place(readPtr, length)
    IN  /\ Wraps(readPtr, length) => writePtr < readPtr
        /\ length <= (IF at > writePtr THEN Capacity - at ELSE writePtr - at)

\* The cells of a call that is copying.
Cells(call) == call.at .. call.at + call.length - 1

----------------------------------------------------------------------------
\* RingFIFOWrite up to its memcpy.  A call that returns 0 changes nothing.
WriteStart(m) ==
    /\ write.step = "idle" /\ WriteFits(Len(m))
    /\ write' = [step |-> "copy", at |-> Place(writePtr, Len(m)), bytes |-> m, length |-> Len(m)]
    /\ UNCHANGED <<readPtr, writePtr, data, read, queue, received>>

WriteCopy ==
    /\ write.step = "copy"
    /\ data' = [p \in Offsets |-> IF p \in Cells(write) THEN write.bytes[p - write.at + 1]
                                                        ELSE data[p]]
    /\ write' = [write EXCEPT !.step = "store"]
    /\ UNCHANGED <<readPtr, writePtr, read, queue, received>>

\* Mutant of WriteStore: the pointer moves on from its old place, not from the copy.
WriteStoreUnwrapped ==
    /\ write.step = "store"
    /\ writePtr' = writePtr + write.length
    /\ queue' = Append(queue, [at |-> write.at, bytes |-> write.bytes])
    /\ write' = Idle
    /\ UNCHANGED <<readPtr, data, read, received>>

\* RingFIFOWrite from its memcpy on.
WriteStore ==
    /\ write.step = "store"
    /\ writePtr' = write.at + write.length
    /\ queue' = Append(queue, [at |-> write.at, bytes |-> write.bytes])
    /\ write' = Idle
    /\ UNCHANGED <<readPtr, data, read, received>>

\* RingFIFORead up to its memcpy.  The reader knows from what it read before how
\* long the next message is; the buffer may be empty when it asks for it.
ReadStart(length) ==
    /\ read.step = "idle" /\ ReadFits(length)
    /\ queue # <<>> => length = Len(queue[1].bytes)
    /\ read' = [step |-> "copy", at |-> Place(readPtr, length), bytes |-> <<>>, length |-> length]
    /\ UNCHANGED <<readPtr, writePtr, data, write, queue, received>>

ReadCopy ==
    /\ read.step = "copy"
    /\ read' = [read EXCEPT !.step = "store",
                            !.bytes = [k \in 1 .. read.length |-> data[read.at + k - 1]]]
    /\ UNCHANGED <<readPtr, writePtr, data, write, queue, received>>

ReadStore ==
    /\ read.step = "store"
    /\ readPtr' = read.at + read.length
    /\ received' = read.bytes
    /\ queue' = IF queue = <<>> THEN queue ELSE Tail(queue)
    /\ read' = Idle
    /\ UNCHANGED <<writePtr, data, write>>

\* RingFIFOClear, which its callers call while neither side is inside a call.
Clear ==
    /\ write.step = "idle" /\ read.step = "idle"
    /\ readPtr' = 0 /\ writePtr' = 0
    /\ queue' = <<>>
    /\ UNCHANGED <<data, write, read, received>>

Next ==
    \/ \E m \in Messages : WriteStart(m)
    \/ WriteCopy \/ WriteStore
    \/ \E length \in Lengths : ReadStart(length)
    \/ ReadCopy \/ ReadStore \/ Clear

Spec == Init /\ [][Next]_vars

----------------------------------------------------------------------------
(* Properties.                                                             *)

Calls == [step : {"idle", "copy", "store"}, at : Offsets, bytes : Seq(Bytes), length : Nat]

TypeOK ==
    /\ readPtr \in Offsets /\ writePtr \in Offsets
    /\ data \in [Offsets -> Bytes]
    /\ write \in Calls /\ read \in Calls
    /\ queue \in Seq([at : Offsets, bytes : Messages])
    /\ received \in Seq(Bytes)

\* The pointers touch if and only if there is nothing to read: RingFIFOSize is 0
\* for an empty buffer and for no other, so the wait for 0 in thread-proxy.c ends
\* when everything was read, and only then.
TouchMeansEmpty == readPtr = writePtr <=> queue = <<>>

\* Whatever was written can be read: the reader finds the oldest message with the
\* length it was written with, on either side of the wrap.
OldestReadable == queue # <<>> => ReadFits(Len(queue[1].bytes))

\* An empty buffer takes every message, wherever its pointers are, so a writer
\* that waits for the reader to empty the buffer does not wait for ever.
EmptyTakesAll == queue = <<>> => \A m \in Messages : WriteFits(Len(m))

\* Neither side can be refused for ever: whatever the wraps, the one that is to go on
\* next, the reader of a message or the writer to an empty buffer, can.
NeverStuck == OldestReadable /\ EmptyTakesAll

\* The two memcpy never touch the same byte.
CopiesDisjoint ==
    write.step # "idle" /\ read.step # "idle" => Cells(write) \cap Cells(read) = {}

\* The ring buffer implements the queue: messages come out whole, once, in order.
Abstract == INSTANCE MessageQueue WITH queue <- [i \in 1 .. Len(queue) |-> queue[i].bytes]
IsQueue == Abstract!Spec
=============================================================================
