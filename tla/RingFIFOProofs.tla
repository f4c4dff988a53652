--------------------------- MODULE RingFIFOProofs ---------------------------
(***************************************************************************)
(* Proofs about RingFIFO for every capacity, and every set of messages     *)
(* that are shorter than half of it.                                       *)
(***************************************************************************)
EXTENDS RingFIFO, SequenceTheorems, TLAPS

At(i)    == queue[i].at
Size(i)  == Len(queue[i].bytes)
After(i) == At(i) + Size(i)

\* The unread messages lie at the end of the buffer and at its start.
Wrapped == writePtr < readPtr

\* Message i lies in the unread part of the buffer.
Unread(i) ==
    /\ After(i) < Capacity
    /\ IF Wrapped THEN readPtr <= At(i) \/ After(i) <= writePtr
                  ELSE readPtr <= At(i) /\ After(i) <= writePtr

\* Message i is read before message j: it lies before it, or on the near side of the wrap.
Before(i, j) ==
    \/ After(i) <= At(j) /\ (Wrapped /\ readPtr <= At(j) => readPtr <= At(i))
    \/ Wrapped /\ readPtr <= At(i) /\ After(j) <= writePtr

Layout ==
    /\ \A i \in 1 .. Len(queue) : Unread(i)
    /\ \A i, j \in 1 .. Len(queue) : i < j => Before(i, j)

\* Each message lies where the reader will look for it after the one before.
Chain ==
    /\ queue = <<>> => readPtr = writePtr
    /\ queue # <<>> => At(1) = Place(readPtr, Size(1)) /\ writePtr = After(Len(queue))
    /\ \A i \in 1 .. Len(queue) - 1 : At(i + 1) = Place(After(i), Size(i + 1))

Holds(at, bytes) == \A k \in 1 .. Len(bytes) : data[at + k - 1] = bytes[k]

Stored == \A i \in 1 .. Len(queue) : Holds(At(i), queue[i].bytes)

\* What the writer may rely on from its load of readPtr to its store of writePtr,
\* wherever the reader has got to meanwhile.
WriterInv ==
    /\ write.step # "idle" =>
         /\ write.bytes \in Messages /\ write.length = Len(write.bytes)
         /\ write.at = Place(writePtr, write.length)
         /\ IF Wrapped THEN write.at = writePtr /\ write.at + write.length < readPtr
            ELSE \/ write.at = writePtr /\ write.at + write.length < Capacity
                 \/ write.at = 0 /\ write.length < readPtr
    /\ write.step = "store" => Holds(write.at, write.bytes)

ReaderInv ==
    /\ read.step # "idle" => queue # <<>> /\ read.at = At(1) /\ read.length = Size(1)
    /\ read.step = "store" => read.bytes = queue[1].bytes

Inv == TypeOK /\ Layout /\ Chain /\ Stored /\ WriterInv /\ ReaderInv

----------------------------------------------------------------------------
LEMMA MessageFacts ==
    ASSUME NEW m \in Messages
    PROVE  m \in Seq(Bytes) /\ Len(m) \in Nat /\ Len(m) >= 1 /\ 2 * Len(m) < Capacity
           /\ Capacity \in Nat
  BY MessagesAssumption

LEMMA QueueFacts ==
    ASSUME TypeOK
    PROVE  /\ Len(queue) \in Nat /\ (queue = <<>> <=> Len(queue) = 0)
           /\ \A i \in 1 .. Len(queue) :
                 /\ queue[i].bytes \in Messages /\ queue[i].bytes \in Seq(Bytes)
                 /\ At(i) \in Nat /\ Size(i) \in Nat /\ Size(i) >= 1 /\ 2 * Size(i) < Capacity
           /\ readPtr \in Nat /\ writePtr \in Nat /\ readPtr < Capacity /\ writePtr < Capacity
           /\ Capacity \in Nat
<1>1. Capacity \in Nat
  BY MessagesAssumption
<1>2. Len(queue) \in Nat /\ (queue = <<>> <=> Len(queue) = 0)
  BY DEF TypeOK
<1>3. ASSUME NEW i \in 1 .. Len(queue)
      PROVE  /\ queue[i].bytes \in Messages /\ queue[i].bytes \in Seq(Bytes)
             /\ At(i) \in Nat /\ Size(i) \in Nat /\ Size(i) >= 1 /\ 2 * Size(i) < Capacity
  <2>1. queue[i] \in [at : Offsets, bytes : Messages]
    <3>1. queue \in Seq([at : Offsets, bytes : Messages])
      BY DEF TypeOK
    <3>. QED
      BY <3>1, ElementOfSeq
  <2>2. queue[i].bytes \in Messages /\ queue[i].at \in Offsets
    BY <2>1
  <2>. QED
    BY <1>1, <2>2, MessageFacts DEF At, Size, Offsets
<1>. QED
  BY <1>1, <1>2, <1>3 DEF TypeOK, Offsets

\* The writer copies to cells no unread message lies in.
LEMMA WriterClear ==
    ASSUME Inv, write.step # "idle", NEW i \in 1 .. Len(queue)
    PROVE  After(i) <= write.at \/ write.at + write.length <= At(i)
<1>1. Unread(i) /\ WriterInv
  BY DEF Inv, Layout
<1>2. write.length \in Nat /\ write.at \in Nat
  BY <1>1, MessageFacts, QueueFacts DEF Inv, WriterInv, Place
<1>. QED
  BY <1>1, <1>2, QueueFacts DEF Inv, Unread, WriterInv, After

LEMMA InitInv == Init => Inv
<1>. SUFFICES ASSUME Init PROVE Inv
  OBVIOUS
<1>1. Capacity \in Nat /\ Capacity > 0
  BY MessagesAssumption
<1>2. PICK b \in Bytes : data = [p \in Offsets |-> b]
  BY DEF Init
<1>3. TypeOK
  <2>1. data \in [Offsets -> Bytes]
    BY <1>2
  <2>2. Idle \in Calls
    BY <1>1 DEF Idle, Calls, Offsets
  <2>. QED
    BY <1>1, <2>1, <2>2 DEF Init, TypeOK, Offsets
<1>. QED
  BY <1>1, <1>3 DEF Init, Inv, Layout, Chain, Stored, WriterInv, ReaderInv, Idle

\* Append and Tail, message by message.
LEMMA AppendFacts ==
    ASSUME TypeOK, NEW e \in [at : Offsets, bytes : Messages], queue' = Append(queue, e)
    PROVE  /\ queue' \in Seq([at : Offsets, bytes : Messages]) /\ queue' # <<>>
           /\ Len(queue') = Len(queue) + 1
           /\ \A i \in 1 .. Len(queue) : queue'[i] = queue[i]
           /\ queue'[Len(queue) + 1] = e
<1> DEFINE Entry == [at : Offsets, bytes : Messages]
<1>1. queue \in Seq(Entry) /\ e \in Entry
  BY DEF TypeOK
<1> HIDE DEF Entry
<1>2. /\ queue' \in Seq(Entry) /\ queue' # <<>>
      /\ Len(queue') = Len(queue) + 1
      /\ \A i \in 1 .. Len(queue) : queue'[i] = queue[i]
      /\ queue'[Len(queue) + 1] = e
  BY <1>1, AppendProperties
<1>. QED
  BY <1>2 DEF Entry

LEMMA TailFacts ==
    ASSUME TypeOK, queue # <<>>, queue' = Tail(queue)
    PROVE  /\ queue' \in Seq([at : Offsets, bytes : Messages])
           /\ Len(queue') = Len(queue) - 1
           /\ \A i \in 1 .. Len(queue') : queue'[i] = queue[i + 1]
  BY HeadTailProperties DEF TypeOK

----------------------------------------------------------------------------
(* The invariant, action by action.                                        *)

LEMMA WriteStartInv == ASSUME Inv, NEW m \in Messages, WriteStart(m) PROVE Inv'
<1>. USE DEF Inv
<1>1. UNCHANGED <<readPtr, writePtr, data, read, queue, received>>
  BY DEF WriteStart
<1>2. write' = [step |-> "copy", at |-> Place(writePtr, Len(m)), bytes |-> m, length |-> Len(m)]
  BY DEF WriteStart
<1>3. Place(writePtr, Len(m)) \in Offsets /\ Len(m) \in Nat
  BY QueueFacts, MessageFacts DEF Place, Offsets, TypeOK
<1>4. TypeOK'
  BY <1>1, <1>2, <1>3, MessageFacts DEF TypeOK, Calls
<1>5. WriterInv'
  <2>1. WriteFits(Len(m))
    BY DEF WriteStart
  <2>2. CASE Wraps(writePtr, Len(m))
    BY <1>1, <1>2, <1>3, <2>1, <2>2, QueueFacts, MessageFacts
    DEF WriteFits, Wraps, Place, WriterInv, Wrapped
  <2>3. CASE ~Wraps(writePtr, Len(m))
    BY <1>1, <1>2, <1>3, <2>1, <2>3, QueueFacts, MessageFacts
    DEF WriteFits, Wraps, Place, WriterInv, Wrapped
  <2>. QED
    BY <2>2, <2>3
<1>6. Layout' /\ Chain' /\ Stored' /\ ReaderInv'
  BY <1>1 DEF Layout, Unread, Before, Wrapped, Chain, Stored, Holds, ReaderInv, At, Size, After
<1>. QED
  BY <1>4, <1>5, <1>6

LEMMA WriteCopyInv == ASSUME Inv, WriteCopy PROVE Inv'
<1>. USE DEF Inv
<1>1. UNCHANGED <<readPtr, writePtr, read, queue, received>> /\ write.step = "copy"
  BY DEF WriteCopy
<1>2. data' = [p \in Offsets |-> IF p \in Cells(write) THEN write.bytes[p - write.at + 1]
                                                       ELSE data[p]]
  BY DEF WriteCopy
<1>3. write' = [write EXCEPT !.step = "store"]
  BY DEF WriteCopy
<1>4. /\ write.bytes \in Messages /\ write.length = Len(write.bytes) /\ write.bytes \in Seq(Bytes)
      /\ write.length \in Nat /\ write.at \in Nat /\ write.at + write.length < Capacity
      /\ Capacity \in Nat
  BY <1>1, QueueFacts, MessageFacts DEF WriterInv, Place, TypeOK, Wraps
<1>5. write' \in Calls /\ write'.bytes = write.bytes /\ write'.at = write.at
      /\ write'.length = write.length /\ write'.step = "store"
  BY <1>3 DEF TypeOK, Calls
<1>6. TypeOK'
  <2>1. data' \in [Offsets -> Bytes]
    <3>. SUFFICES ASSUME NEW p \in Offsets PROVE data'[p] \in Bytes
      BY <1>2
    <3>1. CASE p \in Cells(write)
      <4>1. p - write.at + 1 \in 1 .. Len(write.bytes)
        BY <1>4, <3>1 DEF Cells
      <4>2. write.bytes[p - write.at + 1] \in Bytes
        BY <1>4, <4>1, ElementOfSeq
      <4>. QED
        BY <1>2, <3>1, <4>2
    <3>2. CASE p \notin Cells(write)
      BY <1>2, <3>2 DEF TypeOK
    <3>. QED
      BY <3>1, <3>2
  <2>. QED
    BY <1>1, <1>5, <2>1 DEF TypeOK
<1>7. Stored'
  <2>. SUFFICES ASSUME NEW i \in 1 .. Len(queue), NEW k \in 1 .. Size(i)
                PROVE  data'[At(i) + k - 1] = queue[i].bytes[k]
    BY <1>1 DEF Stored, Holds, At, Size
  <2>1. At(i) + k - 1 \in Offsets /\ At(i) + k - 1 \notin Cells(write)
    <3>1. At(i) \in Nat /\ Size(i) \in Nat /\ k \in Nat /\ 1 <= k /\ k <= Size(i)
      BY QueueFacts
    <3>2. After(i) < Capacity /\ After(i) = At(i) + Size(i)
      BY DEF Layout, Unread, After
    <3>3. After(i) <= write.at \/ write.at + write.length <= At(i)
      BY <1>1, WriterClear
    <3>4. write.at \in Nat /\ write.length \in Nat
      BY <1>4
    <3> DEFINE p == At(i) + k - 1
    <3>5. p \in Nat /\ At(i) <= p /\ p < After(i)
      BY <3>1, <3>2
    <3> HIDE DEF p
    <3>6. Capacity \in Nat /\ After(i) \in Nat
      BY <3>1, <3>2, QueueFacts
    <3>7. p \in 0 .. Capacity - 1 /\ p \notin write.at .. write.at + write.length - 1
      BY <3>1, <3>2, <3>3, <3>4, <3>5, <3>6
    <3>. QED
      BY <3>7 DEF Offsets, Cells, p
  <2>. QED
    BY <1>2, <2>1 DEF Stored, Holds, Size
<1>8. WriterInv'
  <2>1. Holds(write.at, write.bytes)'
    <3>. SUFFICES ASSUME NEW k \in 1 .. Len(write.bytes)
                  PROVE  data'[write.at + k - 1] = write.bytes[k]
      BY <1>5 DEF Holds
    <3>1. write.at + k - 1 \in Offsets /\ write.at + k - 1 \in Cells(write)
      BY <1>4 DEF Offsets, Cells
    <3>2. (write.at + k - 1) - write.at + 1 = k
      BY <1>4
    <3>. QED
      BY <1>2, <3>1, <3>2
  <2>. QED
    BY <1>1, <1>4, <1>5, <2>1 DEF WriterInv, Wrapped
<1>9. Layout' /\ Chain' /\ ReaderInv'
  BY <1>1 DEF Layout, Unread, Before, Wrapped, Chain, ReaderInv, At, Size, After
<1>. QED
  BY <1>6, <1>7, <1>8, <1>9

LEMMA WriteStoreInv == ASSUME Inv, WriteStore PROVE Inv'
<1>. USE DEF Inv
<1>0. PICK n \in Nat : n = Len(queue)
  BY QueueFacts
<1>. DEFINE e == [at |-> write.at, bytes |-> write.bytes]
<1>1. UNCHANGED <<readPtr, data, read, received>> /\ write.step = "store" /\ write' = Idle
      /\ writePtr' = write.at + write.length /\ queue' = Append(queue, e)
  BY DEF WriteStore
<1>2. /\ write.bytes \in Messages /\ write.length = Len(write.bytes)
      /\ write.length \in Nat /\ write.length >= 1 /\ write.at \in Nat
      /\ write.at = Place(writePtr, write.length) /\ write.at + write.length < Capacity
      /\ Capacity \in Nat
      /\ IF Wrapped THEN write.at = writePtr /\ write.at + write.length < readPtr
         ELSE \/ write.at = writePtr /\ write.at + write.length < Capacity
              \/ write.at = 0 /\ write.length < readPtr
  BY <1>1, QueueFacts, MessageFacts DEF WriterInv, Place, Wraps
<1>3. e \in [at : Offsets, bytes : Messages]
  BY <1>2 DEF Offsets
<1>4. /\ n \in Nat /\ Len(queue') = n + 1 /\ queue' # <<>>
      /\ \A i \in 1 .. n : queue'[i] = queue[i]
      /\ queue'[n + 1] = e /\ queue' \in Seq([at : Offsets, bytes : Messages])
  BY <1>0, <1>1, <1>3, AppendFacts
<1>5. \A i \in 1 .. n : At(i)' = At(i) /\ Size(i)' = Size(i) /\ After(i)' = After(i)
  BY <1>4 DEF At, Size, After
<1>6. At(n + 1)' = write.at /\ Size(n + 1)' = write.length /\ After(n + 1)' = writePtr'
  BY <1>1, <1>2, <1>4 DEF At, Size, After
<1>7. TypeOK'
  <2>1. Idle \in Calls
    BY <1>2 DEF Idle, Calls, Offsets
  <2>. QED
    BY <1>1, <1>2, <1>4, <2>1 DEF TypeOK, Offsets
<1>8. Layout'
  <2>1. ASSUME NEW i \in 1 .. n
        PROVE  Unread(i)' /\ Before(i, n + 1)'
    <3>1. Unread(i) /\ At(i) \in Nat /\ Size(i) \in Nat /\ Size(i) >= 1 /\ readPtr \in Nat
          /\ writePtr \in Nat /\ After(i) = At(i) + Size(i)
      BY <1>0, QueueFacts DEF Layout, After
    <3>. QED
      BY <1>1, <1>2, <1>5, <1>6, <3>1 DEF Unread, Before, Wrapped
  <2>2. ASSUME NEW i \in 1 .. n, NEW j \in 1 .. n, i < j
        PROVE  Before(i, j)'
    <3>1. Before(i, j) /\ Unread(i) /\ Unread(j)
      BY <1>0, <2>2 DEF Layout
    <3>2. At(i) \in Nat /\ Size(i) \in Nat /\ Size(i) >= 1 /\ readPtr \in Nat
          /\ At(j) \in Nat /\ Size(j) \in Nat /\ Size(j) >= 1
          /\ writePtr \in Nat /\ After(i) = At(i) + Size(i) /\ After(j) = At(j) + Size(j)
      BY <1>0, QueueFacts DEF After
    <3>. QED
      BY <1>1, <1>2, <1>5, <3>1, <3>2 DEF Unread, Before, Wrapped
  <2>3. Unread(n + 1)'
    BY <1>1, <1>2, <1>6, QueueFacts DEF Unread, Wrapped
  <2>. SUFFICES ASSUME NEW i \in 1 .. n + 1
                PROVE  Unread(i)' /\ \A j \in 1 .. n + 1 : i < j => Before(i, j)'
    BY <1>4 DEF Layout
  <2>4. i \in 1 .. n \/ i = n + 1
    BY <1>4
  <2>5. Unread(i)'
    BY <2>1, <2>3, <2>4
  <2>6. ASSUME NEW j \in 1 .. n + 1, i < j PROVE Before(i, j)'
    <3>1. i \in 1 .. n /\ (j \in 1 .. n \/ j = n + 1)
      BY <1>4, <2>6
    <3>. QED
      BY <2>1, <2>2, <2>6, <3>1
  <2>. QED
    BY <2>5, <2>6
<1>9. Chain'
  <2>1. writePtr' = After(Len(queue))'
    BY <1>4, <1>6
  <2>2. CASE n = 0
    <3>1. readPtr = writePtr
      BY <1>0, <2>2, QueueFacts DEF Chain
    <3>2. At(1)' = Place(readPtr, Size(1))'
      BY <1>1, <1>2, <1>6, <2>2, <3>1 DEF Place, Wraps
    <3>. QED
      BY <1>4, <2>1, <2>2, <3>2 DEF Chain
  <2>3. CASE n > 0
    <3>1. queue # <<>> /\ 1 \in 1 .. n
      BY <1>0, <2>3, QueueFacts
    <3>2. At(1)' = Place(readPtr, Size(1))'
      BY <1>0, <1>1, <1>5, <3>1 DEF Chain, Place, Wraps
    <3>3. ASSUME NEW i \in 1 .. n PROVE At(i + 1)' = Place(After(i), Size(i + 1))'
      <4>1. CASE i = n
        BY <1>0, <1>2, <1>5, <1>6, <3>1, <3>3, <4>1 DEF Chain, Place, Wraps
      <4>2. CASE i # n
        <5>1. i \in 1 .. n - 1 /\ i + 1 \in 1 .. n
          BY <1>4, <4>2
        <5>. QED
          BY <1>0, <1>5, <5>1 DEF Chain, Place, Wraps
      <4>. QED
        BY <4>1, <4>2
    <3>. QED
      BY <1>4, <2>1, <3>2, <3>3 DEF Chain
  <2>. QED
    BY <1>4, <2>2, <2>3
<1>10. Stored'
  <2>. SUFFICES ASSUME NEW i \in 1 .. n + 1 PROVE Holds(At(i), queue[i].bytes)'
    BY <1>4 DEF Stored
  <2>1. CASE i \in 1 .. n
    BY <1>0, <1>1, <1>4, <1>5, <2>1 DEF Stored, Holds
  <2>2. CASE i = n + 1
    BY <1>1, <1>4, <1>6, <2>2 DEF WriterInv, Holds
  <2>. QED
    BY <1>4, <2>1, <2>2
<1>11. WriterInv'
  BY <1>1 DEF WriterInv, Idle
<1>12. ReaderInv'
  <2>1. queue # <<>> => 1 \in 1 .. n
    BY <1>0, QueueFacts
  <2>. QED
    BY <1>1, <1>4, <1>5, <2>1 DEF ReaderInv
<1>. QED
  BY <1>7, <1>8, <1>9, <1>10, <1>11, <1>12

LEMMA ReadStartInv == ASSUME Inv, NEW length \in Lengths, ReadStart(length) PROVE Inv'
<1>. USE DEF Inv
<1>1. UNCHANGED <<readPtr, writePtr, data, write, queue, received>>
  BY DEF ReadStart
<1>2. read' = [step |-> "copy", at |-> Place(readPtr, length), bytes |-> <<>>, length |-> length]
  BY DEF ReadStart
<1>3. length \in Nat /\ length >= 1
  BY MessageFacts DEF Lengths
<1>4. queue # <<>>      \* pointers that touch refuse every length
  <2>. SUFFICES ASSUME queue = <<>> PROVE FALSE
    OBVIOUS
  <2>1. readPtr = writePtr /\ ReadFits(length)
    BY DEF Chain, ReadStart
  <2>. QED
    BY <1>3, <2>1, QueueFacts DEF ReadFits, Place, Wraps
<1>5. length = Size(1) /\ Place(readPtr, length) = At(1)
  BY <1>4 DEF ReadStart, Chain, Size
<1>6. TypeOK'
  <2>1. Place(readPtr, length) \in Offsets
    BY <1>3, QueueFacts DEF Place, Offsets, TypeOK
  <2>. QED
    BY <1>1, <1>2, <1>3, <2>1 DEF TypeOK, Calls
<1>7. ReaderInv'
  BY <1>1, <1>2, <1>4, <1>5 DEF ReaderInv, At, Size
<1>8. Layout' /\ Chain' /\ Stored' /\ WriterInv'
  BY <1>1 DEF Layout, Unread, Before, Wrapped, Chain, Stored, Holds, WriterInv, At, Size, After
<1>. QED
  BY <1>6, <1>7, <1>8

LEMMA ReadCopyInv == ASSUME Inv, ReadCopy PROVE Inv'
<1>. USE DEF Inv
<1>1. UNCHANGED <<readPtr, writePtr, data, write, queue, received>> /\ read.step = "copy"
  BY DEF ReadCopy
<1>. DEFINE copied == [k \in 1 .. read.length |-> data[read.at + k - 1]]
<1>2. read' = [read EXCEPT !.step = "store", !.bytes = copied]
  BY DEF ReadCopy
<1>3. /\ queue # <<>> /\ 1 \in 1 .. Len(queue) /\ read.at = At(1) /\ read.length = Size(1)
      /\ queue[1].bytes \in Seq(Bytes)
  <2>1. queue # <<>> /\ read.at = At(1) /\ read.length = Size(1)
    BY <1>1 DEF ReaderInv
  <2>2. 1 \in 1 .. Len(queue)
    BY <2>1, QueueFacts
  <2>. QED
    BY <2>1, <2>2, QueueFacts
<1>4. copied = queue[1].bytes
  <2>1. queue[1].bytes = [k \in 1 .. Size(1) |-> queue[1].bytes[k]]
    BY <1>3, LenProperties DEF Size
  <2>2. \A k \in 1 .. Size(1) : data[At(1) + k - 1] = queue[1].bytes[k]
    BY <1>3 DEF Stored, Holds, Size
  <2>. QED
    BY <1>3, <2>1, <2>2
<1>. HIDE DEF copied
<1>5. read' \in Calls /\ read'.at = read.at /\ read'.length = read.length
      /\ read'.step = "store" /\ read'.bytes = queue[1].bytes
  BY <1>2, <1>3, <1>4 DEF TypeOK, Calls
<1>6. TypeOK'
  BY <1>1, <1>5 DEF TypeOK
<1>7. ReaderInv'
  BY <1>1, <1>3, <1>5 DEF ReaderInv, At, Size
<1>8. Layout' /\ Chain' /\ Stored' /\ WriterInv'
  BY <1>1 DEF Layout, Unread, Before, Wrapped, Chain, Stored, Holds, WriterInv, At, Size, After
<1>. QED
  BY <1>6, <1>7, <1>8

LEMMA ReadStoreInv == ASSUME Inv, ReadStore PROVE Inv'
<1>. USE DEF Inv
<1>0. PICK n \in Nat : n = Len(queue)
  BY QueueFacts
<1>1. /\ UNCHANGED <<writePtr, data, write>> /\ read' = Idle /\ received' = read.bytes
      /\ queue # <<>> /\ queue' = Tail(queue) /\ n >= 1
      /\ read.bytes = queue[1].bytes /\ readPtr' = After(1)
  <2>1. read.step = "store" /\ queue # <<>>
    BY DEF ReadStore, ReaderInv
  <2>. QED
    BY <1>0, <2>1, QueueFacts DEF ReadStore, ReaderInv, After
<1>2. /\ Len(queue') = n - 1 /\ (queue' = <<>> <=> n = 1)
      /\ \A i \in 1 .. n - 1 : queue'[i] = queue[i + 1]
      /\ queue' \in Seq([at : Offsets, bytes : Messages])
  <2>1. /\ Len(queue') = n - 1 /\ queue' \in Seq([at : Offsets, bytes : Messages])
        /\ \A i \in 1 .. n - 1 : queue'[i] = queue[i + 1]
    BY <1>0, <1>1, TailFacts
  <2>2. queue' = <<>> <=> Len(queue') = 0
    BY <2>1, EmptySeq
  <2>. QED
    BY <2>1, <2>2
<1>3. \A i \in 1 .. n - 1 : /\ i + 1 \in 1 .. n
                            /\ At(i)' = At(i + 1) /\ Size(i)' = Size(i + 1)
                            /\ After(i)' = After(i + 1)
  <2>. SUFFICES ASSUME NEW i \in 1 .. n - 1
                PROVE  /\ i + 1 \in 1 .. n
                       /\ At(i)' = At(i + 1) /\ Size(i)' = Size(i + 1)
                       /\ After(i)' = After(i + 1)
    OBVIOUS
  <2>1. queue'[i] = queue[i + 1]
    BY <1>2
  <2>. QED
    BY <2>1 DEF At, Size, After
<1>4. /\ \A i \in 1 .. n : /\ Unread(i) /\ At(i) \in Nat /\ Size(i) \in Nat /\ Size(i) >= 1
                           /\ After(i) = At(i) + Size(i)
      /\ 1 \in 1 .. n /\ readPtr \in Nat /\ writePtr \in Nat /\ Capacity \in Nat
      /\ readPtr < Capacity /\ writePtr < Capacity
  BY <1>0, <1>1, QueueFacts DEF Layout, After
<1>5. TypeOK'
  <2>1. Idle \in Calls /\ readPtr' \in Offsets
    BY <1>1, <1>4 DEF Idle, Calls, Offsets, Unread
  <2>2. read.bytes \in Seq(Bytes)
    BY DEF TypeOK, Calls
  <2>. QED
    BY <1>1, <1>2, <2>1, <2>2 DEF TypeOK
<1>6. Layout'
  <2>1. ASSUME NEW i \in 2 .. n
        PROVE  IF writePtr < After(1) THEN After(1) <= At(i) \/ After(i) <= writePtr
               ELSE After(1) <= At(i) /\ After(i) <= writePtr
    <3>1. Before(1, i) /\ Unread(1) /\ Unread(i)
      BY <1>0, <1>4 DEF Layout
    <3>. QED
      BY <1>4, <3>1 DEF Before, Unread, Wrapped
  <2>2. ASSUME NEW i \in 1 .. n - 1 PROVE Unread(i)'
    <3>1. i + 1 \in 2 .. n /\ After(i + 1) < Capacity
      BY <1>3, <1>4 DEF Unread
    <3>. QED
      BY <1>1, <1>3, <2>1, <3>1 DEF Unread, Wrapped
  <2>3. ASSUME NEW i \in 2 .. n, NEW j \in 2 .. n, i < j
        PROVE  \/ /\ After(i) <= At(j)
                  /\ writePtr < After(1) /\ After(1) <= At(j) => After(1) <= At(i)
               \/ writePtr < After(1) /\ After(1) <= At(i) /\ After(j) <= writePtr
    <3>1. Before(1, i) /\ Before(1, j) /\ Before(i, j) /\ Unread(1) /\ Unread(i) /\ Unread(j)
      BY <1>0, <1>4, <2>3 DEF Layout
    <3>. QED
      BY <1>4, <3>1 DEF Before, Unread, Wrapped
  <2>4. ASSUME NEW i \in 1 .. n - 1, NEW j \in 1 .. n - 1, i < j PROVE Before(i, j)'
    <3>1. i + 1 \in 2 .. n /\ j + 1 \in 2 .. n /\ i + 1 < j + 1
      BY <2>4
    <3>. QED
      BY <1>1, <1>3, <2>3, <3>1 DEF Before, Wrapped
  <2>. QED
    BY <1>2, <2>2, <2>4 DEF Layout
<1>7. Chain'
  <2>1. CASE n = 1
    BY <1>0, <1>1, <1>2, <2>1 DEF Chain
  <2>2. CASE n # 1
    <3>1. n - 1 \in 1 .. n - 1 /\ 1 \in 1 .. n - 1
      BY <1>1, <2>2
    <3>2. At(1)' = Place(readPtr, Size(1))'
      BY <1>0, <1>1, <1>3, <3>1 DEF Chain, Place, Wraps
    <3>3. writePtr' = After(n - 1)'
      BY <1>0, <1>1, <1>3, <3>1 DEF Chain
    <3>4. ASSUME NEW i \in 1 .. n - 2 PROVE (At(i + 1) = Place(After(i), Size(i + 1)))'
      <4>1. i \in 1 .. n - 1 /\ i + 1 \in 1 .. n - 1
        OBVIOUS
      <4>. QED
        BY <1>0, <1>3, <4>1 DEF Chain, Place, Wraps
    <3>. QED
      BY <1>2, <2>2, <3>2, <3>3, <3>4 DEF Chain
  <2>. QED
    BY <2>1, <2>2
<1>8. Stored'
  BY <1>0, <1>1, <1>2, <1>3 DEF Stored, Holds
<1>9. WriterInv'
  <2>1. CASE write.step = "idle"
    BY <1>1, <2>1 DEF WriterInv
  <2>2. CASE write.step # "idle"
    <3>1. /\ write.bytes \in Messages /\ write.length = Len(write.bytes) /\ write.length \in Nat
          /\ write.at = Place(writePtr, write.length) /\ write.at \in Nat
      BY <2>2, MessageFacts, QueueFacts DEF WriterInv, Place
    <3>2. IF writePtr < After(1) THEN write.at = writePtr /\ write.at + write.length < After(1)
          ELSE \/ write.at = writePtr /\ write.at + write.length < Capacity
               \/ write.at = 0 /\ write.length < After(1)
      BY <1>4, <2>2, <3>1 DEF WriterInv, Unread, Wrapped
    <3>. QED
      BY <1>1, <3>1, <3>2 DEF WriterInv, Wrapped, Place, Wraps, Holds
  <2>. QED
    BY <2>1, <2>2
<1>10. ReaderInv'
  BY <1>1 DEF ReaderInv, Idle
<1>. QED
  BY <1>5, <1>6, <1>7, <1>8, <1>9, <1>10

LEMMA ClearInv == ASSUME Inv, Clear PROVE Inv'
<1>1. /\ readPtr' = 0 /\ writePtr' = 0 /\ queue' = <<>> /\ Len(queue') = 0
      /\ UNCHANGED <<data, write, read, received>>
      /\ write.step = "idle" /\ read.step = "idle" /\ Capacity \in Nat \ {0}
  BY MessagesAssumption DEF Clear
<1>2. TypeOK'
  BY <1>1 DEF Inv, TypeOK, Offsets
<1>3. Layout' /\ Chain' /\ Stored' /\ WriterInv' /\ ReaderInv'
  BY <1>1 DEF Layout, Chain, Stored, WriterInv, ReaderInv
<1>. QED
  BY <1>2, <1>3 DEF Inv

LEMMA Inductive == Inv /\ [Next]_vars => Inv'
<1>1. CASE UNCHANGED vars
  BY <1>1 DEF vars, Inv, TypeOK, Layout, Unread, Before, Wrapped, Chain, Stored, Holds, WriterInv,
     ReaderInv, At, Size, After
<1>. QED
  BY <1>1, WriteStartInv, WriteCopyInv, WriteStoreInv, ReadStartInv, ReadCopyInv, ReadStoreInv,
     ClearInv DEF Next

LEMMA InvHolds == Spec => []Inv
  BY InitInv, Inductive, PTL DEF Spec

----------------------------------------------------------------------------
\* The pointers stay inside the buffer, and every cell the calls touch as well.
THEOREM TypeCorrect == Spec => []TypeOK
  BY InvHolds, PTL DEF Inv

LEMMA InvTouch == Inv => TouchMeansEmpty
<1>. SUFFICES ASSUME Inv PROVE TouchMeansEmpty
  OBVIOUS
<1>1. CASE queue = <<>>
  BY <1>1 DEF Inv, Chain, TouchMeansEmpty
<1>2. CASE queue # <<>>
  <2>1. 1 \in 1 .. Len(queue)
    BY <1>2, QueueFacts DEF Inv
  <2>2. Unread(1) /\ After(1) = At(1) + Size(1)
    BY <2>1 DEF Inv, Layout, After
  <2>. QED
    BY <1>2, <2>1, <2>2, QueueFacts DEF Inv, Unread, Wrapped, TouchMeansEmpty
<1>. QED
  BY <1>1, <1>2

\* RingFIFOSize is 0 when, and only when, everything was read.
THEOREM SizeZeroMeansEmpty == Spec => []TouchMeansEmpty
  BY InvHolds, InvTouch, PTL

LEMMA InvOldest == Inv => OldestReadable
<1>. SUFFICES ASSUME Inv, queue # <<>> PROVE ReadFits(Size(1))
  BY DEF OldestReadable, Size
<1>1. 1 \in 1 .. Len(queue)
  BY QueueFacts DEF Inv
<1>2. Unread(1) /\ After(1) = At(1) + Size(1) /\ At(1) = Place(readPtr, Size(1))
  BY <1>1 DEF Inv, Layout, Chain, After
<1>3. /\ At(1) \in Nat /\ Size(1) \in Nat /\ Size(1) >= 1 /\ Capacity \in Nat
      /\ readPtr \in Nat /\ writePtr \in Nat /\ readPtr < Capacity /\ writePtr < Capacity
  BY <1>1, QueueFacts DEF Inv
<1>4. CASE Wraps(readPtr, Size(1))
  BY <1>2, <1>3, <1>4 DEF Unread, Wrapped, ReadFits, Place, Wraps
<1>5. CASE ~Wraps(readPtr, Size(1))
  BY <1>2, <1>3, <1>5 DEF Unread, Wrapped, ReadFits, Place, Wraps
<1>. QED
  BY <1>4, <1>5

\* The reader never misses a message that was written: no interleaving of the
\* two sides' wraps hides it.
THEOREM NothingIsHidden == Spec => []OldestReadable
  BY InvHolds, InvOldest, PTL

LEMMA InvEmpty == Inv => EmptyTakesAll
<1>. SUFFICES ASSUME Inv, queue = <<>>, NEW m \in Messages PROVE WriteFits(Len(m))
  BY DEF EmptyTakesAll
<1>1. readPtr = writePtr /\ readPtr \in Nat /\ readPtr < Capacity
  BY QueueFacts DEF Inv, Chain
<1>. QED
  BY <1>1, MessageFacts DEF WriteFits, Place, Wraps

\* A writer never waits for a buffer that is already empty: this is where a
\* message has to be shorter than half of the buffer.
THEOREM EmptyNeverRefuses == Spec => []EmptyTakesAll
  BY InvHolds, InvEmpty, PTL

\* The two together: a reader that waits for a message that was written and a writer
\* that waits for an empty buffer both go on, for any capacity and any messages.
THEOREM NeverStuckHolds == Spec => []NeverStuck
<1>1. OldestReadable /\ EmptyTakesAll => NeverStuck
  BY DEF NeverStuck
<1>. QED
  BY <1>1, NothingIsHidden, EmptyNeverRefuses, PTL

LEMMA InvDisjoint == Inv => CopiesDisjoint
<1>. SUFFICES ASSUME Inv, write.step # "idle", read.step # "idle"
              PROVE  Cells(write) \cap Cells(read) = {}
  BY DEF CopiesDisjoint
<1>1. queue # <<>> /\ read.at = At(1) /\ read.length = Size(1)
  BY DEF Inv, ReaderInv
<1>2. 1 \in 1 .. Len(queue)
  BY <1>1, QueueFacts DEF Inv
<1>3. After(1) <= write.at \/ write.at + write.length <= At(1)
  BY <1>2, WriterClear
<1>4. At(1) \in Nat /\ Size(1) \in Nat /\ After(1) = At(1) + Size(1)
  BY <1>2, QueueFacts DEF Inv, After
<1>5. write.at \in Nat /\ write.length \in Nat
  BY MessageFacts, QueueFacts DEF Inv, WriterInv, Place
<1>. QED
  BY <1>1, <1>3, <1>4, <1>5 DEF Cells

\* No byte is copied out while it is being overwritten.
THEOREM CopiesNeverMeet == Spec => []CopiesDisjoint
  BY InvHolds, InvDisjoint, PTL

----------------------------------------------------------------------------
(* The ring buffer is a queue.                                             *)

\* The queue it implements.
Contents == [i \in 1 .. Len(queue) |-> queue[i].bytes]

LEMMA ContentsSeq == TypeOK => Contents \in Seq(Messages) /\ Len(Contents) = Len(queue)
  BY QueueFacts DEF Contents

LEMMA StoreIsPut == ASSUME Inv, WriteStore PROVE \E m \in Messages : Abstract!Put(m)
<1>0. TypeOK /\ TypeOK'
  BY WriteStoreInv DEF Inv
<1>1. write.bytes \in Messages /\ write.length \in Nat /\ write.at \in Offsets
      /\ received' = received
      /\ queue' = Append(queue, [at |-> write.at, bytes |-> write.bytes])
  BY MessageFacts DEF Inv, WriteStore, WriterInv, TypeOK, Calls
<1>2. [at |-> write.at, bytes |-> write.bytes] \in [at : Offsets, bytes : Messages]
  BY <1>1
<1>3. Contents \in Seq(Messages) /\ Contents' \in Seq(Messages)
      /\ Len(Contents) = Len(queue) /\ Len(Contents') = Len(queue')
  <2>1. (Contents \in Seq(Messages) /\ Len(Contents) = Len(queue))'
    BY <1>0, ContentsSeq, PTL
  <2>. QED
    BY <1>0, <2>1, ContentsSeq
<1>4. PICK n \in Nat : n = Len(queue)
  BY <1>0, QueueFacts
<1>5. /\ Len(queue') = n + 1 /\ \A i \in 1 .. n : queue'[i] = queue[i]
      /\ queue'[n + 1].bytes = write.bytes
  BY <1>0, <1>1, <1>2, <1>4, AppendFacts
<1>6. Append(Contents, write.bytes) \in Seq(Messages)
      /\ Len(Append(Contents, write.bytes)) = n + 1
      /\ \A i \in 1 .. n : Append(Contents, write.bytes)[i] = Contents[i]
      /\ Append(Contents, write.bytes)[n + 1] = write.bytes
  BY <1>1, <1>3, <1>4, AppendProperties
<1>7. ASSUME NEW i \in 1 .. n + 1 PROVE Contents'[i] = Append(Contents, write.bytes)[i]
  <2>1. Contents'[i] = queue'[i].bytes
    BY <1>5 DEF Contents
  <2>2. CASE i \in 1 .. n
    BY <1>4, <1>5, <1>6, <2>1, <2>2 DEF Contents
  <2>3. CASE i = n + 1
    BY <1>5, <1>6, <2>1, <2>3
  <2>4. i \in 1 .. n \/ i = n + 1
    OBVIOUS
  <2>. QED
    BY <2>2, <2>3, <2>4
<1>8. Contents' = Append(Contents, write.bytes)
  BY <1>3, <1>5, <1>6, <1>7, SeqEqual
<1>. QED
  BY <1>1, <1>8 DEF Abstract!Put, Contents

LEMMA StoreIsTake == ASSUME Inv, ReadStore PROVE Abstract!Take
<1>0. TypeOK /\ TypeOK'
  BY ReadStoreInv DEF Inv
<1>1. queue # <<>> /\ queue' = Tail(queue) /\ received' = queue[1].bytes
  BY DEF Inv, ReadStore, ReaderInv
<1>2. Contents \in Seq(Messages) /\ Contents' \in Seq(Messages)
      /\ Len(Contents) = Len(queue) /\ Len(Contents') = Len(queue')
  <2>1. (Contents \in Seq(Messages) /\ Len(Contents) = Len(queue))'
    BY <1>0, ContentsSeq, PTL
  <2>. QED
    BY <1>0, <2>1, ContentsSeq
<1>3. PICK n \in Nat : n = Len(queue)
  BY <1>0, QueueFacts
<1>4. n >= 1 /\ Len(queue') = n - 1 /\ \A i \in 1 .. n - 1 : queue'[i] = queue[i + 1]
  BY <1>0, <1>1, <1>3, TailFacts, QueueFacts
<1>5. Contents # <<>> /\ Head(Contents) = received'
  <2>1. Contents # <<>>
    BY <1>2, <1>3, <1>4, EmptySeq
  <2>2. Head(Contents) = Contents[1] /\ 1 \in 1 .. n
    BY <1>2, <1>4, <2>1
  <2>3. Contents[1] = queue[1].bytes
    BY <1>3, <2>2 DEF Contents
  <2>. QED
    BY <1>1, <2>1, <2>2, <2>3
<1>6. Tail(Contents) \in Seq(Messages) /\ Len(Tail(Contents)) = n - 1
      /\ \A i \in 1 .. n - 1 : Tail(Contents)[i] = Contents[i + 1]
  BY <1>2, <1>3, <1>5, HeadTailProperties
<1>7. ASSUME NEW i \in 1 .. n - 1 PROVE Contents'[i] = Tail(Contents)[i]
  <2>1. Contents'[i] = queue'[i].bytes
    BY <1>4 DEF Contents
  <2>2. i + 1 \in 1 .. n
    BY <1>3
  <2>3. Contents[i + 1] = queue[i + 1].bytes
    BY <1>3, <2>2 DEF Contents
  <2>. QED
    BY <1>4, <1>6, <2>1, <2>3
<1>8. Contents' = Tail(Contents)
  BY <1>2, <1>4, <1>6, <1>7, SeqEqual
<1>. QED
  BY <1>5, <1>8 DEF Abstract!Take, Contents

LEMMA StepsOfQueue == Inv /\ [Next]_vars => [Abstract!Next]_<<Contents, received>>
<1>. SUFFICES ASSUME Inv, [Next]_vars PROVE [Abstract!Next]_<<Contents, received>>
  OBVIOUS
<1>1. CASE UNCHANGED <<queue, received>>
  BY <1>1 DEF Contents
<1>2. CASE WriteStore
  BY <1>2, StoreIsPut DEF Abstract!Next
<1>3. CASE ReadStore
  BY <1>3, StoreIsTake DEF Abstract!Next
<1>4. CASE Clear
  <2>1. queue' = <<>> /\ received' = received
    BY <1>4 DEF Clear
  <2>2. Contents' = <<>>
    BY <2>1 DEF Contents
  <2>. QED
    BY <2>1, <2>2 DEF Abstract!Next, Abstract!Clear, Contents
<1>. QED
  BY <1>1, <1>2, <1>3, <1>4 DEF Next, vars, WriteStart, WriteCopy, ReadStart, ReadCopy

\* Whatever the two sides' steps and wherever the messages wrap, the reader gets
\* the writer's messages whole, once and in order.
THEOREM ImplementsQueue == Spec => IsQueue
<1>1. Init => Abstract!Init
  <2>. SUFFICES ASSUME Init PROVE Abstract!Init
    OBVIOUS
  <2>1. Contents = <<>>
    BY DEF Init, Contents
  <2>. QED
    BY <2>1 DEF Init, Abstract!Init, Contents
<1>2. Inv /\ [Next]_vars => [Abstract!Next]_<<Contents, received>>
  BY StepsOfQueue
<1>. QED
  BY <1>1, <1>2, InvHolds, PTL DEF Spec, IsQueue, Abstract!Spec, Contents
=============================================================================
