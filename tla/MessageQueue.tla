---------------------------- MODULE MessageQueue ----------------------------
(***************************************************************************)
(* What RingFIFO promises to its one writer and its one reader: a queue of *)
(* messages that come out whole, once and in order.                        *)
(***************************************************************************)
EXTENDS Sequences

CONSTANT Messages

VARIABLES
    queue,      \* the messages written and not yet read
    received    \* the message the last read returned

Init == queue = <<>> /\ received = <<>>

Put(m) == queue' = Append(queue, m) /\ UNCHANGED received

Take == queue # <<>> /\ received' = Head(queue) /\ queue' = Tail(queue)

Clear == queue' = <<>> /\ UNCHANGED received

Next == (\E m \in Messages : Put(m)) \/ Take \/ Clear

Spec == Init /\ [][Next]_<<queue, received>>
=============================================================================
