----------------------------- MODULE LaneLease -----------------------------
(***************************************************************************)
(* What the ledger promises the devices of a run: a lane is leased to one  *)
(* device at a time.  In a step any lanes may become free, and one device  *)
(* may take some that were free: a lane never passes straight from one     *)
(* device to another.                                                      *)
(***************************************************************************)
CONSTANTS Lanes, Devices, Nobody

VARIABLE owner    \* who holds an unexpired lease on each lane

Init == owner = [l \in Lanes |-> Nobody]

Move(d) ==
    /\ owner' \in [Lanes -> Devices \cup {Nobody}]
    /\ \A l \in Lanes :
           owner'[l] # owner[l] => owner'[l] = Nobody \/ (owner[l] = Nobody /\ owner'[l] = d)

Next == \E d \in Devices : Move(d)

Spec == Init /\ [][Next]_owner
=============================================================================
