---- MODULE MCLockstep ----
EXTENDS Lockstep

MCRest == [m \in LinkModes |-> IF m = "multi" THEN 3 ELSE -1]

MCParties ==
    {[joins |-> 3, modes |-> {"multi"}, changes |-> 1, leaves |-> 0, alone |-> FALSE],
     [joins |-> 3, modes |-> {"multi"}, changes |-> 0, leaves |-> 1, alone |-> FALSE],
     [joins |-> 2, modes |-> LinkModes, changes |-> 1, leaves |-> 1, alone |-> FALSE],
     [joins |-> 2, modes |-> {"multi"}, changes |-> 1, leaves |-> 1, alone |-> TRUE]}
====
