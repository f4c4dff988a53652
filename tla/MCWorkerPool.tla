---------------------------- MODULE MCWorkerPool ----------------------------
(* Instances of WorkerPool: three lanes in bundles of two, as the launchers cut them. *)
EXTENDS WorkerPool

CONSTANTS p1, p2    \* the processes of two workers

BundleSize == 2
MCLanes == 1 .. 3
MCBundles == {{l \in MCLanes : (l - 1) \div BundleSize = i} : i \in {0, 1}}
=============================================================================
